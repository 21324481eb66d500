# Security Guard: a verification project

TLA+ models of the Security Guard system service, the TLC configurations that check
them, and theorems about them checked by TLAPS.  Paths are relative to the
repository's root; `ADSM` stands for
`src/services/data_collect/sa/acquire_data_subscribe_manager.cpp`, `DCMS` for
`data_collect_manager_service.cpp` and `AC` for `auth_event/auth_coordinator.cpp`
beside it.

    tlc -config SubConcurrent.cfg MCAcquireDataSubscribe.tla    # a run
    tlapm AuthProofs.tla                                        # a proof module

`PROJECT.json` lists the runs, which definition stands for which source lines,
the hazards with the properties aimed at them, a plausible mistake for each
property that a run then detects (the definitions commented "Mutant:" or
"Mistake:"), the finding (a run in which the code breaks what a comment
says) and the theorems.

## 1. The system

Security Guard collects security events of the device, gives them to
subscribers, stores them, answers queries, analyses risk, and lets clients
authorize events before they happen.  It is one process with two abilities
(data collection, risk analysis) and a pool of IPC threads and ffrt tasks, a
second process (SecurityCollector) loaded when a collector of its own is wanted,
and kits linked into client processes, with JavaScript bindings above them.

| Component | State it keeps | Operations | Hard behaviour | What makes it correct |
|---|---|---|---|---|
| Subscription manager (ADSM) | sessions, their events and mute filters, listeners, SecurityCollector subscriptions, sticky marks | create/destroy client, subscribe/unsubscribe (two interfaces), add/remove filter, death, publish | two mutexes, the first released before every call out; rollbacks; deaths in mid-call | a subscriber's collector runs, nobody's collector stops; kit and service agree; filters are in the plugin; a sticky event comes once |
| Collector pool (`collector_manager/src/data_collection.cpp`) | loaded collectors, subscription counts | (un)subscribe, start, stop, query | part of a batch fails; sticky collectors are counted per subscriber | a count says who still needs the collector |
| Upload (ADSM 506-972, DCMS 130-310) | two queues with counters, two token buckets, two caches | report, upload, batch, flush, publish, store | check-then-act on atomics; three threads that publish | no event is lost or stored twice; counters and buckets stay in their bounds; every event settles |
| Device id (ADSM 583-700) | cached id, valid, in-flight and stop marks, recovery thread | read, invalidate, recover, stop | marks written outside the lock; a join under the lock | one recovery at a time; the stop returns; an attempt succeeds in the end |
| IPC service (DCMS) | client callbacks, death recipients | client calls, queries, config updates | entries that outlive their client; watches set after the insertion | no session is kept for the dead; every query is answered |
| Client kits, events (`event_subscribe_client.cpp`, `data_collect_manager.cpp`) | sessions, subscribed events, filters, subscriber objects, JavaScript callbacks | the same calls, recovery after the service's death | recovery uses what was remembered before its delays; overlapping recoveries | after recovery the service has what the kit records |
| Event authorization (AC, `auth_event_*`) | providers, client sessions, routes, request contexts, counters | create/destroy, subscribe, request, answer, timeout, status notices, deaths | one task per request, answers on IPC threads, the timeout | the strictest answer decides; each request is answered once |
| Client kit, authorization | client and provider objects, callbacks, promises, a queue of notices | the same calls, deletion, recovery | a deletion against a callback that runs and against a recovery | handles are served again; none is left behind; no callback after its deletion |
| SecurityCollector service and its kit | subscribers, runs, a count of users; listeners of each process | subscribe, start, stop, query, deaths, unload | count and tables change in different steps; it unloads itself | the count is exact; what is subscribed or started runs |
| Event store (`store/`) | one SQLite connection, its transaction, the rows | open, batch insert with quota, delete, query | statements that fail inside a transaction; crashes; reads between statements | quotas hold; what was committed stays |
| Queries (DCMS, JS) | tasks, chunks, the table of JavaScript queriers | three APIs, answered by collectors, SecurityCollector, store | part of the sources fail; chunks are queued to another thread | an accepted query ends; a complete one is complete |
| Configuration (`config_manager/`) | files and their copies, maps, tables of events | init by two abilities, update of one file | copies through shared names, failures and crashes between file and map | what is in force is what a restart loads |
| Risk classification (`risk_classify/`) | loaded models with use counts; plugins with the events they wait for | request (sync, async, JS), start, listen, release; subscribe, retry | models work under one lock, may hang; subscriptions are refused and retried | a model in use stays, an idle one goes; requests return; plugins hear |

The kits call the service over IPC and are called back; each side watches the
other's death.  ADSM calls the pool in its own process and SecurityCollector over
IPC, and both hand events back to it.  AC and the session manager of the
authorization service call each other, each under a mutex of its own, never
nested.  A query goes through the pool, SecurityCollector and the store; models
and plugins read the configuration and subscribe to ADSM.

## 2. Modules

    DataCollection              the collector pool
      AcquireDataSubscribe      ADSM: sessions, subscriptions, filters, sticky events
        MCAcquireDataSubscribe
        AcquireDataSubscribeProofs
      CollectorService          SecurityCollector, its kit, its callers
        MCCollectorService
        CollectorServiceProofs
    CollectorLease              what a subscription promises, abstractly
    AuthRegistry                both tables of the authorization service, status notices
      AuthCoordinator           its requests
        MCAuthCoordinator
        AuthProofs
    AuthKit                     client and provider objects of the kit, JavaScript promises
      AuthKitProofs
    SubscribeKit                both subscription kits, on/off, the service across deaths
      SubscribeKitProofs
    UploadPipeline              from a collector or a report to store and subscribers
      UploadProofs
    DeviceIdRecovery            the id of the device and the thread that recovers it
      DeviceIdProofs
    EventStore                  the store
      QueryPath                 the queries, through pool, service and store
        StoreProofs
    ConfigStore                 files, copies and maps of the configuration
      RiskModels                models and their requests
        GuardService            the whole process: boot, crash, plugins

Each MC module gives the constants their values for TLC; the modules named
*Proofs* hold the theorems of section 5.

### DataCollection and AcquireDataSubscribe

`opMutex_` is held through every operation of the pool, so each is one action;
`SubscribeCollectorsFail` keeps the counts the code forgets to undo.

Each member of `Threads` serves one call at a time: `pc` says where it is and
`job` holds its locals.  An action is one critical section of `sessionMutex_`,
or one call out of the manager, since that mutex is given back before any such
call; `subLock` is `subscribeMutex_`.  So `Subscribe` (the record is inserted,
ADSM 134-155), `SubscribeScIfNeeded` (lock and recheck, 403-412),
`SubscribeScDone` (the start, and the end of the critical section),
`UndoSubscribe` (the rollback, 158-166) and `RecheckMute`, `InsertMute` (the
filters the session listed) are the parts of one subscription.
`Unsubscribe`, `UnSubscribeScIfLast`, `UnSubscribeScDone`, `UndoUnsubscribe`
and `Cleanup` are those of an unsubscription; `RemoteDied`, `Purge`,
`UnmuteAll` those of a death.  `Kind` says how an event is collected: by this
process, once or ("sticky") once per subscriber; by SecurityCollector; not at
all; or it is not configured.  `known` is the record the kit keeps of a
client's subscriptions.  `held` and `given` are history variables: the
subscriptions confirmed to a client and not yet given up, and how often a
sticky event was given to one.  A call that returns before it changes anything
is a stuttering step.

`CollectorLease` states the promise with no locks and no threads: a lease on an
event is granted only while its collector runs, and a collector stops only when
nobody holds one.  `Lease` in AcquireDataSubscribe is the refinement mapping.

### AuthRegistry and AuthCoordinator

A provider or client of the model is one session object.  Its creation is an
insertion under the table's mutex and then the watch on its death, with a
rollback (`CreateAuthProvider`, `WatchProvider`).  `notice` says that a run of
NotifyClientStatusChanged is due that has not begun; a thread of `Notifiers`
lists the providers, then collects and sends for one after the other.

`task[r]` is the ffrt task of a request: it lists the sessions
(`ProcessAuthResultAsync`), draws a number for each and makes its route
(`VisitClient`, then `NotifyDegradedClient` or `RegisterNormalClient`), pushes the
events, waits, handles the timeout, erases the routes and tells the provider.
Clients answer on other threads: `SetAuthResult` looks the route up under the
shard's mutex, `RecordClientResult` writes to the context under `ctxMutex`; between
the two the task goes on. 400 ms are not counted: the wait may end at any moment
before the promise is kept.  `VisitClient` reads the client's counter and the step
that uses the number writes it, since no lock guards `++seqnumCounter_`: two tasks
between the two draw the same number.  An event stays in `inbox` when it is
answered, so a client may answer it again, for as long as its route is there and
after.  When a request is over its context is forgotten: only `completed` can still
be read, by an answer on its way.  Four history variables: `heard`, the providers
that have been sent the clients of their service as they are now; `drew`, the number
each request drew at each client; `recounted`, the requests that have counted two
answers of one client; `crossed`, for each request the clients whose answer to
another it has counted.

### UploadPipeline and DeviceIdRecovery

An event is a number, `sent` says of which kind.  A producer thread goes through
`UploadEvent` a step for each access to a shared counter or cache (`pc`): test,
submit, count for a batch; test, count, submit for an urgent event.  The handlers
"queue", "crucial" (the two serial ffrt queues) and "cleaner" (the ten-second
flush) run the tasks: an insertion in the cache of the store, a publication, a
test of the token bucket and a separate subtraction.  Applications' reports
take a token of a second bucket first (`TakeRequestToken`, `GiveBackToken`), which
two more threads may do at once.  Counters are unsigned with width `Modulus`.
Who subscribes is AcquireDataSubscribe's matter: a step chooses whether anybody
received the event.

DeviceIdRecovery has a step for each read or write of an atomic flag, since no
lock covers them, for the subscribing threads, the death callback, the stop, and
the recovery thread; the device manager dies and comes back around them.

### SubscribeKit

The service is reduced to which items (events and filters) each session has; `up`
and `life` say which of its lives is running, and a call remembers the life it was
made in, so that its answer may be lost.  Answers the service gave before it died,
the notices of its death and its next start reach a kit in any order.  `HandleDeath`
copies what the kit has recorded and starts a recovery in a slot of `Tasks`; the
recovery waits, connects, creates the session and subscribes item by item while the
application goes on calling.  The old kit has one session "sdk", takes its
subscribers aside, and is above that the table `jsEntries` of the JavaScript
functions `on` and `off`.  The death of the application reaches the service if it
watches the callback.  `strained` is a history variable: the kits that were
recovering when the service died again, or heard of its death with an answer to a
subscription on its way.

### AuthKit

A handle is a client or provider object; its recoveries are named by the life of
the service that ended, so that two may overlap, and each step of them may find
the handle deleted (`deleted_`), its session replaced (`sessionRemote_`) or the
service dead.  `push` is a binder thread in the callback object with
`notifyMutex_`, for which a deletion waits.  For providers `tsfn`, `notice` and
`promise` are the thread-safe function, its queue and the promise of
`requestAuthResult`.

### CollectorService

The calls of the kit are made under its mutex (`lock`), and in the service each
is count, act, uncount, with the deaths of callbacks and the thread that unloads
the service between.  DCMS starts and stops its own collectors in a second
instance of DataCollection (`LocalPool`) and asks the kit for the others.  A
query is a user of the service for as long as it lasts.  `cut` is a history
variable: the events whose collector one kind of user (a subscription, a run) has
stopped under the other, or whose run a failed stop has kept, and which have not been
started since.

### EventStore and QueryPath

`disk` is what a restart would find and `view` what the connection shows; they
differ inside a transaction.  `InsertEvent` under `delMutex_` is begin, one step
for the count, the eviction and the insertion of each event, and commit.  Every
statement whose result the code reads or drops may fail.  A query is a call of
the kit, an acceptance by DCMS, and a task that asks this process' collectors,
SecurityCollector and the store ruler by ruler, sending chunks; for JavaScript,
chunks and the end are queued to its thread (`jobs`), through one table entry for
each environment.  `found`, `silent`, `cut` and `lost` are history variables that
say what the answer had to hold and which known losses it met.

### ConfigStore, RiskModels, GuardService

A file name leads to an inode (`disk`, `tmp`), the inode to a text (`data`), and a
text to its entries (`Text`): so a writer that has a file open keeps writing to it
when its name goes elsewhere, as in CopyFile's rename.  Each update is a sequence
of steps (receive, check, cache, copy, rename, parse, map, tables) and nothing
serializes two of them.  RiskModels has the lock and the use counts of
ModelManager, with loading outside the lock; a model at work may never return.
GuardService composes both with the boot of the two abilities, a crash at any
point, and the plugins with their loader and retry threads.

## 3. Runs

| Run | Instance | Checks |
|---|---|---|
| sub_concurrent | 2 threads, 1 client of each interface; a filter; a local event, one of SecurityCollector and one with no configuration | TypeOK, NoOrphanCollector, HeldServed, FilterApplied, refinement of CollectorLease; CollectorReleased and CallReturns under fairness |
| sub_sequential | 1 thread, 3 clients, 3 events; starts and SecurityCollector calls may fail; a sticky event collected from the start | StickyOnce, ClientViewAgrees |
| sub_stops | 2 threads; 2 clients of the new interface, 1 of the old; a local and a SecurityCollector event | finding: SubscribedServed |
| auth_policy | 1 request to 2 clients, one that denies when late; degraded clients, repeated answers, deaths | StrictPolicy; RequestAnswered under fairness |
| auth_overlap | 1 provider, 1 client, and either 2 requests at a time, numbers drawn twice and repeated answers, or 2 notifiers; departures and deaths | AnswersMatch, ActiveExact, ChangesTold; DeadGone under fairness |
| upload_pipeline | 2 producers that also report, 3 events of 3 kinds, batches of 2, 1 urgent task, buckets of 1 | NothingLost, CountersExact, BucketFloor; EventSettles |
| device_id | 2 subscribing threads, 2 deaths of the device manager, the stop | OneRecovery; StopEnds, RecoveryConverges |
| subscribe_kit | either 1 client, two events and a filter, or 4 subscriber objects of the old kit (2 of JavaScript); 2 deaths of the service, 5 calls | KitsAgree; SessionKept, SessionGoes |
| collector_service | 2 processes with a subscriber each to one event, a third that starts and stops the same event, another and a local one, and queries, 2 lives, 3 calls; loads and stops fail | RefExact, Served, KitAgrees |
| auth_kit | a client or a provider, 2 deleting threads, 3 lives, 2 calls, 2 retries | KitServed, DeletedGone, QuietAfterDelete |
| query_path | eight plans: three versions of the file with batches of 2 and 2 failures; six queries of three APIs, alone and in pairs, with a failure | WithinQuota, Durable, AllDelivered; QueryAnswered |
| guard_service | twenty-one plans: twelve updates alone, in pairs and with an init; eight requests of five kinds; two plugin files; 1 or 2 failures, crashes | ConfigInstalled, ModelKept; RequestEnds, PluginHears |

Bounds.  Two threads suffice for the races between critical sections found by
reading, since each involves two calls; where three clients are possible two
compete and a third is of the other interface; `MaxCount` (a collector counted three times gets
no further subscription) is above the count two competing clients reach.
A client of ADSM is never reused after its death: `NewClient` gives it its
one life, as the kit makes a new id for each object.  For the authorization
service two requests to one client are what a mixed-up number or route takes,
and two clients with different strategies what a wrong verdict takes; both
together with deaths and departures are beyond five minutes.  Notices that
overtake each other take two notifiers and two changes of the tables.  Two runs
have a CONSTRAINT that leaves alternatives instead of their product: auth_overlap
(`Alternatives`) the behaviours with no request and those with no notice begun,
subscribe_kit (`OneKit`) those that use one kit.  What is left out interleaves steps
that read and write nothing in common but the tables, or the life of the service;
the theorems of section 5 are about all behaviours.  A CONSTRAINT ends no behaviour
that fairness continues: no fair step begins a request, a notice or a call.  The quotas of
the two tables are tested and counted in one critical section each; the
instances leave them room, so that requests overlap.
Two deaths of a service make two recoveries overlap, and a third life lets
the second one end; more calls than one recovery has steps are not needed to
overtake it.  Three events fill a batch of two and leave one for the flush,
and the bucket of one token is spent by three publishers.  A width of 4 makes
the counter that is decremented first wrap.  The plans of query_path and guard_service are
alternatives chosen by Init, each an instance small enough to be explored whole:
queries, updates and requests that do not touch the same state are not combined.
`CHECK_DEADLOCK FALSE` where the system may stop: every request is done,
every object dead or deleted, all calls made.

What the runs say beyond their names:

* The run marked "finding" is violated: it checks what a comment says, and TLC
  shows how the code breaks it (section 6).
* ClientViewAgrees, StickyOnce and FilterApplied hold with `Serial`, each client
  making one call at a time, and the last when the plugin refuses no filter.
* StrictPolicy says that a denial recorded, or a client late that denies when late,
  and only these, make the verdict "DENY", whatever else happens; that all have
  spoken before "ALLOW" is said of requests that have counted no second answer and
  no answer to another request, since with these it is false.
* AnswersMatch says that an answer is counted for another request only if the two
  have drawn the same number at that client, which the code may do.
* ChangesTold says that the list as it is now has been sent.  With two notifiers
  the one that collected first may send last, and nothing corrects the provider's
  list until the next change: nothing in the repository promises an order.
* KitsAgree and KitServed speak of kits that were told of the death: they are
  about what a recovery loses, and the deaths no notice reaches are in section 6.
  KitsAgree also leaves out the `strained` kits, for which the code does lose what was
  recorded after the recovery made its copy.
* RefExact ends, for one life of the service, with the first CollectorStop that
  fails; Served leaves out an event in `cut`, from the stop that one kind of user does
  under the other to the next start, which the code allows.
* ModelKept leaves out a model of which an initialization has failed since it was
  loaded: that call drops its use and does not release (`model_manager.cpp` 145).
* AllDelivered and QueryAnswered leave out the losses named in section 6, so that
  any other loss is found.
* ConfigInstalled is about updates that do not overlap another on the same file,
  and about writes that are not cut short; crashes may come at any step.

## 4. Fairness

`AcquireDataSubscribe!FairSpec` has strong fairness of `Continue(t)` for each
thread: a call under way goes on, and a thread that waits for `subscribeMutex_`
gets it in the end.  Weak fairness would not do, since another thread may take
and give back the mutex for ever; ffrt::mutex queues its waiters, and every
holder of it calls something bounded by a binder timeout.  No call ever has to
be made, and no client has to die.  `DeviceIdRecovery!FairSpec` has strong
fairness of taking `deviceIdRecoveryMutex_` for the same reason, and weak fairness
of the rest.

`AuthCoordinator!FairSpec` has weak fairness of each request's task, of each
answer being recorded, of the death notices and the rest of a creation: ffrt
runs every task, `wait_for` returns after 400 ms, the mutexes are held for a bounded
time and binder delivers notices of death.
Weak is enough, as nothing but its own step ends the readiness of such a step.
Clients are not made to answer; RequestAnswered holds though none does.

The others have weak fairness of what the system itself runs, for the same
reasons: UploadPipeline of the start, the threads and the flush, and not of
events, configurations or the stop; SubscribeKit of the notices of death and of
calls that are in the service; QueryPath of the tasks, of binder's returns
and of the JavaScript thread; GuardService of the process' own threads, its
start by the system and the events that keep coming, but not of a model at
work, which may never return.

## 5. What is proved

For every value of the constants that the modules' ASSUMEs admit (any sets of
clients, threads, events, requests, producers; any limits, quotas and bounds):

| Theorem | Assumes | States |
|---|---|---|
| `Typing` (AcquireDataSubscribeProofs) | nothing more | TypeOK and JobOK: what a thread's locals hold at each point of a call |
| `NoOrphans` | no start and no SecurityCollector call fails | no collector runs for nobody, even if clients overlap their own calls |
| `Leases` | `Serial`; no stop fails | a confirmed subscription has its collector, whichever starts fail |
| `Refinement` | the same | Spec implements CollectorLease |
| `RecordsAgree` | `Serial` | ClientViewAgrees, whatever fails |
| `GivenOnce` | `Serial` | StickyOnce |
| `FiltersSet` | `Serial`; the plugin refuses no filter | FilterApplied |
| `RequestsCounted` (AuthProofs) | nothing more | ActiveExact: a provider's count is that of its requests under way |
| `RequestsLimited` | nothing more | no provider has more requests under way than the limit |
| `AnsweredOnce` | nothing more | no request is answered twice, the safety half of RequestAnswered |
| `NothingDeniedIsAllowed` | nothing more | StrictPolicy |
| `AnswersFindTheirRequest` | nothing more | AnswersMatch |
| `ListsTold` | nothing more | ChangesTold, for any number of notifiers |
| `CommittedStays` (StoreProofs) | nothing more | Durable, through failing statements, rollbacks, crashes and restarts |
| `QuotaKept` | nothing more | WithinQuota, on disk and on the connection |
| `QueriesSeeDisk` | nothing more | outside a transaction the connection shows what the disk holds |
| `QueriesDelivered` | nothing more | AllDelivered: a query announced as complete has brought all, once |
| `CountersAreExact` (UploadProofs) | nothing more | CountersExact, with the unsigned width of the counters |
| `BucketsHoldTheFloor` | nothing more | BucketFloor, for both buckets |
| `NoEventLost` | nothing more | NothingLost: an event accepted is in one place on its way, given up, or inserted once |
| `SingleRecovery` (DeviceIdProofs) | nothing more | OneRecovery: one recovery at a time, and the mark is on only during it |
| `UsersCounted` (CollectorServiceProofs) | nothing more | RefExact: the count by which SecurityCollector unloads itself |
| `UsersServed` | nothing more | Served: what is subscribed, or run, has its collector started, unless the other kind of user has stopped it |
| `SubscriptionsRecovered` | nothing more | KitAgrees: kit and service agree on a subscription, after any deaths |
| `HandlesServed` (AuthKitProofs) | nothing more | KitServed: a handle of the authorization kit is served again after each death it was told of |
| `NothingLeftBehind` | nothing more | DeletedGone: a deletion leaves no session, nor does a recovery beside it |
| `SilentAfterDeletion` | nothing more | QuietAfterDelete: no callback of the user's after its deletion |
| `SessionsKept` (SubscribeKitProofs) | nothing more | SessionKept: no recovery takes away a session that another made |
| `KitsRecover` | nothing more | KitsAgree: both kits and the bindings agree with the service after any deaths |

The assumptions of the first part are needed: a failed subscription not yet rolled
back refutes NoOrphans without its own, and without `Serial` a client that
unsubscribes while its own subscription is being set up is confirmed one whose
collector stops.  The constants' assumptions are named in their modules; two are
worth a word: the producers of UploadPipeline are finite and fewer, with MaxTasks,
than the width of the counter (the code has 256 tasks and 32 bits), and `NoOne`, who
holds a free mutex, is no caller.

*NoOrphans.*  NoOrphanCollector is not inductive: it must be known that a start
under way is still wanted or will be released (StartInv, which the recheck in
SubscribeScIfNeeded establishes), that a collector is counted once if it runs
(CountInv, so that a release stops it) and that `subscribeMutex_` excludes
(LockInv).  OrphanInv is their conjunction.  Most actions touch neither the lock
nor the collectors and are shown "Harmless" by one lemma; five remain.

*Leases.*  HeldServed needs StopInv, that nobody relies on a collector while it
is being stopped.  UnSubscribeScIfLast establishes it by looking at the
sessions; SetupInv and HeldInv say that the sessions show everybody who relies
on one, and the lock keeps a new subscription from being confirmed meanwhile.
SerialInv keeps a client's calls from undoing each other, ListenerInv ties the
listeners to the loaded collectors.  LeaseInv is their conjunction.  *Refinement*
maps starts, stops and confirmations to the steps of CollectorLease, a session's
end to Release, all else to a stutter; StopInv gives the guard of Stop.

*Records.*  Between calls the records agree; within a call they differ by what it
has done so far, and RecordInv says by how much.  Agree(c, K, X, F) is the unit: the
kit's record is K, and the filters listed for the events of X are in the plugin but
for those of F.  CallOK states it for each point of each call (a subscription being
set up is in the session and not in the kit, its filters are those of the snapshot
still to do; a removed filter has left the plugin and not the session), LiveOK says
that every client alive is served by one such call or settled, DeadOK that nothing is
left of a dead one and that its late calls find no session, MarksOK that what was
given to a standing subscription is marked.  A step concerns one client, so one
lemma (StepKeeps) carries all the others over.

*Counting requests.*  ActiveInv adds to ActiveExact that `told` is 1 exactly for
the requests done, and that no count is above the limit.  Each step moves one
request, and either keeps it in UnderWay, adds it (TryIncrementActiveRequest,
under its limit) or takes it away (a rollback, or the guard at the end), so one
lemma on adding and removing an element serves all.

*Answers.*  However the draws overlap, a counter goes no further than the number of
requests that have drawn at its client (Numbering), so the table of routes is large
enough; a request draws once at a client, and its context and the event it pushes
have that number (Drawing); a route leads to a request that asked by that number
(RoutesLead).  So an answer on its way is to a request with the number of the one it
is about (Answering): the two are the same, or share their number, which is
AnswersMatch.  Undecided says of an open context that nobody has denied it, and of one
that has counted first answers to itself alone (Exact) that its counter is the number
of answers due, so that it is zero exactly when the last is recorded.  Their conjunction
with StrictPolicy and AnswersMatch is inductive.

*Status notices.*  ToBeTold: a live provider that has not been sent the clients of its
service as they are now will be, because a notice is due or a thread has still to
collect, or to send what is current.

*Store.*  NothingForgotten holds of the disk and of the connection, so that it
survives a COMMIT, a rollback and a crash; ImagesAgree makes the two equal when no
transaction is open.  RoomMade carries the eviction's result to the insertion
that follows it: one more row fits.

*Upload.*  CountersInv bounds the urgent counter by adding the threads that have
tested it and not yet raised it, so it cannot wrap; the other counter does wrap, and
is exact modulo its width by two lemmas on `%`.  BucketsInv accounts for every token
that was tested and not yet spent, or lent to a report refused.  NothingLost is a fact about
lists in places (Flow): the caches, the urgent queue, each batch that waits, the hands
of each thread and what it took to insert.  Eight lemmas, of constants alone, say what
may happen to such lists without losing or doubling an event: a new one arrives or is
refused, a list moves to an empty place, its first element moves or is given up, a
whole place is given up or inserted, and the places are renumbered (the batches, when
the first is taken).  One lemma per action finds which of these it is.  For that one must
know whose hands are empty at each place (HandsInv), which is what a second list on top
of the first would violate; that the flush is off until OnStart starts it (FlushInv);
and that the bound on the events leaves room for the reports under way (RoomInv).

*Device id.*  OneRecovery with MutexHeld, that the mutex is held exactly from the
join of the old thread to the start of the new one, and OwnPlaces, who may be
where.

*SecurityCollector.*  RefExact compares two sums that change in different steps, so
CountInv carries what differs: a call that has counted itself and not yet left its
entry, or the reverse, a callback whose death is announced and not yet handled
(Differs); one lemma (Recount) says that a step moves count and users by the same
amount.  It holds until the first CollectorStop of a life that stops nothing, since
that one lowers the count (section 6).  Served follows from the pool's listeners:
every subscription and run is one of the pool's counts, or its stop is under way.
For KitAgrees: what the kit has and the service has not is Backed by a call that is
not over, or a recovery that is to subscribe it (Remembered), and the tasks of a
recovery are of the life that died last (TasksOK); a confirmed call was made in the
life that its process watches (WatchedCalls).

*Authorization kit.*  KitServed is about rest; what is inductive is ServedInv, that a
handle in order is Attached (its session is of this life and has, or a recovery is
about to give it, all that is Due), is Told of a death, or is Restoring, with a
recovery before its switch that remembers exactly the record.  RecInv adds that the
life a recovery works for still runs or its death will be heard, and that a session
is switched to once.  KnownInv names for each session somebody who knows it, the
handle, a recovery or a deletion, which is what DeletedGone needs, and makes a
recovery that is refused for a session that exists harmless.  A step belongs to the
service or to one handle (Apart), so one lemma (SameInv) carries the others over, and
each part of the invariant is shown for the handle's own steps.

*Subscription kits.*  A recovery undoes the session it made when it finds its slot of
`clientCallBacks_` taken.  SlotInv says it never does: a CreatClient between its two
steps, of the application or of a task, is the only one of its client, and a slot
that is taken has its session; StageInv says what a client has while it is being
created and after its release, so that no task is left to recover it.  This holds
wherever deaths strike and gives SessionKept.  KitsAgree is about rest: what is
inductive (Inv) is, for a kit that is not strained, that it has at most one task, and
none before it has heard of the death (Alone), and that what the session lacks of the
record is what that task has still to ask for, a record being dropped excepted
(ClientInv, Restoring).  For the old kit (SdkInv) the session is bounded from both sides:
it has at least the events of the subscribers and of the one just asked for, and at
most these and those of the subscribers that the task will put back (KitSession, Held,
Rest); the entries of the bindings are the subscribers, the one of a call under way
and those of the task (KitEntries), which never meet (KitApart).  An answer that is
handled after the death adds to the record or takes from it before the copy is made,
so that nothing has to be said of the order of answers, notices and lives but this: an
answer to a subscription that is still on its way then strains the kit.

*QueriesDelivered.* QueryInv says of a query that is neither refused, cut nor lost
that what its rulers gave is once with the caller, in the jobs of its environment or
in the chunks of its task (Flow), and follows a chunk from one to the next.  A ruler
that was asked failed, was passed over in silence or gave all it had, and one still
to be asked has given nothing (Asks); an item names its event, so what a ruler adds
is new.  The end is the last job of its query, and found no failure when it was sent
(Places, Final).  A waiting query of an environment that is not cut has its entry
there (Caller): this is what the end of another query breaks.  The constants'
assumptions of QueryPath are that no configuration has an event 0, which a malformed
ruler is read as, that a query has finitely many rulers, and that JavaScript can
only call querySecurityEvent (`security_guard_napi.cpp` 1445).

What the proofs changed in the models; none of it changes the verdict of a run.  The
finiteness of the producers and the name of nobody had to be said.  The verdict of
HandleTimeout was a CASE whose guards overlap, of which TLA+ does not say which
applies (a client that denies when late, in a context that an answer has completed
meanwhile); it is now an IF in the order of the code.  A CollectorStop whose service
dies between the stop and the count is also one that the kit tries again
(`collector_manager.cpp` 325), which the count's proof found missing.  KitServed was
false with four lives of the service, one more than the run has: the older of two
recoveries that overlap makes the next session with its stale copy, or switches to a
dead session after the newer one; its statement now leaves both out, and section 6
has them.  NothingLost counted the events with a fold, and is now said of pairs of
places, which is the same.  In SubscribeKit the task of the old kit might have set
filters again, which it has not (`data_collect_manager.cpp` has none), if a
subscriber were one, and `None` might have been a client.

Only model-checked.  Everything under fairness: tlapm 1.4.5 proves neither liveness
nor ENABLED.  Not attempted: ConfigInstalled and ModelKept of GuardService.

## 6. Where the code is weaker than one may expect

Met while modelling.  Where a comment or the design says otherwise it is named, and
the first has a run that shows it.  For the others the statement of a property leaves
the case out, by a history variable where the models have it, and the hazard in
`PROJECT.json` says so.

*Subscriptions.* Two clients that drop the last two subscriptions at once: the
second stop fails for want of a listener and its rollback leaves a subscription
without a collector (ADSM 449, against the comment at 420: run sub_stops).  A failed
subscription not yet rolled back makes another's last unsubscription keep the
collector (ADSM 158, comment 405-407).  Sticky collectors are counted per subscriber
and released once (ADSM 277, `data_collection.cpp` 101); a failed load leaves its
count (`data_collection.cpp` 184); a stop that fails leaves a subscription without
collector.  A filter set after its client was purged stays in the plugin (ADSM
1050).  The quota of sessions is tested and used in two critical sections (1185,
1196).  The sticky mark is cleared late, outside the lock (177).  `clientCallBacks_`
keeps the entries of the dead (DCMS 1309), and an application that dies before its
callback is watched leaves its session (1302).

*Kits.*  After one unsubscription the old kit's death is watched no more (DCMS
424).  A recovery subscribes again an event unsubscribed before its turn.  The old
kit stops watching when it has no subscriber at the first death.  JavaScript's `on`
returns silently for a callback that is there for another event, `off` with a
callback ignores the event (`security_guard_napi.cpp` 1332-1336, 1380-1409).  A
subscription whose answer comes when the kit has heard of the death may be recorded
after the recovery made its copy (`event_subscribe_client.cpp` 168), and the
entry left by a recovery that gave up blocks its callback for ever.

*Authorization.* A client's second answer counts as another's (AC 564, comment 577,
`.sdd/SR-20260806903302/design-doc.md` 706).  The number of an event is drawn without a lock
(`auth_event_session_service.h` 84, against `design-doc.md` 155).
Two recoveries of a client may overlap: the older one may make the next session with
the events it copied before later changes, or put its session, of a service that is
dead, over the newer one (`auth_event_subscribe_client.cpp` 195, 257).  Status
notices may overtake each other (AC 777); a session's set of events is iterated
while it changes (735).  A provider watches only the first death of the service
(`auth_provider_subscribe_client.cpp` 215, against `design-doc.md` 738), and one
deleted during its recovery leaves a session.  The
promise of `requestAuthResult` is never settled when the service dies
(`napi_block_framework.cpp` 547, against the comments at 397 and 407), and nothing waits the 400 ms the comment at
`auth_provider_subscribe_client.cpp` 110-111 speaks of.

*Upload.*  A report that is refused for its id or content keeps its token (DCMS
226-237); reports made before the first fill of the bucket are refused, as the
service is published before the bucket's thread starts (147, 160); one that is
refused holds a token until it gives it back; an event discarded for too many
tasks is a success for its reporter (ADSM 820-855).  The device id's marks are
written outside the lock: an invalidation is overwritten (607), a request to recover
is lost (661), and one after the stop clears the stop mark (640).

*SecurityCollector.* A CollectorStop that stops nothing lowers the count (275); runs
and subscriptions share one entry of the pool, so the last of one kind stops the
collector of the other (`security_collector_run_manager.cpp` 61); a failed stop
keeps its run (`security_collector_run_manager.cpp` 90); a callback that dies before
its insertion stays counted.

*Store and queries.*  The result of COMMIT is dropped: the next batch rolls the
rows back (`database_manager.cpp` 80), at creation too (`sqlite_helper.cpp` 68); the
version on creation is not what the comment at `risk_event_rdb_helper.cpp` 42 says.
A query through SecurityCollector that fails or has more than 1000 events is
silently "complete" (DCMS 645).  The end of one query of a JavaScript
environment drops the chunks of the others.  A query without a group is accepted and
never answered (593).  A ruler JavaScript cannot read throws and the query goes on
with event 0 (`security_guard_napi.cpp` 830-893).

*Configuration and risk.*  CopyFile does not check its stream, and all updates of a
file share its ".tmp" name; an init of the second ability overwrites an update in
progress (`event_config.cpp` 151); a file that is trusted but not listed "succeeds"
and is deleted (`config_subscriber.cpp` 38-70), and a failing call removes another's
copy (113).  Two first calls both load a model (`model_manager.cpp` 124), a result
asked on demand releases a model that was started (161), and a failed load skips
Release (146).  StartSecurityModel has no time-out; the kit holds its mutex for up to
30 s.  An event that comes between a plugin's subscription and its entry is dropped,
and listeners hear of rows before their commit.

## 7. What is left out

* In the subscription manager: CloseLib and a null collector in the pool; log,
  statistics and permission checks; the ways memory allocation fails.
  InsertMute ignores the plugin's errors, as the code does.
* In the authorization service: permission checks, event reports, the 400 ms
  themselves, and the undefined behaviour of reading a session's set of events
  (AC 735) while it changes.  AddDeathRecipient fails exactly for the dead.
  A callback is used for one session object, so the check for a repeated one
  never applies.
* In DCMS: the dump, the calls that only read, the registration of the abilities
  it waits for, the token and SELinux lookups behind a permission.
* In the bindings: the conversion of values, and the delivery of a subscribed
  event to its JavaScript callback.  In the store: SQL text; the rows a statement
  selects are modelled.  Parsing of a configuration is its entries or a failure.
* Proxies, stubs, parcelable types, JSON and file utilities other than CopyFile,
  statistics and log: they keep no state; a caller sees them succeed or fail.
* Lengths of delays and time-outs: each may end at any moment after it began.

## 8. Plan

Modelled and checked: all components with a protocol of their own.  Proved: every
safety property that holds of the subscription manager, the subscription kits, the authorization
service and its kit, SecurityCollector and its kit, the store and its queries, the upload
pipeline and the device id.  Left: ConfigInstalled and ModelKept of GuardService.

---------------------- MODULE AcquireDataSubscribeProofs ----------------------
(***************************************************************************)
(* What is proved of AcquireDataSubscribe, for every set of clients,       *)
(* threads, events and filters: its typing, that no collector is left      *)
(* running, that a confirmed subscription keeps its collector, and that    *)
(* the manager implements CollectorLease.  When a client makes one call at *)
(* a time, what the service and the kit remember of it agrees, its filters *)
(* are in the plugin, and a sticky event comes to it once.                 *)
(***************************************************************************)
EXTENDS AcquireDataSubscribe, TLAPS

(***************************************************************************)
(* Typing: what the variables are, and what a thread's locals hold at each *)
(* point of a call.                                                        *)
(***************************************************************************)
TypeInv == TypeOK /\ JobOK

JobsTyped == pc \in [Threads -> PCs] /\ job \in [Threads -> Jobs]

(* The variables other than the threads' own. *)
DataOK ==
    /\ PoolTypeOK
    /\ sessions \subseteq Clients
    /\ subEvents \in [Clients -> SUBSET Events]
    /\ eventFilters \in [Clients -> [Filters -> Nat]]
    /\ \A c \in Clients \ sessions : subEvents[c] = {} /\ eventFilters[c] = NoFilters
    /\ reportedSticky \subseteq Clients \X Events
    /\ subLock \in Threads \cup {Nil}
    /\ listeners \subseteq Events
    /\ scSubscribeMap \subseteq Events
    /\ plugin \subseteq Clients \X Filters
    /\ dead \subseteq Clients
    /\ known \in [Clients -> SUBSET Events]
    /\ held \subseteq Clients \X Events
    /\ given \in [Clients \X Events -> 0 .. 2]

LEMMA TypeSplit == TypeInv <=> DataOK /\ JobsTyped /\ JobOK
  BY DEF TypeInv, TypeOK, DataOK, JobsTyped

(* A thread that moves to a label with locals fit for it keeps the threads  *)
(* typed.                                                                   *)
LEMMA GotoTyped ==
  ASSUME JobsTyped, JobOK, NEW t \in Threads, NEW label \in PCs, NEW j \in Jobs,
         LocalOK(label, j), Goto(t, label, j)
  PROVE  JobsTyped' /\ JobOK'
  BY DEF JobsTyped, JobOK, Goto

LEMMA NoJobTyped == NoJob \in Jobs /\ LocalOK("idle", NoJob)
  BY DEF NoJob, Call, Jobs, LocalOK, Ops, Releasing

LEMMA ReturnTyped ==
  ASSUME JobsTyped, JobOK, NEW t \in Threads, Return(t)
  PROVE  JobsTyped' /\ JobOK'
  BY GotoTyped, NoJobTyped DEF Return, PCs

LEMMA StayTyped ==
  ASSUME JobsTyped, JobOK, UNCHANGED <<pc, job>>
  PROVE  JobsTyped' /\ JobOK'
  BY DEF JobsTyped, JobOK

LEMMA CallTyped ==
  ASSUME NEW op \in Ops, NEW c \in Clients
  PROVE  Call(op, c) \in Jobs
  BY DEF Call, Jobs

USE DEF PoolTypeOK, poolVars, sessionVars, collectorVars, historyVars

(* Erasing a session leaves nothing of it. *)
LEMMA EraseTyped ==
  ASSUME DataOK, NEW c \in Clients, EraseSession(c)
  PROVE  /\ sessions' \subseteq Clients
         /\ subEvents' \in [Clients -> SUBSET Events]
         /\ eventFilters' \in [Clients -> [Filters -> Nat]]
         /\ \A d \in Clients \ sessions' : subEvents'[d] = {} /\ eventFilters'[d] = NoFilters
  BY DEF EraseSession, DataOK, NoFilters

(* A filter added or erased leaves the filters of the sessions typed. *)
LEMMA FilterTyped ==
  ASSUME DataOK, NEW c \in Clients, NEW f \in Filters,
         AddToSession(c, f) \/ EraseFilterFromSession(c, f)
  PROVE  /\ eventFilters' \in [Clients -> [Filters -> Nat]]
         /\ \A d \in Clients \ sessions : eventFilters'[d] = eventFilters[d]
<1>0. eventFilters[c] \in [Filters -> Nat] /\ eventFilters[c][f] \in Nat
  BY DEF DataOK
<1>1. CASE AddToSession(c, f)
  BY <1>0, <1>1 DEF AddToSession, DataOK
<1>2. CASE EraseFilterFromSession(c, f)
  BY <1>0, <1>2 DEF EraseFilterFromSession, IsFilterInSession, DataOK
<1> QED BY <1>1, <1>2

(* The initial states have their types, and every thread is idle. *)
LEMMA InitTyped == Init => TypeInv
<1> SUFFICES ASSUME Init PROVE DataOK /\ JobsTyped /\ JobOK
  BY TypeSplit
<1>1. DataOK
  BY ClientAssumption DEF Init, DataOK, NoFilters
<1>2. JobsTyped /\ JobOK
  BY NoJobTyped DEF Init, JobsTyped, JobOK, PCs
<1> QED BY <1>1, <1>2

(* The tails the calls share keep their part of the state typed. *)
LEMMA ApplyMutesTyped ==
  ASSUME DataOK, JobsTyped, JobOK, NEW t \in Threads, NEW mutes \in SUBSET Filters,
         pc[t] \in {"subscribe", "subscribing", "remute", "remuting"},
         ApplyMutes(t, mutes)
  PROVE  /\ JobsTyped' /\ JobOK'
         /\ known' \in [Clients -> SUBSET Events] /\ held' \subseteq Clients \X Events
<1>0. /\ job[t] \in Jobs /\ job[t].client \in Clients /\ job[t].event \in Events
      /\ job[t].todo = {}
  BY DEF JobsTyped, JobOK, LocalOK, Releasing
<1>1. CASE mutes # {} /\ Goto(t, "remute", [job[t] EXCEPT !.mutes = mutes, !.filter = Nil])
                      /\ UNCHANGED <<known, held>>
  <2> DEFINE j == [job[t] EXCEPT !.mutes = mutes, !.filter = Nil]
  <2>1. j \in Jobs /\ LocalOK("remute", j)
    BY <1>0 DEF Jobs, LocalOK, Releasing
  <2>2. JobsTyped' /\ JobOK'
    BY <1>1, <2>1, GotoTyped DEF PCs
  <2> QED BY <1>1, <2>2 DEF DataOK
<1>2. CASE mutes = {} /\ Subscribed(t)
  <2>1. JobsTyped' /\ JobOK'
    BY <1>2, ReturnTyped DEF Subscribed
  <2>2. known' \in [Clients -> SUBSET Events] /\ held' \subseteq Clients \X Events
    BY <1>0, <1>2 DEF Subscribed, DataOK
  <2> QED BY <2>1, <2>2
<1> QED BY <1>1, <1>2 DEF ApplyMutes

LEMMA ReleasedTyped ==
  ASSUME JobsTyped, JobOK, NEW t \in Threads, pc[t] \in {"unsubscribe", "unsubscribing"},
         NEW e \in job[t].todo, NEW ok \in BOOLEAN, Released(t, e, ok)
  PROVE  JobsTyped' /\ JobOK'
<1> DEFINE j == [job[t] EXCEPT !.todo = @ \ {e}, !.event = Nil]
           k == [j EXCEPT !.event = e]
<1>0. /\ job[t] \in Jobs /\ job[t].client \in Clients /\ e \in Events
      /\ job[t].op \in {"Unsubscribe", "UnsubscribeInfo"} => job[t].todo = {e}
  BY DEF JobsTyped, JobOK, LocalOK, Releasing, Jobs
<1>1. j \in Jobs /\ k \in Jobs
  BY <1>0 DEF Jobs
<1>2. j.op = job[t].op /\ j.client \in Clients /\ k.client \in Clients /\ k.event = e
      /\ k.todo = j.todo /\ j.todo = job[t].todo \ {e}
  BY <1>0 DEF Jobs
<1>3. CASE j.op \in {"Unsubscribe", "UnsubscribeInfo"}
  <2>1. LocalOK("cleanup", k) /\ LocalOK("undoUnsubscribe", k)
    BY <1>0, <1>2, <1>3 DEF LocalOK, Releasing
  <2> DEFINE label == IF ok THEN "cleanup" ELSE "undoUnsubscribe"
  <2>2. Goto(t, label, k)
    BY <1>3 DEF Released
  <2>3. label \in PCs /\ LocalOK(label, k)
    BY <2>1 DEF PCs
  <2> HIDE DEF label, k
  <2> QED BY <1>1, <2>2, <2>3, GotoTyped
<1>4. CASE j.op \notin {"Unsubscribe", "UnsubscribeInfo"} /\ j.todo # {}
  <2>1. LocalOK("unsubscribe", j)
    BY <1>2, <1>4 DEF LocalOK, Releasing
  <2>2. Goto(t, "unsubscribe", j)
    BY <1>4 DEF Released
  <2> QED BY <1>1, <2>1, <2>2, GotoTyped DEF PCs
<1>5. CASE j.op \notin {"Unsubscribe", "UnsubscribeInfo"} /\ j.todo = {} /\ j.mutes # {}
  <2>1. LocalOK("unmuteAll", j)
    BY <1>2, <1>5 DEF LocalOK, Releasing
  <2>2. Goto(t, "unmuteAll", j)
    BY <1>5 DEF Released
  <2> QED BY <1>1, <2>1, <2>2, GotoTyped DEF PCs
<1>6. CASE j.op \notin {"Unsubscribe", "UnsubscribeInfo"} /\ j.todo = {} /\ j.mutes = {}
  <2>1. Return(t)
    BY <1>6 DEF Released
  <2> QED BY <2>1, ReturnTyped
<1> QED BY <1>3, <1>4, <1>5, <1>6

(* Every call a thread accepts leaves the state typed. *)
LEMMA AcceptTyped ==
  ASSUME TypeInv, NEW t \in Threads, NEW c \in Clients, Accept(t, c)
  PROVE  TypeInv'
<1>0. DataOK /\ JobsTyped /\ JobOK
  BY TypeSplit
<1> SUFFICES DataOK' /\ JobsTyped' /\ JobOK'
  BY TypeSplit, PTL DEF TypeInv, TypeOK, DataOK, JobsTyped
<1>1. CASE CreatClient(t, c)
  <2> DEFINE j == Call("CreatClient", c)
  <2>1. j \in Jobs /\ LocalOK("create", j)
    BY CallTyped DEF Call, Ops, LocalOK, Releasing
  <2>2. JobsTyped' /\ JobOK'
    BY <1>0, <1>1, <2>1, GotoTyped DEF CreatClient, PCs
  <2> QED BY <1>0, <1>1, <2>2 DEF CreatClient, DataOK
<1>2. CASE DestoryClient(t, c)
  <2> DEFINE mutes == {f \in Filters : eventFilters[c][f] > 0}
             j == [Call("DestoryClient", c) EXCEPT !.todo = subEvents[c], !.mutes = mutes]
  <2>1. j \in Jobs /\ LocalOK("unsubscribe", j) /\ (j.todo = {} => LocalOK("unmuteAll", j))
    <3>1. subEvents[c] \in SUBSET Events /\ mutes \in SUBSET Filters
      BY <1>0 DEF DataOK
    <3>2. j \in Jobs
      BY <3>1 DEF Call, Jobs, Ops
    <3> QED BY <3>2 DEF Call, LocalOK, Releasing
  <2>5. DataOK'
    BY <1>0, <1>2 DEF DestoryClient, DataOK, EraseSession, NoFilters
  <2>2. CASE j.todo # {}
    <3>1. Goto(t, "unsubscribe", j)
      BY <1>2, <2>2 DEF DestoryClient
    <3> QED BY <1>0, <3>1, <2>1, <2>5, GotoTyped DEF PCs
  <2>3. CASE j.todo = {} /\ j.mutes # {}
    <3>1. Goto(t, "unmuteAll", j)
      BY <1>2, <2>3 DEF DestoryClient
    <3> QED BY <1>0, <3>1, <2>1, <2>3, <2>5, GotoTyped DEF PCs
  <2>4. CASE j.todo = {} /\ j.mutes = {}
    <3>1. UNCHANGED <<pc, job>>
      BY <1>2, <2>4 DEF DestoryClient
    <3> QED BY <1>0, <3>1, <2>5, StayTyped
  <2> QED BY <2>2, <2>3, <2>4
<1>3. CASE RemoteDied(t, c)
  <2> DEFINE j == [Call("RemoteDied", c) EXCEPT !.todo = subEvents[c]]
  <2>1. j \in Jobs /\ LocalOK("purge", j)
    <3>1. subEvents[c] \in SUBSET Events
      BY <1>0 DEF DataOK
    <3>2. j \in Jobs
      BY <3>1 DEF Call, Jobs, Ops
    <3> QED BY <3>2 DEF Call, LocalOK, Releasing
  <2>2. JobsTyped' /\ JobOK'
    BY <1>0, <1>3, <2>1, GotoTyped, StayTyped DEF RemoteDied, PCs
  <2>3. DataOK'
    <3>0. dead' \subseteq Clients /\ held' \subseteq held /\ given' \in [Clients \X Events -> 0 .. 2]
      BY <1>0, <1>3 DEF RemoteDied, DataOK
    <3>1. CASE c \in sessions
      <4>1. /\ sessions' \subseteq Clients
            /\ subEvents' \in [Clients -> SUBSET Events]
            /\ eventFilters' \in [Clients -> [Filters -> Nat]]
            /\ \A d \in Clients \ sessions' : subEvents'[d] = {} /\ eventFilters'[d] = NoFilters
        BY <1>0, <1>3, <3>1, EraseTyped DEF RemoteDied
      <4> QED BY <1>0, <1>3, <3>0, <4>1 DEF RemoteDied, DataOK, NoFilters
    <3>2. CASE c \notin sessions
      BY <1>0, <1>3, <3>0, <3>2 DEF RemoteDied, DataOK, NoFilters
    <3> QED BY <3>1, <3>2
  <2> QED BY <2>2, <2>3
<1>4. ASSUME NEW e \in Events, Subscribe(t, c, e) PROVE DataOK' /\ JobsTyped' /\ JobOK'
  <2> DEFINE j == [Call("Subscribe", c) EXCEPT !.event = e, !.mutes = FiltersFor(c, e)]
  <2>1. j \in Jobs /\ LocalOK("subscribe", j)
    <3>1. FiltersFor(c, e) \in SUBSET Filters
      BY DEF FiltersFor
    <3>2. j \in Jobs
      BY <3>1 DEF Call, Jobs, Ops
    <3> QED BY <3>2 DEF Call, LocalOK, Releasing
  <2>2. JobsTyped' /\ JobOK'
    BY <1>0, <1>4, <2>1, GotoTyped DEF Subscribe, PCs
  <2> QED BY <1>0, <1>4, <2>2 DEF Subscribe, DataOK
<1>5. ASSUME NEW e \in Events, SubscribeAgain(t, c, e) PROVE DataOK' /\ JobsTyped' /\ JobOK'
  <2>1. JobsTyped' /\ JobOK'
    BY <1>0, <1>5, StayTyped DEF SubscribeAgain
  <2> QED BY <1>0, <1>5, <2>1 DEF SubscribeAgain, DataOK
<1>6. ASSUME NEW e \in Events, SubscribeInfo(t, c, e) PROVE DataOK' /\ JobsTyped' /\ JobOK'
  <2> DEFINE j == [Call("SubscribeInfo", c) EXCEPT !.event = e, !.created = c \notin sessions]
  <2>b. j \in Jobs
    BY DEF Call, Jobs, Ops
  <2>1. j \in Jobs /\ LocalOK("subscribe", j)
    BY <2>b DEF Call, LocalOK, Releasing
  <2>2. JobsTyped' /\ JobOK'
    BY <1>0, <1>6, <2>1, GotoTyped DEF SubscribeInfo, PCs
  <2> QED BY <1>0, <1>6, <2>2 DEF SubscribeInfo, DataOK
<1>7. ASSUME NEW e \in Events, Unsubscribe(t, c, e) PROVE DataOK' /\ JobsTyped' /\ JobOK'
  <2> DEFINE op == IF c \in SdkClients THEN "UnsubscribeInfo" ELSE "Unsubscribe"
             j == [Call(op, c) EXCEPT !.event = e, !.todo = {e}]
  <2>0. op \in Ops
    BY DEF Ops
  <2>1. j \in Jobs /\ LocalOK("unsubscribe", j)
    BY <2>0, CallTyped DEF Call, LocalOK, Releasing, Jobs
  <2>2. JobsTyped' /\ JobOK'
    BY <1>0, <1>7, <2>1, GotoTyped DEF Unsubscribe, PCs
  <2> QED BY <1>0, <1>7, <2>2 DEF Unsubscribe, DataOK
<1>8. ASSUME NEW e \in Events, UnsubscribeNothing(t, c, e)
      PROVE  DataOK' /\ JobsTyped' /\ JobOK'
  <2>1. JobsTyped' /\ JobOK'
    BY <1>0, <1>8, StayTyped DEF UnsubscribeNothing
  <2> QED BY <1>0, <1>8, <2>1 DEF UnsubscribeNothing, DataOK
<1>9. ASSUME NEW f \in Filters, InsertSubscribeMute(t, c, f)
      PROVE  DataOK' /\ JobsTyped' /\ JobOK'
  <2> DEFINE j == [Call("AddFilter", c) EXCEPT !.filter = f]
  <2>b. j \in Jobs
    BY DEF Call, Jobs, Ops
  <2>1. j \in Jobs /\ LocalOK("mute", j)
    BY <2>b DEF Call, LocalOK, Releasing
  <2>2. JobsTyped' /\ JobOK'
    BY <1>0, <1>9, <2>1, GotoTyped, StayTyped DEF InsertSubscribeMute, PCs
  <2>3. /\ eventFilters' \in [Clients -> [Filters -> Nat]]
        /\ \A d \in Clients \ sessions : eventFilters'[d] = eventFilters[d]
    BY <1>0, <1>9, FilterTyped DEF InsertSubscribeMute, DataOK
  <2> QED BY <1>0, <1>9, <2>2, <2>3 DEF InsertSubscribeMute, DataOK, NoFilters
<1>10. ASSUME NEW f \in Filters, RemoveSubscribeMute(t, c, f)
       PROVE  DataOK' /\ JobsTyped' /\ JobOK'
  <2> DEFINE j == [Call("RemoveFilter", c) EXCEPT !.filter = f]
  <2>b. j \in Jobs
    BY DEF Call, Jobs, Ops
  <2>1. j \in Jobs /\ LocalOK("unmute", j)
    BY <2>b DEF Call, LocalOK, Releasing
  <2>2. JobsTyped' /\ JobOK'
    BY <1>0, <1>10, <2>1, GotoTyped, StayTyped DEF RemoveSubscribeMute, PCs
  <2>3. /\ eventFilters' \in [Clients -> [Filters -> Nat]]
        /\ \A d \in Clients \ sessions : eventFilters'[d] = eventFilters[d]
    BY <1>0, <1>10, FilterTyped DEF RemoveSubscribeMute, DataOK
  <2> QED BY <1>0, <1>10, <2>2, <2>3 DEF RemoveSubscribeMute, DataOK, NoFilters
<1> QED BY <1>1, <1>2, <1>3, <1>4, <1>5, <1>6, <1>7, <1>8, <1>9, <1>10 DEF Accept

(* Starting and stopping a collector leaves the pool typed. *)
LEMMA SubscribeScTyped ==
  ASSUME DataOK, NEW e \in Events, NEW ok \in BOOLEAN, SubscribeSc(e, ok)
  PROVE  PoolTypeOK' /\ listeners' \subseteq Events /\ scSubscribeMap' \subseteq Events
<1>1. CASE Kind[e] \in {"unknown", "query"} /\ UNCHANGED collectorVars
  BY <1>1 DEF DataOK
<1>2. CASE Kind[e] \in {"sg", "sticky"} /\ SubscribeScInSg(e, ok) /\ UNCHANGED scSubscribeMap
  BY <1>2 DEF DataOK, SubscribeScInSg, SubscribeCollectorsOk, SubscribeCollectorsFail
<1>3. CASE Kind[e] = "sc" /\ SubscribeScInSc(e, ok) /\ UNCHANGED <<poolVars, listeners>>
  BY <1>3 DEF DataOK, SubscribeScInSc
<1> QED BY <1>1, <1>2, <1>3 DEF SubscribeSc

LEMMA UnSubscribeScTyped ==
  ASSUME DataOK, NEW e \in Events, NEW ok \in BOOLEAN, UnSubscribeSc(e, ok)
  PROVE  PoolTypeOK' /\ listeners' \subseteq Events /\ scSubscribeMap' \subseteq Events
<1>1. CASE Kind[e] \in {"unknown", "query"} /\ UNCHANGED collectorVars
  BY <1>1 DEF DataOK
<1>2. CASE Kind[e] \in {"sg", "sticky"} /\ UnSubscribeScInSg(e, ok) /\ UNCHANGED scSubscribeMap
  BY <1>2 DEF DataOK, UnSubscribeScInSg, UnsubscribeCollectors, Stopping
<1>3. CASE Kind[e] = "sc" /\ UnSubscribeScInSc(e, ok) /\ UNCHANGED <<poolVars, listeners>>
  BY <1>3 DEF DataOK, UnSubscribeScInSc
<1> QED BY <1>1, <1>2, <1>3 DEF UnSubscribeSc

LEMMA MuteTyped ==
  ASSUME DataOK, NEW c \in Clients, NEW f \in Filters, NEW ok \in BOOLEAN,
         InsertMute(c, f, ok) \/ RemoveMute(c, f, ok)
  PROVE  plugin' \subseteq Clients \X Filters
  BY DEF DataOK, InsertMute, RemoveMute

(* Every step of a call leaves the state typed. *)
LEMMA ContinueTyped ==
  ASSUME TypeInv, NEW t \in Threads, Continue(t)
  PROVE  TypeInv'
<1>0. DataOK /\ JobsTyped /\ JobOK
  BY TypeSplit
<1> SUFFICES DataOK' /\ JobsTyped' /\ JobOK'
  BY TypeSplit, PTL DEF TypeInv, TypeOK, DataOK, JobsTyped
<1>j. job[t] \in Jobs /\ LocalOK(pc[t], job[t])
  BY <1>0 DEF JobsTyped, JobOK
<1>c. pc[t] # "idle" => job[t].client \in Clients
  BY <1>j DEF LocalOK
<1>1. CASE CreatClientInsert(t)
  <2>1. JobsTyped' /\ JobOK'
    BY <1>0, <1>1, ReturnTyped DEF CreatClientInsert
  <2> QED BY <1>0, <1>1, <1>c, <2>1 DEF CreatClientInsert, DataOK
<1>2. CASE SubscribeScIfNeeded(t)
  <2>0. job[t].mutes \in SUBSET Filters
    BY <1>j DEF Jobs
  <2>1. CASE subLock' = t /\ Goto(t, "subscribing", job[t]) /\ UNCHANGED <<known, held>>
    <3>1. LocalOK("subscribing", job[t])
      BY <1>2, <1>j DEF SubscribeScIfNeeded, LocalOK, Releasing
    <3>2. JobsTyped' /\ JobOK'
      BY <1>0, <1>j, <2>1, <3>1, GotoTyped DEF PCs
    <3> QED BY <1>0, <1>2, <2>1, <3>2 DEF SubscribeScIfNeeded, DataOK
  <2>2. CASE ApplyMutes(t, job[t].mutes) /\ UNCHANGED subLock
    <3>1. /\ JobsTyped' /\ JobOK'
          /\ known' \in [Clients -> SUBSET Events] /\ held' \subseteq Clients \X Events
      BY <1>0, <1>2, <2>0, <2>2, ApplyMutesTyped DEF SubscribeScIfNeeded
    <3> QED BY <1>0, <1>2, <2>2, <3>1 DEF SubscribeScIfNeeded, DataOK
  <2> QED BY <1>2, <2>1, <2>2 DEF SubscribeScIfNeeded
<1>3. CASE SubscribeScDone(t)
  <2>0. job[t].mutes \in SUBSET Filters /\ job[t].event \in Events
    BY <1>3, <1>j DEF Jobs, SubscribeScDone, LocalOK
  <2>1. PICK ok \in BOOLEAN :
          /\ SubscribeSc(job[t].event, ok)
          /\ \/ ok /\ ApplyMutes(t, job[t].mutes)
             \/ ~ok /\ Goto(t, "undoSubscribe", job[t]) /\ UNCHANGED <<known, held>>
    BY <1>3 DEF SubscribeScDone
  <2>2. PoolTypeOK' /\ listeners' \subseteq Events /\ scSubscribeMap' \subseteq Events
    BY <1>0, <2>0, <2>1, SubscribeScTyped
  <2>3. /\ JobsTyped' /\ JobOK'
        /\ known' \in [Clients -> SUBSET Events] /\ held' \subseteq Clients \X Events
    <3>1. CASE ok /\ ApplyMutes(t, job[t].mutes)
      BY <1>0, <1>3, <2>0, <3>1, ApplyMutesTyped DEF SubscribeScDone
    <3>2. CASE ~ok /\ Goto(t, "undoSubscribe", job[t]) /\ UNCHANGED <<known, held>>
      <4>1. LocalOK("undoSubscribe", job[t])
        BY <1>3, <1>j DEF SubscribeScDone, LocalOK, Releasing
      <4>2. JobsTyped' /\ JobOK'
        BY <1>0, <1>j, <3>2, <4>1, GotoTyped DEF PCs
      <4> QED BY <1>0, <3>2, <4>2 DEF DataOK
    <3> QED BY <2>1, <3>1, <3>2
  <2> QED BY <1>0, <1>3, <2>2, <2>3 DEF SubscribeScDone, DataOK
<1>4. CASE UndoSubscribe(t)
  <2>1. JobsTyped' /\ JobOK'
    BY <1>0, <1>4, ReturnTyped DEF UndoSubscribe
  <2>2. job[t].client \in Clients
    BY <1>4, <1>c DEF UndoSubscribe
  <2>3. CASE EraseSession(job[t].client)
    <3>1. /\ sessions' \subseteq Clients
          /\ subEvents' \in [Clients -> SUBSET Events]
          /\ eventFilters' \in [Clients -> [Filters -> Nat]]
          /\ \A d \in Clients \ sessions' : subEvents'[d] = {} /\ eventFilters'[d] = NoFilters
      BY <1>0, <2>2, <2>3, EraseTyped
    <3> QED BY <1>0, <1>4, <2>1, <3>1 DEF UndoSubscribe, DataOK, NoFilters
  <2>4. CASE /\ subEvents' = [subEvents EXCEPT ![job[t].client] = @ \ {job[t].event}]
             /\ UNCHANGED <<sessions, eventFilters>>
    BY <1>0, <1>4, <2>1, <2>2, <2>4 DEF UndoSubscribe, DataOK, NoFilters
  <2> QED BY <1>4, <2>3, <2>4 DEF UndoSubscribe
<1>5. CASE RecheckMute(t)
  <2>1. PICK f \in job[t].mutes :
          IF IsFilterInSession(job[t].client, f)
          THEN Goto(t, "remuting", [job[t] EXCEPT !.filter = f]) /\ UNCHANGED <<known, held>>
          ELSE ApplyMutes(t, job[t].mutes \ {f})
    BY <1>5 DEF RecheckMute
  <2>2. f \in Filters /\ job[t].mutes \ {f} \in SUBSET Filters
    BY <1>j, <2>1 DEF Jobs
  <2>3. /\ JobsTyped' /\ JobOK'
        /\ known' \in [Clients -> SUBSET Events] /\ held' \subseteq Clients \X Events
    <3>1. CASE IsFilterInSession(job[t].client, f)
      <4> DEFINE j == [job[t] EXCEPT !.filter = f]
      <4>1. j \in Jobs
        BY <1>j, <2>2 DEF Jobs
      <4>2. LocalOK("remuting", j)
        BY <1>5, <1>j, <2>2 DEF RecheckMute, LocalOK, Releasing, Jobs
      <4>3. JobsTyped' /\ JobOK'
        BY <1>0, <2>1, <3>1, <4>1, <4>2, GotoTyped DEF PCs
      <4> QED BY <1>0, <2>1, <3>1, <4>3 DEF DataOK
    <3>2. CASE ~IsFilterInSession(job[t].client, f)
      BY <1>0, <1>5, <2>1, <2>2, <3>2, ApplyMutesTyped DEF RecheckMute
    <3> QED BY <3>1, <3>2
  <2> QED BY <1>0, <1>5, <2>3 DEF RecheckMute, DataOK
<1>6. CASE Remute(t)
  <2>1. job[t].client \in Clients /\ job[t].filter \in Filters
        /\ job[t].mutes \ {job[t].filter} \in SUBSET Filters
    BY <1>6, <1>j DEF Remute, LocalOK, Jobs
  <2>2. plugin' \subseteq Clients \X Filters
    BY <1>0, <1>6, <2>1, MuteTyped DEF Remute
  <2>3. /\ JobsTyped' /\ JobOK'
        /\ known' \in [Clients -> SUBSET Events] /\ held' \subseteq Clients \X Events
    BY <1>0, <1>6, <2>1, ApplyMutesTyped DEF Remute
  <2> QED BY <1>0, <1>6, <2>2, <2>3 DEF Remute, DataOK
<1>7. CASE UnSubscribeScIfLast(t)
  <2>1. PICK e \in job[t].todo :
          \/ subLock' = t /\ Goto(t, "unsubscribing", [job[t] EXCEPT !.event = e])
          \/ Released(t, e, TRUE) /\ UNCHANGED subLock
    BY <1>7 DEF UnSubscribeScIfLast
  <2>2. CASE subLock' = t /\ Goto(t, "unsubscribing", [job[t] EXCEPT !.event = e])
    <3> DEFINE j == [job[t] EXCEPT !.event = e]
    <3>1. e \in Events
      BY <1>j, <2>1 DEF Jobs
    <3>2. j \in Jobs
      BY <1>j, <3>1 DEF Jobs
    <3>3. LocalOK("unsubscribing", j)
      BY <1>7, <1>j, <2>1, <3>1 DEF UnSubscribeScIfLast, LocalOK, Releasing, Jobs
    <3>4. JobsTyped' /\ JobOK'
      BY <1>0, <2>2, <3>2, <3>3, GotoTyped DEF PCs
    <3> QED BY <1>0, <1>7, <2>2, <3>4 DEF UnSubscribeScIfLast, DataOK
  <2>3. CASE Released(t, e, TRUE) /\ UNCHANGED subLock
    <3>1. JobsTyped' /\ JobOK'
      BY <1>0, <1>7, <2>1, <2>3, ReleasedTyped DEF UnSubscribeScIfLast
    <3> QED BY <1>0, <1>7, <2>3, <3>1 DEF UnSubscribeScIfLast, DataOK
  <2> QED BY <2>1, <2>2, <2>3
<1>8. CASE UnSubscribeScDone(t)
  <2>1. PICK ok \in BOOLEAN :
          UnSubscribeSc(job[t].event, ok) /\ Released(t, job[t].event, ok)
    BY <1>8 DEF UnSubscribeScDone
  <2>2. job[t].event \in Events /\ job[t].event \in job[t].todo
    BY <1>8, <1>j DEF UnSubscribeScDone, LocalOK
  <2>3. PoolTypeOK' /\ listeners' \subseteq Events /\ scSubscribeMap' \subseteq Events
    BY <1>0, <2>1, <2>2, UnSubscribeScTyped
  <2>4. JobsTyped' /\ JobOK'
    BY <1>0, <1>8, <2>1, <2>2, ReleasedTyped DEF UnSubscribeScDone
  <2> QED BY <1>0, <1>8, <2>3, <2>4 DEF UnSubscribeScDone, DataOK
<1>9. CASE UndoUnsubscribe(t)
  <2>1. JobsTyped' /\ JobOK'
    BY <1>0, <1>9, ReturnTyped DEF UndoUnsubscribe
  <2>2. job[t].client \in Clients /\ job[t].event \in Events
    BY <1>9, <1>j DEF UndoUnsubscribe, LocalOK
  <2> QED BY <1>0, <1>9, <2>1, <2>2 DEF UndoUnsubscribe, DataOK, NoFilters
<1>10. CASE Cleanup(t)
  <2>1. JobsTyped' /\ JobOK'
    BY <1>0, <1>10, ReturnTyped DEF Cleanup
  <2>2. job[t].client \in Clients /\ job[t].event \in Events
    BY <1>10, <1>j DEF Cleanup, LocalOK
  <2>3. /\ sessions' \subseteq Clients
        /\ subEvents' \in [Clients -> SUBSET Events]
        /\ eventFilters' \in [Clients -> [Filters -> Nat]]
        /\ \A d \in Clients \ sessions' : subEvents'[d] = {} /\ eventFilters'[d] = NoFilters
    <3>1. CASE EraseSession(job[t].client)
      BY <1>0, <2>2, <3>1, EraseTyped
    <3>2. CASE UNCHANGED sessionVars
      BY <1>0, <3>2 DEF DataOK
    <3> QED BY <1>10, <3>1, <3>2 DEF Cleanup
  <2>4. reportedSticky' \subseteq Clients \X Events /\ known' \in [Clients -> SUBSET Events]
    BY <1>0, <1>10, <2>2 DEF Cleanup, DataOK
  <2> QED BY <1>0, <1>10, <2>1, <2>3, <2>4 DEF Cleanup, DataOK, NoFilters
<1>11. CASE Purge(t)
  <2>1. CASE job[t].todo = {}
    BY <1>0, <1>11, <2>1, ReturnTyped DEF Purge, DataOK
  <2>2. CASE job[t].todo # {}
    <3>1. LocalOK("unsubscribe", job[t])
      BY <1>11, <1>j DEF Purge, LocalOK, Releasing
    <3>2. JobsTyped' /\ JobOK'
      BY <1>0, <1>11, <1>j, <2>2, <3>1, GotoTyped DEF Purge, PCs
    <3> QED BY <1>0, <1>11, <3>2 DEF Purge, DataOK
  <2> QED BY <2>1, <2>2
<1>12. CASE UnmuteAll(t)
  <2>1. PICK f \in job[t].mutes :
          /\ \E ok \in BOOLEAN : RemoveMute(job[t].client, f, ok)
          /\ IF job[t].mutes = {f} THEN Return(t)
             ELSE Goto(t, "unmuteAll", [job[t] EXCEPT !.mutes = @ \ {f}])
    BY <1>12 DEF UnmuteAll
  <2>2. f \in Filters /\ job[t].client \in Clients
    BY <1>12, <1>j, <2>1 DEF UnmuteAll, LocalOK, Jobs
  <2>3. plugin' \subseteq Clients \X Filters
    BY <1>0, <2>1, <2>2, MuteTyped
  <2>4. JobsTyped' /\ JobOK'
    <3>1. CASE job[t].mutes = {f}
      BY <1>0, <2>1, <3>1, ReturnTyped
    <3>2. CASE job[t].mutes # {f}
      <4> DEFINE j == [job[t] EXCEPT !.mutes = @ \ {f}]
      <4>1. j \in Jobs
        BY <1>j DEF Jobs
      <4>2. LocalOK("unmuteAll", j)
        BY <1>12, <1>j DEF UnmuteAll, LocalOK, Releasing, Jobs
      <4> QED BY <1>0, <2>1, <3>2, <4>1, <4>2, GotoTyped DEF PCs
    <3> QED BY <3>1, <3>2
  <2> QED BY <1>0, <1>12, <2>3, <2>4 DEF UnmuteAll, DataOK
<1>13. CASE Mute(t) \/ Unmute(t)
  <2>1. PICK ok \in BOOLEAN :
          /\ \/ InsertMute(job[t].client, job[t].filter, ok)
             \/ RemoveMute(job[t].client, job[t].filter, ok)
          /\ IF ok THEN Goto(t, "record", job[t]) \/ Goto(t, "erase", job[t]) ELSE Return(t)
    BY <1>13 DEF Mute, Unmute
  <2>2. job[t].client \in Clients /\ job[t].filter \in Filters
    BY <1>13, <1>j DEF Mute, Unmute, LocalOK
  <2>3. plugin' \subseteq Clients \X Filters
    BY <1>0, <2>1, <2>2, MuteTyped
  <2>4. LocalOK("record", job[t]) /\ LocalOK("erase", job[t])
    BY <1>13, <1>j DEF Mute, Unmute, LocalOK, Releasing
  <2>5. JobsTyped' /\ JobOK'
    BY <1>0, <1>j, <2>1, <2>4, GotoTyped, ReturnTyped DEF PCs
  <2> QED BY <1>0, <1>13, <2>3, <2>5 DEF Mute, Unmute, DataOK
<1>14. CASE RecordMute(t) \/ EraseMute(t)
  <2>1. JobsTyped' /\ JobOK'
    BY <1>0, <1>14, ReturnTyped DEF RecordMute, EraseMute
  <2>2. job[t].client \in Clients /\ job[t].filter \in Filters
    BY <1>14, <1>j DEF RecordMute, EraseMute, LocalOK
  <2>3. /\ eventFilters' \in [Clients -> [Filters -> Nat]]
        /\ \A d \in Clients \ sessions : eventFilters'[d] = eventFilters[d]
    BY <1>0, <1>14, <2>2, FilterTyped DEF RecordMute, EraseMute
  <2> QED BY <1>0, <1>14, <2>1, <2>3 DEF RecordMute, EraseMute, DataOK, NoFilters
<1> QED BY <1>1, <1>2, <1>3, <1>4, <1>5, <1>6, <1>7, <1>8, <1>9, <1>10, <1>11, <1>12, <1>13,
           <1>14 DEF Continue

LEMMA NextTyped == TypeInv /\ [Next]_vars => TypeInv'
<1> SUFFICES ASSUME TypeInv, [Next]_vars PROVE TypeInv'
  OBVIOUS
<1>0. DataOK /\ JobsTyped /\ JobOK
  BY TypeSplit
<1>1. ASSUME NEW t \in Threads, Continue(t) PROVE TypeInv'
  BY <1>1, ContinueTyped
<1>2. ASSUME NEW t \in Threads, NEW c \in Clients, Accept(t, c) PROVE TypeInv'
  BY <1>2, AcceptTyped
<1>3. ASSUME NEW e \in Events, PublishSticky(e) PROVE TypeInv'
  <2>1. JobsTyped' /\ JobOK'
    BY <1>0, <1>3, StayTyped DEF PublishSticky
  <2>2. PICK due \in SUBSET sessions :
          /\ reportedSticky' = reportedSticky \cup (due \X {e})
          /\ given' = [h \in Clients \X Events |->
                          IF h \in due \X {e} /\ given[h] < 2 THEN given[h] + 1 ELSE given[h]]
    BY <1>3 DEF PublishSticky, NotifyObjs
  <2>3. reportedSticky' \subseteq Clients \X Events
    BY <1>0, <2>2 DEF DataOK
  <2>4. given' \in [Clients \X Events -> 0 .. 2]
    BY <1>0, <2>2 DEF DataOK
  <2>5. DataOK'
    BY <1>0, <1>3, <2>3, <2>4 DEF PublishSticky, DataOK, NoFilters
  <2> QED BY <2>1, <2>5, TypeSplit, PTL DEF TypeInv, TypeOK, DataOK, JobsTyped
<1>4. ASSUME NEW c \in Clients, NewClient(c) PROVE TypeInv'
  <2>1. JobsTyped' /\ JobOK'
    BY <1>0, <1>4, StayTyped DEF NewClient
  <2>2. DataOK'
    BY <1>0, <1>4 DEF NewClient, DataOK, NoFilters
  <2> QED BY <2>1, <2>2, TypeSplit, PTL DEF TypeInv, TypeOK, DataOK, JobsTyped
<1>5. CASE UNCHANGED vars
  BY <1>5 DEF vars, TypeInv, TypeOK, JobOK, NoFilters, PoolTypeOK
<1> QED BY <1>1, <1>2, <1>3, <1>4, <1>5 DEF Next

(* TypeOK, and what each thread's locals hold, in every reachable state. *)
THEOREM Typing == Spec => [](TypeOK /\ JobOK)
<1>1. Init => TypeInv
  BY InitTyped
<1>2. TypeInv /\ [Next]_vars => TypeInv'
  BY NextTyped
<1> QED BY <1>1, <1>2, PTL DEF Spec, TypeInv

-----------------------------------------------------------------------------
(***************************************************************************)
(* NoOrphans: when no start and no call of SecurityCollector fails, no     *)
(* collector is left running for an event nobody subscribes to, for any    *)
(* number of clients, threads and events, and even if clients overlap      *)
(* their own calls.                                                        *)
(*                                                                         *)
(* It is proved from the inductive invariant OrphanInv.  Most steps touch  *)
(* neither the lock nor the collectors: they are shown Harmless once and   *)
(* for all, which leaves the four that do, and the rollback.               *)
(***************************************************************************)
USE DEF PoolTypeOK, poolVars, sessionVars, collectorVars, historyVars

Critical == {"subscribing", "unsubscribing", "undoSubscribe"}

(* Somebody subscribes to e or will release its collector. *)
Wanted(e) == IsAnySessionSubscribes(e) \/ ReleasePending(e)

LEMMA TypeFacts ==
  ASSUME TypeInv
  PROVE  /\ DataOK /\ JobsTyped /\ JobOK
         /\ \A t \in Threads : /\ job[t] \in Jobs /\ pc[t] \in PCs /\ LocalOK(pc[t], job[t])
                               /\ pc[t] \notin Releasing => job[t].todo = {}
  BY TypeSplit DEF JobsTyped, JobOK, LocalOK

(* The sessions' records alone say who subscribes. *)
LEMMA SubscribesBySubEvents ==
  ASSUME DataOK, NEW e
  PROVE  IsAnySessionSubscribes(e) <=> \E c \in Clients : e \in subEvents[c]
  BY DEF DataOK, IsAnySessionSubscribes

-----------------------------------------------------------------------------
(* Steps of one thread. *)

(* Thread t moves, and no thread but t. *)
Moves(t) == \A u \in Threads \ {t} : pc'[u] = pc[u] /\ job'[u] = job[u]

LEMMA GotoMoves ==
  ASSUME JobsTyped, NEW t \in Threads, NEW label, NEW j, Goto(t, label, j)
  PROVE  Moves(t) /\ pc'[t] = label /\ job'[t] = j
  BY DEF JobsTyped, Goto, Moves

LEMMA ReturnMoves ==
  ASSUME JobsTyped, NEW t \in Threads, Return(t)
  PROVE  /\ Moves(t) /\ pc'[t] = "idle" /\ job'[t] = NoJob
         /\ job'[t].client = Nil /\ job'[t].todo = {}
  BY GotoMoves DEF Return, NoJob, Call

(* The end of a subscription: on to the filters, or confirmed and done.     *)
LEMMA ApplyMutesMoves ==
  ASSUME JobsTyped, NEW t \in Threads, NEW mutes, job[t] \in Jobs, ApplyMutes(t, mutes)
  PROVE  /\ Moves(t)
         /\ \/ /\ pc'[t] = "remute" /\ held' = held
               /\ job'[t].client = job[t].client /\ job'[t].event = job[t].event
            \/ /\ pc'[t] = "idle" /\ job'[t].client = Nil
               /\ held' = IF job[t].client \in dead THEN held
                          ELSE held \cup {<<job[t].client, job[t].event>>}
<1>1. CASE mutes # {} /\ Goto(t, "remute", [job[t] EXCEPT !.mutes = mutes, !.filter = Nil])
                      /\ UNCHANGED <<known, held>>
  <2> DEFINE j == [job[t] EXCEPT !.mutes = mutes, !.filter = Nil]
  <2>1. j.client = job[t].client /\ j.event = job[t].event
    BY DEF Jobs
  <2>2. Goto(t, "remute", j)
    BY <1>1
  <2> HIDE DEF j
  <2>3. Moves(t) /\ pc'[t] = "remute" /\ job'[t] = j
    BY <2>2, GotoMoves
  <2> QED BY <1>1, <2>1, <2>3
<1>2. CASE mutes = {} /\ Subscribed(t)
  BY <1>2, ReturnMoves DEF Subscribed
<1> QED BY <1>1, <1>2 DEF ApplyMutes

(* A release takes e from the events still to release, and nothing else.    *)
LEMMA ReleasedMoves ==
  ASSUME JobsTyped, JobOK, NEW t \in Threads, pc[t] \in {"unsubscribe", "unsubscribing"},
         NEW e \in job[t].todo, NEW ok, Released(t, e, ok)
  PROVE  /\ Moves(t) /\ pc'[t] \in {"cleanup", "undoUnsubscribe", "unsubscribe", "unmuteAll", "idle"}
         /\ job'[t].todo = job[t].todo \ {e}
         /\ job'[t].client \in {job[t].client, Nil}
<1> DEFINE j == [job[t] EXCEPT !.todo = @ \ {e}, !.event = Nil]
           k == [j EXCEPT !.event = e]
<1>0. job[t] \in Jobs
  BY DEF JobsTyped
<1>1. /\ j.todo = job[t].todo \ {e} /\ j.client = job[t].client
      /\ k.todo = job[t].todo \ {e} /\ k.client = job[t].client
  BY <1>0 DEF Jobs
<1>2. \/ Goto(t, "cleanup", k) \/ Goto(t, "undoUnsubscribe", k)
      \/ Goto(t, "unsubscribe", j) \/ Goto(t, "unmuteAll", j)
      \/ j.todo = {} /\ Return(t)
  BY DEF Released
<1> HIDE DEF j, k
<1> QED
  <2>1. CASE Goto(t, "cleanup", k) \/ Goto(t, "undoUnsubscribe", k)
    BY <1>1, <2>1, GotoMoves
  <2>2. CASE Goto(t, "unsubscribe", j) \/ Goto(t, "unmuteAll", j)
    BY <1>1, <2>2, GotoMoves
  <2>3. CASE j.todo = {} /\ Return(t)
    BY <1>1, <2>3, ReturnMoves
  <2> QED BY <1>2, <2>1, <2>2, <2>3

-----------------------------------------------------------------------------
(* Steps that leave the lock and the collectors alone, take nobody to or    *)
(* past a critical label, and give up no event without taking it on for     *)
(* release.                                                                 *)
Harmless ==
    /\ UNCHANGED <<subLock, collectorVars>>
    /\ \A t \in Threads : pc'[t] \in Critical => pc'[t] = pc[t] /\ job'[t] = job[t]
    /\ \A e \in Transient : Wanted(e) => Wanted(e)'

LEMMA HarmlessKeeps ==
  ASSUME OrphanInv, Harmless
  PROVE  OrphanInv'
<1>1. LockInv'
  BY DEF OrphanInv, Harmless, LockInv, Critical
<1>2. CountInv'
  BY DEF OrphanInv, Harmless, CountInv
<1>3. StartInv'
  BY DEF OrphanInv, Harmless, StartInv, Critical, Wanted
<1>4. NoOrphanCollector'
  BY DEF OrphanInv, Harmless, NoOrphanCollector, Running, Wanted
<1> QED BY <1>1, <1>2, <1>3, <1>4 DEF OrphanInv

LEMMA MovesHarmless ==
  ASSUME TypeInv, TypeInv', NEW t \in Threads, Moves(t), pc'[t] \notin Critical,
         UNCHANGED <<subLock, collectorVars>>,
         \A e \in job[t].todo : e \in job'[t].todo,
         \A c \in Clients, e \in Transient :
            e \in subEvents[c] => e \in subEvents'[c] \/ e \in job'[t].todo
  PROVE  Harmless
<1>1. ASSUME NEW e \in Transient, Wanted(e) PROVE Wanted(e)'
  <2>1. CASE ReleasePending(e)
    BY <2>1 DEF ReleasePending, Wanted, Moves
  <2>2. CASE IsAnySessionSubscribes(e)
    <3>1. PICK c \in Clients : e \in subEvents[c]
      BY <2>2, TypeFacts, SubscribesBySubEvents
    <3>2. CASE e \in subEvents'[c]
      BY <3>2, TypeSplit DEF Wanted, IsAnySessionSubscribes, TypeInv, TypeOK
    <3>3. CASE e \in job'[t].todo
      BY <3>3 DEF Wanted, ReleasePending
    <3> QED BY <3>1, <3>2, <3>3
  <2> QED BY <1>1, <2>1, <2>2 DEF Wanted
<1> QED BY <1>1 DEF Harmless, Moves

(* Taking a call is harmless: whoever gives up an event takes it on.        *)
LEMMA AcceptHarmless ==
  ASSUME TypeInv, TypeInv', NEW t \in Threads, NEW c \in Clients, Accept(t, c)
  PROVE  Harmless
<1>0. /\ DataOK /\ JobsTyped /\ JobOK
      /\ pc[t] = "idle" => job[t].todo = {}
  BY TypeFacts DEF Releasing
<1>1. CASE CreatClient(t, c)
  <2>1. pc[t] = "idle" /\ Moves(t) /\ pc'[t] = "create"
    BY <1>0, <1>1, GotoMoves DEF CreatClient, Free
  <2> QED BY <1>0, <1>1, <2>1, MovesHarmless DEF CreatClient, Critical
<1>2. CASE DestoryClient(t, c)
  <2>1. subEvents' = [subEvents EXCEPT ![c] = {}]
    BY <1>2 DEF DestoryClient, EraseSession, Free
  <2> DEFINE j == [Call("DestoryClient", c) EXCEPT
                     !.todo = subEvents[c], !.mutes = {f \in Filters : eventFilters[c][f] > 0}]
  <2>2. j.todo = subEvents[c]
    BY DEF Call
  <2>3. \/ Goto(t, "unsubscribe", j)
        \/ Goto(t, "unmuteAll", j)
        \/ j.todo = {} /\ UNCHANGED <<pc, job>>
    BY <1>2 DEF DestoryClient
  <2> HIDE DEF j
  <2>4. Moves(t) /\ pc'[t] \notin Critical /\ (job'[t] = j \/ (subEvents[c] = {} /\ job'[t] = job[t]))
    <3>1. CASE Goto(t, "unsubscribe", j) \/ Goto(t, "unmuteAll", j)
      <4>1. Moves(t) /\ pc'[t] \in {"unsubscribe", "unmuteAll"} /\ job'[t] = j
        BY <1>0, <3>1, GotoMoves
      <4> QED BY <4>1 DEF Critical
    <3>2. CASE j.todo = {} /\ UNCHANGED <<pc, job>>
      BY <1>2, <2>2, <3>2 DEF DestoryClient, Free, Moves, Critical
    <3> QED BY <2>3, <3>1, <3>2
  <2> QED BY <1>0, <1>2, <2>1, <2>2, <2>4, MovesHarmless DEF DestoryClient, Free, DataOK
<1>3. CASE RemoteDied(t, c)
  <2> DEFINE j == [Call("RemoteDied", c) EXCEPT !.todo = subEvents[c]]
  <2>1. j.todo = subEvents[c]
    BY DEF Call
  <2>2. \/ c \in sessions /\ EraseSession(c) /\ Goto(t, "purge", j)
        \/ c \notin sessions /\ UNCHANGED <<sessionVars, pc, job>>
    BY <1>3 DEF RemoteDied
  <2> HIDE DEF j
  <2>3. CASE c \in sessions /\ EraseSession(c) /\ Goto(t, "purge", j)
    <3>1. Moves(t) /\ pc'[t] = "purge" /\ job'[t] = j
      BY <1>0, <2>3, GotoMoves
    <3>2. subEvents' = [subEvents EXCEPT ![c] = {}]
      BY <2>3 DEF EraseSession
    <3> QED BY <1>0, <1>3, <2>1, <3>1, <3>2, MovesHarmless DEF RemoteDied, DataOK, Critical
  <2>4. CASE UNCHANGED <<sessionVars, pc, job>>
    BY <1>0, <1>3, <2>4, MovesHarmless DEF RemoteDied, Moves, Critical
  <2> QED BY <2>2, <2>3, <2>4
<1>4. ASSUME NEW e \in Events, Subscribe(t, c, e) \/ SubscribeInfo(t, c, e) PROVE Harmless
  <2>1. Moves(t) /\ pc'[t] = "subscribe" /\ job[t].todo = {}
    BY <1>0, <1>4, GotoMoves DEF Subscribe, SubscribeInfo, Free
  <2>2. subEvents' = [subEvents EXCEPT ![c] = @ \cup {e}] /\ UNCHANGED <<subLock, collectorVars>>
    BY <1>4 DEF Subscribe, SubscribeInfo
  <2> QED BY <1>0, <2>1, <2>2, MovesHarmless DEF DataOK, Critical
<1>5. ASSUME NEW e \in Events, SubscribeAgain(t, c, e) \/ UnsubscribeNothing(t, c, e)
      PROVE  Harmless
  BY <1>0, <1>5, MovesHarmless DEF SubscribeAgain, UnsubscribeNothing, Free, Moves, Critical
<1>6. ASSUME NEW e \in Events, Unsubscribe(t, c, e) PROVE Harmless
  <2> DEFINE op == IF c \in SdkClients THEN "UnsubscribeInfo" ELSE "Unsubscribe"
             j == [Call(op, c) EXCEPT !.event = e, !.todo = {e}]
  <2>1. j.todo = {e}
    BY DEF Call
  <2>2. Goto(t, "unsubscribe", j)
    BY <1>6 DEF Unsubscribe
  <2> HIDE DEF j
  <2>3. Moves(t) /\ pc'[t] = "unsubscribe" /\ job'[t] = j /\ job[t].todo = {}
    BY <1>0, <1>6, <2>2, GotoMoves DEF Unsubscribe, Free
  <2>4. subEvents' = [subEvents EXCEPT ![c] = @ \ {e}] /\ UNCHANGED <<subLock, collectorVars>>
    BY <1>6 DEF Unsubscribe
  <2> QED BY <1>0, <2>1, <2>3, <2>4, MovesHarmless DEF DataOK, Critical
<1>7. ASSUME NEW f \in Filters, InsertSubscribeMute(t, c, f) \/ RemoveSubscribeMute(t, c, f)
      PROVE  Harmless
  <2>1. /\ UNCHANGED <<subEvents, subLock, collectorVars>>
        /\ job[t].todo = {}
        /\ \/ \E j : Goto(t, "mute", j) \/ Goto(t, "unmute", j)
           \/ pc[t] = "idle" /\ UNCHANGED <<pc, job>>
    BY <1>0, <1>7 DEF InsertSubscribeMute, RemoveSubscribeMute, Free
  <2>2. Moves(t) /\ pc'[t] \in {"mute", "unmute", "idle"}
    BY <1>0, <2>1, GotoMoves DEF Moves
  <2> QED BY <2>1, <2>2, MovesHarmless DEF Critical
<1> QED BY <1>1, <1>2, <1>3, <1>4, <1>5, <1>6, <1>7 DEF Accept

(* So is what the threads do away from the lock. *)
LEMMA ContinueHarmless ==
  ASSUME TypeInv, TypeInv', NEW t \in Threads,
         \/ CreatClientInsert(t) \/ RecheckMute(t) \/ Remute(t)
         \/ UndoUnsubscribe(t) \/ Cleanup(t) \/ Purge(t) \/ UnmuteAll(t)
         \/ Mute(t) \/ RecordMute(t) \/ Unmute(t) \/ EraseMute(t)
  PROVE  Harmless
<1>0. /\ DataOK /\ JobsTyped /\ JobOK /\ job[t] \in Jobs
      /\ pc[t] \notin Releasing => job[t].todo = {}
  BY TypeFacts
<1>1. CASE CreatClientInsert(t) \/ RecordMute(t) \/ EraseMute(t)
  <2>1. Return(t) /\ UNCHANGED <<subEvents, subLock, collectorVars>> /\ job[t].todo = {}
    BY <1>0, <1>1 DEF CreatClientInsert, RecordMute, EraseMute, Releasing
  <2> QED BY <1>0, <2>1, ReturnMoves, MovesHarmless DEF Critical
<1>2. CASE RecheckMute(t)
  <2>1. PICK f \in job[t].mutes :
          \/ Goto(t, "remuting", [job[t] EXCEPT !.filter = f])
          \/ ApplyMutes(t, job[t].mutes \ {f})
    BY <1>2 DEF RecheckMute
  <2>2. Moves(t) /\ pc'[t] \in {"remuting", "remute", "idle"}
    BY <1>0, <2>1, GotoMoves, ApplyMutesMoves
  <2> QED BY <1>0, <1>2, <2>2, MovesHarmless DEF RecheckMute, Critical, Releasing
<1>3. CASE Remute(t)
  BY <1>0, <1>3, ApplyMutesMoves, MovesHarmless DEF Remute, Critical, Releasing
<1>4. CASE UndoUnsubscribe(t)
  <2>1. Return(t) /\ UNCHANGED <<subLock, collectorVars>> /\ job[t].todo = {}
    BY <1>0, <1>4 DEF UndoUnsubscribe, Releasing
  <2>2. \A d \in Clients : subEvents[d] \subseteq subEvents'[d]
    BY <1>0, <1>4 DEF UndoUnsubscribe, DataOK
  <2> QED BY <1>0, <2>1, <2>2, ReturnMoves, MovesHarmless DEF Critical
<1>5. CASE Cleanup(t)
  <2>1. Return(t) /\ UNCHANGED <<subLock, collectorVars>> /\ job[t].todo = {}
    BY <1>0, <1>5 DEF Cleanup, Releasing
  <2>2. \A d \in Clients : subEvents[d] \subseteq subEvents'[d]
    BY <1>0, <1>5 DEF Cleanup, DataOK, EraseSession
  <2> QED BY <1>0, <2>1, <2>2, ReturnMoves, MovesHarmless DEF Critical
<1>6. CASE Purge(t)
  <2>1. (job[t].todo = {} /\ Return(t)) \/ Goto(t, "unsubscribe", job[t])
    BY <1>6 DEF Purge
  <2>2. Moves(t) /\ pc'[t] \in {"idle", "unsubscribe"} /\ job'[t].todo = job[t].todo
    <3>1. CASE job[t].todo = {} /\ Return(t)
      BY <1>0, <3>1, ReturnMoves
    <3>2. CASE Goto(t, "unsubscribe", job[t])
      BY <1>0, <3>2, GotoMoves
    <3> QED
      BY <2>1, <3>1, <3>2
  <2> QED BY <1>6, <2>2, MovesHarmless DEF Purge, Critical
<1>7. CASE UnmuteAll(t) \/ Mute(t) \/ Unmute(t)
  <2>1. Return(t) \/ \E j : \/ Goto(t, "unmuteAll", j) \/ Goto(t, "record", j)
                            \/ Goto(t, "erase", j)
    BY <1>7 DEF UnmuteAll, Mute, Unmute
  <2>2. Moves(t) /\ pc'[t] \in {"idle", "unmuteAll", "record", "erase"}
    BY <1>0, <2>1, ReturnMoves, GotoMoves
  <2>3. UNCHANGED <<subEvents, subLock, collectorVars>> /\ job[t].todo = {}
    BY <1>0, <1>7 DEF UnmuteAll, Mute, Unmute, Releasing
  <2> QED BY <2>2, <2>3, MovesHarmless DEF Critical
<1> QED BY <1>1, <1>2, <1>3, <1>4, <1>5, <1>6, <1>7

-----------------------------------------------------------------------------
(* The steps that start and stop collectors. *)

NoStartFaults == Faults \cap {"load", "scSubscribe", "scUnsubscribe"} = {}

(* A collector that is counted once starts, and no other changes.           *)
LEMMA SubscribeScCounts ==
  ASSUME NoStartFaults, DataOK, CountInv, NEW e \in Events, NEW ok \in BOOLEAN,
         SubscribeSc(e, ok)
  PROVE  /\ CountInv'
         /\ e \in Transient => ok
         /\ \A x \in Transient \ {e} : Running(x)' = Running(x)
<1>1. CASE Kind[e] \in {"sg", "sticky"} /\ SubscribeScInSg(e, ok) /\ UNCHANGED scSubscribeMap
  <2>1. CASE e \in listeners
    BY <1>1, <2>1 DEF SubscribeScInSg, CountInv, Running
  <2>2. CASE e \notin listeners
    <3>1. ok /\ SubscribeCollectorsOk({e})
          /\ listeners' = IF Kind[e] = "sticky" THEN listeners ELSE listeners \cup {e}
      BY <1>1, <2>2 DEF SubscribeScInSg, SubscribeCollectorsFail, NoStartFaults
    <3>2. CountInv'
      BY <1>1, <2>2, <3>1 DEF CountInv, SubscribeCollectorsOk, DataOK, Transient, Collected
    <3> QED BY <1>1, <3>1, <3>2 DEF SubscribeCollectorsOk, Running
  <2> QED BY <2>1, <2>2
<1>2. CASE Kind[e] = "sc" /\ SubscribeScInSc(e, ok) /\ UNCHANGED <<poolVars, listeners>>
  BY <1>2 DEF SubscribeScInSc, CountInv, Running, NoStartFaults, Transient, Collected
<1>3. CASE Kind[e] \in {"unknown", "query"} /\ UNCHANGED collectorVars
  BY <1>3 DEF CountInv, Running, Transient, Collected
<1> QED BY <1>1, <1>2, <1>3 DEF SubscribeSc

(* The stop of a collector counted once leaves it stopped, whatever it      *)
(* returns.                                                                 *)
LEMMA UnSubscribeScCounts ==
  ASSUME NoStartFaults, DataOK, CountInv, NEW e \in Events, NEW ok \in BOOLEAN,
         UnSubscribeSc(e, ok)
  PROVE  /\ CountInv'
         /\ e \in Transient => ~Running(e)'
         /\ \A x \in Transient \ {e} : Running(x)' = Running(x)
<1>1. CASE Kind[e] \in {"sg", "sticky"} /\ UnSubscribeScInSg(e, ok) /\ UNCHANGED scSubscribeMap
  <2>1. CASE Kind[e] = "sg" /\ e \notin listeners
    BY <1>1, <2>1 DEF UnSubscribeScInSg, CountInv, Running
  <2>2. CASE ~(Kind[e] = "sg" /\ e \notin listeners)
    <3>1. UnsubscribeCollectors({e}) /\ \A x \in Events \ {e} : x \in listeners' <=> x \in listeners
      BY <1>1, <2>2 DEF UnSubscribeScInSg
    <3>2. CountInv'
      BY <1>1, <2>2, <3>1 DEF CountInv, UnsubscribeCollectors, Stopping, DataOK, Transient,
                              Collected
    <3>3. e \in Transient => e \notin loaderMap'
      BY <1>1, <3>1 DEF CountInv, UnsubscribeCollectors, Stopping, Transient, Collected
    <3>4. \A x \in Transient \ {e} : Running(x)' = Running(x)
      BY <1>1, <3>1 DEF UnsubscribeCollectors, Stopping, Running
    <3> QED BY <1>1, <3>2, <3>3, <3>4 DEF Running
  <2> QED BY <2>1, <2>2
<1>2. CASE Kind[e] = "sc" /\ UnSubscribeScInSc(e, ok) /\ UNCHANGED <<poolVars, listeners>>
  BY <1>2 DEF UnSubscribeScInSc, CountInv, Running, NoStartFaults, Transient, Collected
<1>3. CASE Kind[e] \in {"unknown", "query"} /\ UNCHANGED collectorVars
  BY <1>3 DEF CountInv, Running, Transient, Collected
<1> QED BY <1>1, <1>2, <1>3 DEF UnSubscribeSc

LEMMA WantedKept ==
  ASSUME NEW t \in Threads, Moves(t), UNCHANGED <<sessions, subEvents>>,
         NEW e, Wanted(e), e \in job[t].todo => e \in job'[t].todo
  PROVE  Wanted(e)'
  BY DEF Wanted, IsAnySessionSubscribes, ReleasePending, Moves

(* subscribeMutex_ is free: no thread is in it. *)
LEMMA LockFree ==
  ASSUME LockInv, subLock = Nil, NEW u \in Threads
  PROVE  pc[u] \notin {"subscribing", "unsubscribing"}
  BY ClientAssumption DEF LockInv

(* A thread in it is there alone. *)
LEMMA LockExcludes ==
  ASSUME LockInv, NEW t \in Threads, NEW u \in Threads \ {t},
         pc[t] \in {"subscribing", "unsubscribing"}
  PROVE  pc[u] \notin {"subscribing", "unsubscribing"}
  BY DEF LockInv

LEMMA SubscribeScIfNeededKeeps ==
  ASSUME TypeInv, TypeInv', OrphanInv, NEW t \in Threads, SubscribeScIfNeeded(t)
  PROVE  OrphanInv'
<1>0. JobsTyped /\ job[t] \in Jobs /\ job[t].todo = {}
  BY TypeFacts DEF SubscribeScIfNeeded, Releasing
<1>1. CASE ApplyMutes(t, job[t].mutes) /\ UNCHANGED subLock
  <2>1. Moves(t) /\ pc'[t] \in {"remute", "idle"}
    BY <1>0, <1>1, ApplyMutesMoves
  <2>2. Harmless
    BY <1>0, <1>1, <2>1, MovesHarmless DEF SubscribeScIfNeeded, Critical
  <2> QED BY <2>2, HarmlessKeeps
<1>2. CASE /\ IsAnySessionSubscribes(job[t].event)
           /\ subLock' = t
           /\ Goto(t, "subscribing", job[t])
  <2>1. /\ Moves(t) /\ pc'[t] = "subscribing" /\ job'[t] = job[t]
        /\ UNCHANGED <<sessions, subEvents, collectorVars>>
    BY <1>0, <1>2, GotoMoves DEF SubscribeScIfNeeded
  <2>2. LockInv'
    BY <1>2, <2>1, LockFree DEF OrphanInv, LockInv, SubscribeScIfNeeded, Moves
  <2>3. CountInv'
    BY <2>1 DEF OrphanInv, CountInv
  <2>4. Wanted(job[t].event)'
    BY <1>2, <2>1 DEF Wanted, IsAnySessionSubscribes
  <2>5. StartInv'
    BY <1>2, <2>1, <2>4, LockFree DEF OrphanInv, StartInv, Wanted, SubscribeScIfNeeded, Moves
  <2>6. NoOrphanCollector'
    BY <2>1, WantedKept DEF OrphanInv, NoOrphanCollector, Running, Wanted
  <2> QED BY <2>2, <2>3, <2>5, <2>6 DEF OrphanInv
<1> QED BY <1>1, <1>2 DEF SubscribeScIfNeeded

LEMMA SubscribeScDoneKeeps ==
  ASSUME NoStartFaults, TypeInv, TypeInv', OrphanInv, NEW t \in Threads, SubscribeScDone(t)
  PROVE  OrphanInv'
<1> DEFINE e == job[t].event
<1>0. /\ DataOK /\ JobsTyped /\ job[t] \in Jobs /\ job[t].todo = {} /\ e \in Events
      /\ pc[t] = "subscribing" /\ UNCHANGED <<sessions, subEvents>>
  BY TypeFacts DEF SubscribeScDone, LocalOK, Releasing
<1>1. PICK ok \in BOOLEAN :
        /\ SubscribeSc(e, ok)
        /\ \/ ok /\ ApplyMutes(t, job[t].mutes)
           \/ ~ok /\ Goto(t, "undoSubscribe", job[t])
  BY DEF SubscribeScDone
<1>2. /\ CountInv'
      /\ e \in Transient => ok
      /\ \A x \in Transient \ {e} : Running(x)' = Running(x)
  BY <1>0, <1>1, SubscribeScCounts DEF OrphanInv
<1>3. /\ Moves(t)
      /\ \/ pc'[t] \in {"remute", "idle"}
         \/ pc'[t] = "undoSubscribe" /\ job'[t].event = e /\ e \notin Transient
  BY <1>0, <1>1, <1>2, ApplyMutesMoves, GotoMoves
<1>4. LockInv'
  BY <1>0, <1>3, LockExcludes DEF OrphanInv, LockInv, Moves
<1>5. StartInv'
  BY <1>0, <1>3, LockExcludes DEF OrphanInv, StartInv, Moves
<1>6. \A x \in Transient : Running(x)' => Wanted(x)'
  <2>1. ASSUME NEW x \in Transient, Running(x)' PROVE Wanted(x)
    BY <1>0, <1>2, <2>1 DEF OrphanInv, StartInv, NoOrphanCollector, Wanted
  <2> QED BY <1>0, <1>3, <2>1, WantedKept
<1>7. NoOrphanCollector'
  BY <1>6 DEF NoOrphanCollector, Wanted
<1> QED BY <1>2, <1>4, <1>5, <1>7 DEF OrphanInv

(* Only an event that no collector is run for is rolled back. *)
LEMMA UndoSubscribeKeeps ==
  ASSUME TypeInv, TypeInv', OrphanInv, NEW t \in Threads, UndoSubscribe(t)
  PROVE  OrphanInv'
<1> DEFINE e == job[t].event
<1>0. /\ DataOK /\ JobsTyped /\ job[t].todo = {} /\ e \notin Transient
      /\ job[t].client \in Clients /\ Return(t) /\ UNCHANGED <<subLock, collectorVars>>
  BY TypeFacts DEF UndoSubscribe, LocalOK, Releasing, OrphanInv, StartInv
<1>1. \A c \in Clients, x \in Transient : x \in subEvents[c] => x \in subEvents'[c]
  BY <1>0 DEF UndoSubscribe, EraseSession, DataOK
<1>2. Harmless
  BY <1>0, <1>1, ReturnMoves, MovesHarmless DEF Critical
<1> QED BY <1>2, HarmlessKeeps

LEMMA UnSubscribeScIfLastKeeps ==
  ASSUME TypeInv, TypeInv', OrphanInv, NEW t \in Threads, UnSubscribeScIfLast(t)
  PROVE  OrphanInv'
<1>0. /\ DataOK /\ JobsTyped /\ JobOK /\ job[t] \in Jobs /\ pc[t] = "unsubscribe"
      /\ subLock = Nil /\ UNCHANGED <<sessions, subEvents, collectorVars>>
  BY TypeFacts DEF UnSubscribeScIfLast
<1>1. PICK e \in job[t].todo :
        \/ /\ ~IsAnySessionSubscribes(e)
           /\ subLock' = t
           /\ Goto(t, "unsubscribing", [job[t] EXCEPT !.event = e])
        \/ /\ IsAnySessionSubscribes(e)
           /\ Released(t, e, TRUE)
           /\ UNCHANGED subLock
  BY DEF UnSubscribeScIfLast
<1>2. CASE subLock' = t /\ Goto(t, "unsubscribing", [job[t] EXCEPT !.event = e])
  <2> DEFINE j == [job[t] EXCEPT !.event = e]
  <2>1. j.todo = job[t].todo
    BY <1>0 DEF Jobs
  <2>2. Goto(t, "unsubscribing", j)
    BY <1>2
  <2> HIDE DEF j
  <2>3. Moves(t) /\ pc'[t] = "unsubscribing" /\ job'[t].todo = job[t].todo
    BY <1>0, <2>1, <2>2, GotoMoves
  <2>4. LockInv'
    BY <1>0, <1>2, <2>3, LockFree DEF OrphanInv, LockInv, Moves
  <2>5. CountInv'
    BY <1>0 DEF OrphanInv, CountInv
  <2>6. StartInv'
    BY <1>0, <2>3, LockFree DEF OrphanInv, StartInv, Moves
  <2>7. NoOrphanCollector'
    BY <1>0, <2>3, WantedKept DEF OrphanInv, NoOrphanCollector, Running, Wanted
  <2> QED BY <2>4, <2>5, <2>6, <2>7 DEF OrphanInv
<1>3. CASE IsAnySessionSubscribes(e) /\ Released(t, e, TRUE) /\ UNCHANGED subLock
  <2>1. /\ Moves(t) /\ job'[t].todo = job[t].todo \ {e}
        /\ pc'[t] \in {"cleanup", "undoUnsubscribe", "unsubscribe", "unmuteAll", "idle"}
    BY <1>0, <1>3, ReleasedMoves
  <2>2. IsAnySessionSubscribes(e)'
    BY <1>0, <1>3 DEF IsAnySessionSubscribes
  <2>3. ASSUME NEW x \in Transient, Wanted(x) PROVE Wanted(x)'
    <3>1. CASE x = e
      BY <2>2, <3>1 DEF Wanted
    <3>2. CASE x # e
      BY <1>0, <2>1, <2>3, <3>2, WantedKept
    <3> QED BY <3>1, <3>2
  <2>4. Harmless
    BY <1>0, <1>3, <2>1, <2>3 DEF Harmless, Moves, Critical
  <2> QED BY <2>4, HarmlessKeeps
<1> QED BY <1>1, <1>2, <1>3

LEMMA UnSubscribeScDoneKeeps ==
  ASSUME NoStartFaults, TypeInv, TypeInv', OrphanInv, NEW t \in Threads, UnSubscribeScDone(t)
  PROVE  OrphanInv'
<1>0. /\ DataOK /\ JobsTyped /\ JobOK /\ job[t].event \in Events \cap job[t].todo
      /\ pc[t] = "unsubscribing" /\ UNCHANGED <<sessions, subEvents>>
  BY TypeFacts DEF UnSubscribeScDone, LocalOK
<1>1. PICK e \in Events \cap job[t].todo, ok \in BOOLEAN :
        UnSubscribeSc(e, ok) /\ Released(t, e, ok)
  BY <1>0 DEF UnSubscribeScDone
<1>2. /\ CountInv'
      /\ e \in Transient => ~Running(e)'
      /\ \A x \in Transient \ {e} : Running(x)' = Running(x)
  BY <1>0, <1>1, UnSubscribeScCounts DEF OrphanInv
<1>3. /\ Moves(t) /\ job'[t].todo = job[t].todo \ {e}
      /\ pc'[t] \in {"cleanup", "undoUnsubscribe", "unsubscribe", "unmuteAll", "idle"}
  BY <1>0, <1>1, ReleasedMoves
<1>4. LockInv'
  BY <1>0, <1>3, LockExcludes DEF OrphanInv, LockInv, Moves
<1>5. StartInv'
  BY <1>0, <1>3, LockExcludes DEF OrphanInv, StartInv, Moves
<1>6. ASSUME NEW x \in Transient, Running(x)' PROVE Wanted(x)'
  <2>1. x # e /\ Wanted(x)
    BY <1>2, <1>6 DEF OrphanInv, NoOrphanCollector, Wanted
  <2> QED BY <1>0, <1>3, <2>1, WantedKept
<1>7. NoOrphanCollector'
  BY <1>6 DEF NoOrphanCollector, Wanted
<1> QED BY <1>2, <1>4, <1>5, <1>7 DEF OrphanInv

LEMMA InitOrphan == Init => OrphanInv
<1> SUFFICES ASSUME Init PROVE OrphanInv
  OBVIOUS
<1>1. LockInv /\ StartInv
  BY DEF Init, LockInv, StartInv
<1>2. \A e \in Transient : e \in Events /\ e \notin CollectOnStart /\ e \notin scSubscribeMap
  BY DEF Init, Transient, Collected
<1>3. \A e \in Transient : Kind[e] = "sg" => e \notin loaderMap /\ subscribeCount[e] = 0
  BY <1>2 DEF Init
<1>4. CountInv
  BY <1>3 DEF CountInv
<1>5. NoOrphanCollector
  BY <1>2, <1>3 DEF NoOrphanCollector, Running, Transient, Collected
<1> QED BY <1>1, <1>4, <1>5 DEF OrphanInv

LEMMA NextOrphan ==
  ASSUME NoStartFaults, TypeInv, TypeInv', OrphanInv, [Next]_vars
  PROVE  OrphanInv'
<1>1. ASSUME NEW t \in Threads, Continue(t) PROVE OrphanInv'
  <2>1. CASE SubscribeScIfNeeded(t)
    BY <2>1, SubscribeScIfNeededKeeps
  <2>2. CASE SubscribeScDone(t)
    BY <2>2, SubscribeScDoneKeeps
  <2>3. CASE UndoSubscribe(t)
    BY <2>3, UndoSubscribeKeeps
  <2>4. CASE UnSubscribeScIfLast(t)
    BY <2>4, UnSubscribeScIfLastKeeps
  <2>5. CASE UnSubscribeScDone(t)
    BY <2>5, UnSubscribeScDoneKeeps
  <2>6. CASE \/ CreatClientInsert(t) \/ RecheckMute(t) \/ Remute(t)
             \/ UndoUnsubscribe(t) \/ Cleanup(t) \/ Purge(t) \/ UnmuteAll(t)
             \/ Mute(t) \/ RecordMute(t) \/ Unmute(t) \/ EraseMute(t)
    BY <2>6, ContinueHarmless, HarmlessKeeps
  <2> QED BY <1>1, <2>1, <2>2, <2>3, <2>4, <2>5, <2>6 DEF Continue
<1>2. ASSUME NEW t \in Threads, NEW c \in Clients, Accept(t, c) PROVE OrphanInv'
  BY <1>2, AcceptHarmless, HarmlessKeeps
<1>3. CASE \/ \E e \in Events : PublishSticky(e)
           \/ \E c \in Clients : NewClient(c)
           \/ UNCHANGED vars
  <2>1. UNCHANGED <<sessions, subEvents, subLock, collectorVars, pc, job>>
    BY <1>3 DEF PublishSticky, NewClient, vars
  <2>2. Harmless
    BY <2>1 DEF Harmless, Wanted, IsAnySessionSubscribes, ReleasePending
  <2> QED BY <2>2, HarmlessKeeps
<1> QED BY <1>1, <1>2, <1>3 DEF Next

(* SubscribeScIfNeeded and UnSubscribeScIfLast: when no start and no call   *)
(* of SecurityCollector fails, no collector runs for an event that nobody   *)
(* subscribes to and no thread still has to release.                        *)
THEOREM NoOrphans == ASSUME NoStartFaults PROVE Spec => []NoOrphanCollector
<1>1. Init => TypeInv /\ OrphanInv
  BY InitTyped, InitOrphan
<1>2. TypeInv /\ OrphanInv /\ [Next]_vars => (TypeInv /\ OrphanInv)'
  BY NextTyped, NextOrphan
<1>3. OrphanInv => NoOrphanCollector
  BY DEF OrphanInv
<1> QED BY <1>1, <1>2, <1>3, PTL DEF Spec

-----------------------------------------------------------------------------
(***************************************************************************)
(* Leases: when each client makes one call at a time and no stop fails, a  *)
(* confirmed subscription has its collector, whatever the threads do.      *)
(*                                                                         *)
(* The inductive invariant says where the danger is: StopInv, that nobody  *)
(* relies on a collector being stopped, is established under               *)
(* subscribeMutex_ by looking at the sessions (SetupInv and HeldInv say    *)
(* that the sessions tell), and kept because a subscription is confirmed   *)
(* only by a thread that has been through the same lock.                   *)
(*                                                                         *)
(* Refinement: under the same assumptions the manager implements           *)
(* CollectorLease, each step mapping to a step or a stutter.               *)
(***************************************************************************)
SettingUp == {"subscribe", "subscribing"} \cup Confirming

(* A step of thread t away from the lock and the collectors, which gives    *)
(* up no subscription another thread is setting up, and confirms none but   *)
(* its own.                                                                 *)
Safe(t) ==
    /\ Moves(t)
    /\ UNCHANGED <<subLock, collectorVars>>
    /\ dead \subseteq dead'
    /\ \/ job'[t].client \in {job[t].client, Nil} \cup dead'
       \/ \A u \in Threads \ {t} : job[u].client # job'[t].client
    /\ \A d \in Clients \ dead' : \/ subEvents[d] \subseteq subEvents'[d]
                                  \/ \A u \in Threads \ {t} : job[u].client # d
    /\ pc'[t] \notin Critical
    /\ pc'[t] = "subscribe" => /\ job'[t].event \in subEvents'[job'[t].client]
                               /\ <<job'[t].client, job'[t].event>> \notin held'
    /\ pc'[t] \in Confirming => \/ job'[t].client \in dead'
                                \/ /\ pc[t] \in Confirming
                                   /\ job'[t].client = job[t].client
                                   /\ job'[t].event = job[t].event
                                   /\ UNCHANGED <<subEvents, dead>>
    /\ \A h \in held' \ held : /\ pc[t] \in Confirming /\ job[t].client \notin dead
                               /\ h = <<job[t].client, job[t].event>>
    /\ HeldInv'

(* The invariant as it reads for one thread. *)
LEMMA SetupFacts ==
  ASSUME TypeInv, SetupInv, NEW t \in Threads, pc[t] \in SettingUp \cup {"undoSubscribe"}
  PROVE  /\ job[t].client \in Clients /\ job[t].client # Nil
         /\ job[t].event \in Events /\ job[t].event # Nil
         /\ pc[t] \in SettingUp /\ job[t].client \notin dead
               => job[t].event \in subEvents[job[t].client]
         /\ pc[t] \in Confirming /\ job[t].client \notin dead /\ job[t].event \in Collected
               => Running(job[t].event)
         /\ pc[t] \in {"subscribe", "subscribing", "undoSubscribe"}
               => <<job[t].client, job[t].event>> \notin held
<1>1. job[t].client \in Clients /\ job[t].event \in Events
  BY TypeFacts DEF LocalOK, SettingUp, Confirming
<1> QED BY <1>1, ClientAssumption DEF SetupInv, SettingUp

LEMMA SafeKeeps ==
  ASSUME TypeInv, TypeInv', LeaseInv, NEW t \in Threads, Safe(t)
  PROVE  LeaseInv'
<1>0. LockInv /\ SerialInv /\ SetupInv /\ HeldInv /\ StopInv /\ ListenerInv /\ HeldServed
  BY DEF LeaseInv
<1>m. /\ \A u \in Threads \ {t} : pc'[u] = pc[u] /\ job'[u] = job[u]
      /\ UNCHANGED <<subLock, loaderMap, listeners, scSubscribeMap>>
      /\ \A e : Running(e)' = Running(e)
  BY DEF Safe, Moves, Running
<1>h. ASSUME NEW h \in held' \ held
      PROVE  /\ pc[t] \in Confirming /\ job[t].client \notin dead /\ job[t].client # Nil
             /\ h = <<job[t].client, job[t].event>>
  BY <1>0, <1>h, SetupFacts DEF Safe, SettingUp
<1>1. LockInv'
  BY <1>0, <1>m DEF LockInv, Safe, Critical
<1>2. SerialInv'
  BY <1>0, <1>m DEF SerialInv, Safe
<1>3. SetupInv'
  <2> SUFFICES ASSUME NEW u \in Threads
               PROVE  /\ pc'[u] \in SettingUp /\ job'[u].client \notin dead'
                            => job'[u].event \in subEvents'[job'[u].client]
                      /\ pc'[u] \in Confirming /\ job'[u].client \notin dead'
                            /\ job'[u].event \in Collected => Running(job[u].event)'
                      /\ pc'[u] \in {"subscribe", "subscribing", "undoSubscribe"}
                            => <<job'[u].client, job'[u].event>> \notin held'
    BY DEF SetupInv, SettingUp, Running, Collected
  <2>1. CASE u # t
    <3>1. ASSUME pc[u] \in SettingUp, job[u].client \notin dead'
          PROVE  job[u].event \in subEvents'[job[u].client]
      <4>1. job[u].client \in Clients /\ job[u].event \in subEvents[job[u].client]
        BY <1>0, <3>1, SetupFacts DEF Safe
      <4> QED BY <2>1, <3>1, <4>1 DEF Safe
    <3>2. ASSUME pc[u] \in Confirming, job[u].client \notin dead', job[u].event \in Collected
          PROVE  Running(job[u].event)
      BY <1>0, <3>2, SetupFacts DEF Safe, SettingUp
    <3>3. ASSUME pc[u] \in {"subscribe", "subscribing", "undoSubscribe"},
                 <<job[u].client, job[u].event>> \in held'
          PROVE  FALSE
      <4>1. <<job[u].client, job[u].event>> \notin held
        BY <1>0, <3>3, SetupFacts DEF SettingUp
      <4>2. job[u].client = job[t].client /\ job[t].client \notin dead /\ job[t].client # Nil
        BY <1>h, <3>3, <4>1
      <4> QED BY <1>0, <2>1, <4>2 DEF SerialInv
    <3> QED BY <1>m, <2>1, <3>1, <3>2, <3>3 DEF Running
  <2>2. CASE u = t
    <3>1. CASE pc'[t] = "subscribe"
      BY <2>2, <3>1 DEF Safe, Confirming
    <3>2. CASE pc'[t] \in Confirming /\ job'[t].client \notin dead'
      <4>1. /\ pc[t] \in Confirming /\ UNCHANGED <<subEvents, dead>>
            /\ job'[t].client = job[t].client /\ job'[t].event = job[t].event
        BY <3>2 DEF Safe
      <4>2. pc'[t] \notin {"subscribe", "subscribing", "undoSubscribe"}
        BY <3>2 DEF Confirming
      <4>3. /\ job[t].client \notin dead => job[t].event \in subEvents[job[t].client]
            /\ job[t].client \notin dead /\ job[t].event \in Collected => Running(job[t].event)
        BY <1>0, <4>1, SetupFacts DEF SettingUp
      <4> QED BY <1>m, <2>2, <4>1, <4>2, <4>3 DEF Running
    <3>3. CASE /\ pc'[t] # "subscribe"
               /\ pc'[t] \notin Confirming \/ job'[t].client \in dead'
      BY <2>2, <3>3 DEF Safe, SettingUp, Critical
    <3> QED BY <3>1, <3>2, <3>3
  <2> QED BY <2>1, <2>2
<1>4. StopInv'
  <2> SUFFICES ASSUME NEW v \in Threads, pc'[v] = "unsubscribing"
               PROVE  /\ \A h \in held' : h[2] # job'[v].event
                      /\ \A u \in Threads : pc'[u] \in Confirming /\ job'[u].client \notin dead'
                                               => job'[u].event # job'[v].event
    BY DEF StopInv
  <2>1. v # t /\ pc[v] = "unsubscribing" /\ job'[v] = job[v]
    BY <1>m DEF Safe, Critical
  <2>2. ASSUME NEW h \in held' PROVE h[2] # job[v].event
    <3>1. CASE h \in held
      BY <1>0, <2>1, <3>1 DEF StopInv
    <3>2. CASE h \notin held
      <4>1. pc[t] \in Confirming /\ job[t].client \notin dead /\ h[2] = job[t].event
        BY <1>h, <3>2
      <4> QED BY <1>0, <2>1, <4>1 DEF StopInv
    <3> QED BY <3>1, <3>2
  <2>3. ASSUME NEW u \in Threads, pc'[u] \in Confirming, job'[u].client \notin dead'
        PROVE  job'[u].event # job[v].event
    <3>1. pc[u] \in Confirming /\ job[u].client \notin dead /\ job'[u].event = job[u].event
      BY <1>m, <2>3 DEF Safe
    <3> QED BY <1>0, <2>1, <3>1 DEF StopInv
  <2> QED BY <2>1, <2>2, <2>3
<1>5. ListenerInv'
  BY <1>0, <1>m DEF ListenerInv
<1>6. HeldServed'
  <2> SUFFICES ASSUME NEW h \in held', h[2] \in Collected PROVE Running(h[2])
    BY <1>m DEF HeldServed, Running, Collected
  <2>1. CASE h \in held
    BY <1>0, <2>1 DEF HeldServed
  <2>2. CASE h \notin held
    <3>1. pc[t] \in Confirming /\ job[t].client \notin dead /\ h[2] = job[t].event
      BY <1>h, <2>2
    <3> QED BY <1>0, <3>1, SetupFacts DEF SettingUp
  <2> QED BY <2>1, <2>2
<1> QED BY <1>1, <1>2, <1>3, <1>4, <1>5, <1>6 DEF LeaseInv, Safe

-----------------------------------------------------------------------------
(* The steps that are safe. *)

(* Those that confirm nothing and give nothing up. *)
LEMMA AwaySafe ==
  ASSUME TypeInv, HeldInv, NEW t \in Threads, Moves(t),
         UNCHANGED <<subLock, collectorVars, dead, held>>,
         job'[t].client \in {job[t].client, Nil},
         pc'[t] \notin Critical \cup Confirming \cup {"subscribe"},
         \A d \in Clients : subEvents[d] \subseteq subEvents'[d]
  PROVE  Safe(t)
<1>1. HeldInv'
  BY TypeFacts DEF HeldInv, DataOK
<1> QED BY <1>1 DEF Safe

LEMMA ContinueSafe ==
  ASSUME TypeInv, LeaseInv, NEW t \in Threads,
         \/ CreatClientInsert(t) \/ UndoUnsubscribe(t) \/ Cleanup(t) \/ Purge(t)
         \/ UnmuteAll(t) \/ Mute(t) \/ RecordMute(t) \/ Unmute(t) \/ EraseMute(t)
  PROVE  Safe(t)
<1>0. DataOK /\ JobsTyped /\ job[t] \in Jobs /\ HeldInv
  BY TypeFacts DEF LeaseInv
<1>1. CASE CreatClientInsert(t) \/ RecordMute(t) \/ EraseMute(t)
  <2>1. Return(t) /\ UNCHANGED <<subEvents, subLock, collectorVars, dead, held>>
    BY <1>1 DEF CreatClientInsert, RecordMute, EraseMute
  <2> QED BY <1>0, <2>1, ReturnMoves, AwaySafe DEF Critical, Confirming
<1>2. CASE UndoUnsubscribe(t) \/ Cleanup(t)
  <2>1. Return(t) /\ UNCHANGED <<subLock, collectorVars, dead, held>>
    BY <1>2 DEF UndoUnsubscribe, Cleanup
  <2>2. \A d \in Clients : subEvents[d] \subseteq subEvents'[d]
    BY <1>0, <1>2 DEF UndoUnsubscribe, Cleanup, EraseSession, DataOK
  <2> QED BY <1>0, <2>1, <2>2, ReturnMoves, AwaySafe DEF Critical, Confirming
<1>3. CASE Purge(t) \/ UnmuteAll(t) \/ Mute(t) \/ Unmute(t)
  <2>1. \/ Return(t)
        \/ Goto(t, "unsubscribe", job[t]) \/ Goto(t, "record", job[t]) \/ Goto(t, "erase", job[t])
        \/ \E f : Goto(t, "unmuteAll", [job[t] EXCEPT !.mutes = @ \ {f}])
    BY <1>3 DEF Purge, UnmuteAll, Mute, Unmute
  <2>2. /\ Moves(t) /\ job'[t].client \in {job[t].client, Nil}
        /\ pc'[t] \in {"idle", "unsubscribe", "record", "erase", "unmuteAll"}
    <3>1. CASE \E f : Goto(t, "unmuteAll", [job[t] EXCEPT !.mutes = @ \ {f}])
      <4>1. PICK f : Goto(t, "unmuteAll", [job[t] EXCEPT !.mutes = @ \ {f}])
        BY <3>1
      <4> DEFINE j == [job[t] EXCEPT !.mutes = @ \ {f}]
      <4>2. j.client = job[t].client /\ Goto(t, "unmuteAll", j)
        BY <1>0, <4>1 DEF Jobs
      <4> HIDE DEF j
      <4> QED BY <1>0, <4>2, GotoMoves
    <3>2. CASE Return(t)
      BY <1>0, <3>2, ReturnMoves
    <3>3. ASSUME NEW l \in {"unsubscribe", "record", "erase"}, Goto(t, l, job[t])
          PROVE  Moves(t) /\ job'[t].client = job[t].client /\ pc'[t] = l
      BY <1>0, <3>3, GotoMoves
    <3> QED BY <2>1, <3>1, <3>2, <3>3
  <2>3. UNCHANGED <<subEvents, subLock, collectorVars, dead, held>>
    BY <1>3 DEF Purge, UnmuteAll, Mute, Unmute
  <2> QED BY <1>0, <2>2, <2>3, AwaySafe DEF Critical, Confirming
<1> QED BY <1>1, <1>2, <1>3

(* The filters of a subscription, and its confirmation at the end.          *)
LEMMA ConfirmSafe ==
  ASSUME TypeInv, LeaseInv, NEW t \in Threads, RecheckMute(t) \/ Remute(t)
  PROVE  Safe(t)
<1>0. /\ DataOK /\ JobsTyped /\ job[t] \in Jobs /\ HeldInv /\ SetupInv
      /\ pc[t] \in Confirming /\ UNCHANGED <<subEvents, subLock, collectorVars, dead>>
  BY TypeFacts DEF LeaseInv, RecheckMute, Remute, Confirming
<1>1. /\ Moves(t)
      /\ \/ /\ pc'[t] \in Confirming /\ held' = held
            /\ job'[t].client = job[t].client /\ job'[t].event = job[t].event
         \/ /\ pc'[t] = "idle" /\ job'[t].client = Nil
            /\ held' = IF job[t].client \in dead THEN held
                       ELSE held \cup {<<job[t].client, job[t].event>>}
  <2>1. CASE \E mutes : ApplyMutes(t, mutes)
    BY <1>0, <2>1, ApplyMutesMoves DEF Confirming
  <2>2. CASE \E f : Goto(t, "remuting", [job[t] EXCEPT !.filter = f]) /\ UNCHANGED held
    <3>1. PICK f : Goto(t, "remuting", [job[t] EXCEPT !.filter = f]) /\ UNCHANGED held
      BY <2>2
    <3> DEFINE j == [job[t] EXCEPT !.filter = f]
    <3>2. j.client = job[t].client /\ j.event = job[t].event /\ Goto(t, "remuting", j)
      BY <1>0, <3>1 DEF Jobs
    <3> HIDE DEF j
    <3> QED BY <1>0, <3>1, <3>2, GotoMoves DEF Confirming
  <2> QED BY <2>1, <2>2 DEF RecheckMute, Remute
<1>2. HeldInv'
  BY <1>0, <1>1, SetupFacts DEF HeldInv, SettingUp
<1> QED BY <1>0, <1>1, <1>2 DEF Safe, Critical, Confirming

(* The rollback takes away what was not confirmed. *)
LEMMA UndoSubscribeSafe ==
  ASSUME TypeInv, LeaseInv, NEW t \in Threads, UndoSubscribe(t)
  PROVE  Safe(t)
<1>0. /\ DataOK /\ JobsTyped /\ job[t] \in Jobs /\ HeldInv /\ SetupInv /\ SerialInv
      /\ pc[t] = "undoSubscribe" /\ Return(t) /\ UNCHANGED <<subLock, collectorVars, dead, held>>
  BY TypeFacts DEF LeaseInv, UndoSubscribe
<1>1. /\ job[t].client \in Clients /\ job[t].client # Nil
      /\ <<job[t].client, job[t].event>> \notin held
  BY <1>0, SetupFacts
<1>2. /\ \A d \in Clients \ {job[t].client} : subEvents'[d] = subEvents[d]
      /\ \A x \in Events \ {job[t].event} :
            x \in subEvents[job[t].client] => x \in subEvents'[job[t].client]
  BY <1>0, <1>1 DEF UndoSubscribe, EraseSession, DataOK
<1>3. HeldInv'
  <2> SUFFICES ASSUME NEW h \in held
               PROVE  h[1] \notin dead /\ h[2] \in subEvents'[h[1]]
    BY <1>0 DEF HeldInv
  <2>1. /\ h[1] \in Clients /\ h[2] \in Events /\ h = <<h[1], h[2]>>
        /\ h[1] \notin dead /\ h[2] \in subEvents[h[1]]
    BY <1>0 DEF HeldInv, DataOK
  <2> QED BY <1>1, <1>2, <2>1
<1>4. \A d \in Clients \ dead' : \/ subEvents[d] \subseteq subEvents'[d]
                                 \/ \A u \in Threads \ {t} : job[u].client # d
  BY <1>0, <1>1, <1>2 DEF SerialInv
<1> QED BY <1>0, <1>3, <1>4, ReturnMoves DEF Safe, Critical, Confirming

(* With Serial, a call comes from a client that has no other outstanding.   *)
LEMMA FreeAlone ==
  ASSUME Serial, NEW t, NEW c, Free(t, c)
  PROVE  pc[t] = "idle" /\ c \notin dead /\ \A u \in Threads : job[u].client # c
  BY DEF Free

LEMMA AcceptSafe ==
  ASSUME Serial, TypeInv, LeaseInv, NEW t \in Threads, NEW c \in Clients, Accept(t, c)
  PROVE  Safe(t)
<1>0. DataOK /\ JobsTyped /\ HeldInv /\ (pc[t] = "idle" => job[t] = NoJob)
  BY TypeFacts DEF LeaseInv, LocalOK
<1>h. \A h \in held : h[1] \in Clients /\ h[2] \in Events /\ h = <<h[1], h[2]>>
  BY <1>0 DEF DataOK
<1>1. CASE CreatClient(t, c)
  <2>1. Goto(t, "create", Call("CreatClient", c)) /\ Call("CreatClient", c).client = c
    BY <1>1 DEF CreatClient, Call
  <2>2. Moves(t) /\ pc'[t] = "create" /\ job'[t].client = c
    BY <1>0, <2>1, GotoMoves
  <2>3. UNCHANGED <<subEvents, subLock, collectorVars, dead, held>> /\ Free(t, c)
    BY <1>1 DEF CreatClient
  <2> QED BY <1>0, <2>2, <2>3, FreeAlone DEF Safe, HeldInv, Critical, Confirming
<1>2. CASE DestoryClient(t, c)
  <2> DEFINE j == [Call("DestoryClient", c) EXCEPT
                     !.todo = subEvents[c], !.mutes = {f \in Filters : eventFilters[c][f] > 0}]
  <2>1. j.client = c
    BY DEF Call
  <2>2. \/ Goto(t, "unsubscribe", j) \/ Goto(t, "unmuteAll", j)
        \/ UNCHANGED <<pc, job>>
    BY <1>2 DEF DestoryClient
  <2> HIDE DEF j
  <2>3. /\ UNCHANGED <<subLock, collectorVars, dead>> /\ Free(t, c)
        /\ subEvents' = [subEvents EXCEPT ![c] = {}]
        /\ held' = {h \in held : h[1] # c}
    BY <1>2 DEF DestoryClient, EraseSession
  <2>4. /\ Moves(t) /\ pc'[t] \in {"unsubscribe", "unmuteAll", "idle"}
        /\ job'[t].client \in {c, job[t].client}
    BY <1>0, <2>1, <2>2, <2>3, FreeAlone, GotoMoves DEF Moves
  <2>5. HeldInv'
    BY <1>0, <1>h, <2>3 DEF HeldInv, DataOK
  <2>6. \A d \in Clients : subEvents[d] \subseteq subEvents'[d]
                           \/ \A u \in Threads \ {t} : job[u].client # d
    BY <1>0, <2>3, FreeAlone DEF DataOK
  <2> QED BY <2>3, <2>4, <2>5, <2>6, FreeAlone DEF Safe, Critical, Confirming
<1>3. CASE RemoteDied(t, c)
  <2> DEFINE j == [Call("RemoteDied", c) EXCEPT !.todo = subEvents[c]]
  <2>1. j.client = c
    BY DEF Call
  <2>2. \/ EraseSession(c) /\ Goto(t, "purge", j)
        \/ UNCHANGED <<subEvents, pc, job>>
    BY <1>3 DEF RemoteDied
  <2> HIDE DEF j
  <2>3. /\ UNCHANGED <<subLock, collectorVars>> /\ pc[t] = "idle"
        /\ dead' = dead \cup {c} /\ held' = {h \in held : h[1] # c}
        /\ subEvents' = [subEvents EXCEPT ![c] = {}] \/ UNCHANGED subEvents
    BY <1>3, <2>2 DEF RemoteDied, EraseSession
  <2>4. /\ Moves(t) /\ pc'[t] \in {"purge", "idle"}
        /\ job'[t].client \in {c, job[t].client}
    BY <1>0, <2>1, <2>2, <2>3, GotoMoves DEF Moves
  <2>5. HeldInv'
    BY <1>0, <1>h, <2>3 DEF HeldInv, DataOK
  <2>6. \A d \in Clients \ dead' : subEvents[d] \subseteq subEvents'[d]
    BY <1>0, <2>3 DEF DataOK
  <2> QED BY <2>3, <2>4, <2>5, <2>6 DEF Safe, Critical, Confirming
<1>4. ASSUME NEW e \in Events, Subscribe(t, c, e) \/ SubscribeInfo(t, c, e) PROVE Safe(t)
  <2>1. PICK j : Goto(t, "subscribe", j) /\ j.client = c /\ j.event = e
    <3>1. CASE Subscribe(t, c, e)
      <4> DEFINE k == [Call("Subscribe", c) EXCEPT !.event = e, !.mutes = FiltersFor(c, e)]
      <4>1. k.client = c /\ k.event = e
        BY DEF Call
      <4> QED BY <3>1, <4>1 DEF Subscribe
    <3>2. CASE SubscribeInfo(t, c, e)
      <4> DEFINE k == [Call("SubscribeInfo", c) EXCEPT !.event = e, !.created = c \notin sessions]
      <4>1. k.client = c /\ k.event = e
        BY DEF Call
      <4> QED BY <3>2, <4>1 DEF SubscribeInfo
    <3> QED BY <1>4, <3>1, <3>2
  <2>2. /\ UNCHANGED <<subLock, collectorVars, dead, held>> /\ Free(t, c)
        /\ e \notin subEvents[c] /\ subEvents' = [subEvents EXCEPT ![c] = @ \cup {e}]
    BY <1>4 DEF Subscribe, SubscribeInfo
  <2>3. Moves(t) /\ pc'[t] = "subscribe" /\ job'[t].client = c /\ job'[t].event = e
    BY <1>0, <2>1, GotoMoves
  <2>4. HeldInv' /\ <<c, e>> \notin held
    BY <1>0, <1>h, <2>2 DEF HeldInv, DataOK
  <2>5. \A d \in Clients : subEvents[d] \subseteq subEvents'[d]
    BY <1>0, <2>2 DEF DataOK
  <2>6. e \in subEvents'[c]
    BY <1>0, <2>2 DEF DataOK
  <2> QED BY <2>2, <2>3, <2>4, <2>5, <2>6, FreeAlone DEF Safe, Critical, Confirming
<1>5. ASSUME NEW e \in Events, SubscribeAgain(t, c, e) \/ UnsubscribeNothing(t, c, e)
      PROVE  Safe(t)
  BY <1>0, <1>5, AwaySafe DEF SubscribeAgain, UnsubscribeNothing, Free, Moves, Critical, Confirming
<1>6. ASSUME NEW e \in Events, Unsubscribe(t, c, e) PROVE Safe(t)
  <2> DEFINE op == IF c \in SdkClients THEN "UnsubscribeInfo" ELSE "Unsubscribe"
             j == [Call(op, c) EXCEPT !.event = e, !.todo = {e}]
  <2>1. j.client = c
    BY DEF Call
  <2>2. Goto(t, "unsubscribe", j)
    BY <1>6 DEF Unsubscribe
  <2> HIDE DEF j
  <2>3. /\ UNCHANGED <<subLock, collectorVars, dead>> /\ Free(t, c)
        /\ held' = held \ {<<c, e>>} /\ subEvents' = [subEvents EXCEPT ![c] = @ \ {e}]
    BY <1>6 DEF Unsubscribe
  <2>4. Moves(t) /\ pc'[t] = "unsubscribe" /\ job'[t].client = c
    BY <1>0, <2>1, <2>2, GotoMoves
  <2>5. HeldInv'
    <3> SUFFICES ASSUME NEW h \in held'
                 PROVE  h[1] \notin dead /\ h[2] \in subEvents'[h[1]]
      BY <2>3 DEF HeldInv
    <3>1. h \in held /\ h # <<c, e>> /\ h[1] \notin dead /\ h[2] \in subEvents[h[1]]
      BY <1>0, <2>3 DEF HeldInv
    <3>2. h[1] # c \/ h[2] # e
      BY <1>h, <3>1
    <3> QED BY <1>0, <1>h, <2>3, <3>1, <3>2 DEF DataOK
  <2>6. \A d \in Clients : subEvents[d] \subseteq subEvents'[d]
                           \/ \A u \in Threads \ {t} : job[u].client # d
    BY <1>0, <2>3, FreeAlone DEF DataOK
  <2> QED BY <2>3, <2>4, <2>5, <2>6, FreeAlone DEF Safe, Critical, Confirming
<1>7. ASSUME NEW f \in Filters, InsertSubscribeMute(t, c, f) \/ RemoveSubscribeMute(t, c, f)
      PROVE  Safe(t)
  <2>1. /\ UNCHANGED <<subEvents, subLock, collectorVars, dead, held>> /\ Free(t, c)
        /\ \/ \E j : /\ j.client = c
                     /\ Goto(t, "mute", j) \/ Goto(t, "unmute", j)
           \/ UNCHANGED <<pc, job>>
    <3>1. \A op : [Call(op, c) EXCEPT !.filter = f].client = c
      BY DEF Call
    <3> QED BY <1>7, <3>1 DEF InsertSubscribeMute, RemoveSubscribeMute
  <2>2. /\ Moves(t) /\ pc'[t] \in {"mute", "unmute", "idle"}
        /\ job'[t].client \in {c, job[t].client}
    BY <1>0, <2>1, FreeAlone, GotoMoves DEF Moves
  <2> QED BY <1>0, <2>1, <2>2, FreeAlone DEF Safe, HeldInv, Critical, Confirming
<1> QED BY <1>1, <1>2, <1>3, <1>4, <1>5, <1>6, <1>7 DEF Accept

-----------------------------------------------------------------------------
(* The steps under the lock. *)

LEMMA SubscribeScIfNeededSafe ==
  ASSUME TypeInv, TypeInv', LeaseInv, NEW t \in Threads, SubscribeScIfNeeded(t)
  PROVE  LeaseInv'
<1>0. /\ DataOK /\ JobsTyped /\ job[t] \in Jobs /\ pc[t] = "subscribe" /\ subLock = Nil
      /\ UNCHANGED <<sessions, subEvents, collectorVars, dead>>
      /\ LockInv /\ SerialInv /\ SetupInv /\ HeldInv /\ StopInv /\ ListenerInv /\ HeldServed
  BY TypeFacts DEF SubscribeScIfNeeded, LeaseInv
<1>1. CASE ~IsAnySessionSubscribes(job[t].event) /\ ApplyMutes(t, job[t].mutes) /\ UNCHANGED subLock
  <2>1. job[t].client \in dead
    BY <1>0, <1>1, SetupFacts, SubscribesBySubEvents DEF SettingUp
  <2>2. /\ Moves(t) /\ pc'[t] \in {"remute", "idle"} /\ held' = held
        /\ job'[t].client \in {job[t].client, Nil}
        /\ pc'[t] = "remute" => job'[t].client = job[t].client
    BY <1>0, <1>1, <2>1, ApplyMutesMoves
  <2>3. Safe(t)
    BY <1>0, <1>1, <2>1, <2>2 DEF Safe, HeldInv, Critical, Confirming
  <2> QED BY <2>3, SafeKeeps
<1>2. CASE subLock' = t /\ Goto(t, "subscribing", job[t]) /\ UNCHANGED held
  <2>1. /\ \A u \in Threads : job'[u] = job[u]
        /\ \A u \in Threads \ {t} : pc'[u] = pc[u]
        /\ pc'[t] = "subscribing"
    BY <1>0, <1>2, GotoMoves DEF Moves
  <2>2. LockInv'
    BY <1>0, <1>2, <2>1, LockFree DEF LockInv
  <2>3. SerialInv'
    BY <1>0, <2>1 DEF SerialInv
  <2>4. SetupInv'
    BY <1>0, <1>2, <2>1 DEF SetupInv, Running, Collected, Confirming
  <2>5. StopInv'
    BY <1>0, <2>1, LockFree DEF StopInv
  <2>6. HeldInv' /\ ListenerInv' /\ HeldServed'
    BY <1>0, <1>2 DEF HeldInv, ListenerInv, HeldServed, Running
  <2> QED BY <2>2, <2>3, <2>4, <2>5, <2>6 DEF LeaseInv
<1> QED BY <1>1, <1>2 DEF SubscribeScIfNeeded

(* A start stops no collector, and when it succeeds its collector runs.     *)
LEMMA StartStarts ==
  ASSUME DataOK, ListenerInv, NEW e \in Events, NEW ok \in BOOLEAN, SubscribeSc(e, ok)
  PROVE  /\ ListenerInv'
         /\ \A x \in Events : Running(x) => Running(x)'
         /\ ok /\ e \in Collected => Running(e)'
<1>1. CASE Kind[e] \in {"sg", "sticky"} /\ SubscribeScInSg(e, ok) /\ UNCHANGED scSubscribeMap
  BY <1>1 DEF SubscribeScInSg, SubscribeCollectorsOk, SubscribeCollectorsFail, ListenerInv, Running
<1>2. CASE Kind[e] = "sc" /\ SubscribeScInSc(e, ok) /\ UNCHANGED <<poolVars, listeners>>
  BY <1>2 DEF SubscribeScInSc, ListenerInv, Running
<1>3. CASE Kind[e] \in {"unknown", "query"} /\ UNCHANGED collectorVars
  BY <1>3 DEF ListenerInv, Running, Collected
<1> QED BY <1>1, <1>2, <1>3 DEF SubscribeSc

LEMMA SubscribeScDoneSafe ==
  ASSUME TypeInv, TypeInv', LeaseInv, NEW t \in Threads, SubscribeScDone(t)
  PROVE  LeaseInv'
<1>0. /\ DataOK /\ JobsTyped /\ job[t] \in Jobs /\ pc[t] = "subscribing"
      /\ UNCHANGED <<sessions, subEvents, dead>>
      /\ LockInv /\ SerialInv /\ SetupInv /\ HeldInv /\ StopInv /\ ListenerInv /\ HeldServed
  BY TypeFacts DEF SubscribeScDone, LeaseInv
<1>1. PICK c \in Clients, e \in Events :
        /\ c = job[t].client /\ e = job[t].event /\ c # Nil
        /\ c \notin dead => e \in subEvents[c]
        /\ <<c, e>> \notin held
  BY <1>0, SetupFacts DEF SettingUp
<1>2. PICK ok \in BOOLEAN :
        /\ SubscribeSc(e, ok)
        /\ \/ ok /\ ApplyMutes(t, job[t].mutes)
           \/ ~ok /\ Goto(t, "undoSubscribe", job[t]) /\ UNCHANGED held
  BY <1>1 DEF SubscribeScDone
<1>3. /\ ListenerInv'
      /\ \A x \in Events : Running(x) => Running(x)'
      /\ ok /\ e \in Collected => Running(e)'
  BY <1>0, <1>2, StartStarts
<1>4. /\ Moves(t) /\ job'[t].client \in {c, Nil}
      /\ \/ ok /\ pc'[t] = "remute" /\ held' = held /\ job'[t].event = e /\ job'[t].client = c
         \/ ok /\ pc'[t] = "idle" /\ held' = IF c \in dead THEN held ELSE held \cup {<<c, e>>}
         \/ ~ok /\ pc'[t] = "undoSubscribe" /\ held' = held /\ job'[t].event = e /\ job'[t].client = c
  BY <1>0, <1>1, <1>2, ApplyMutesMoves, GotoMoves
<1>5. LockInv'
  BY <1>0, <1>4, LockExcludes DEF LockInv, Moves
<1>6. SerialInv'
  BY <1>0, <1>1, <1>4 DEF SerialInv, Moves
<1>7. SetupInv'
  <2> SUFFICES ASSUME NEW u \in Threads
               PROVE  /\ pc'[u] \in SettingUp /\ job'[u].client \notin dead'
                            => job'[u].event \in subEvents'[job'[u].client]
                      /\ pc'[u] \in Confirming /\ job'[u].client \notin dead'
                            /\ job'[u].event \in Collected => Running(job[u].event)'
                      /\ pc'[u] \in {"subscribe", "subscribing", "undoSubscribe"}
                            => <<job'[u].client, job'[u].event>> \notin held'
    BY DEF SetupInv, SettingUp, Running, Collected
  <2>1. CASE u # t
    <3>1. pc'[u] = pc[u] /\ job'[u] = job[u]
      BY <1>4, <2>1 DEF Moves
    <3>2. ASSUME pc[u] \in Confirming, job[u].client \notin dead, job[u].event \in Collected
          PROVE  Running(job[u].event) /\ job[u].event \in Events
      BY <1>0, <3>2, SetupFacts DEF SettingUp
    <3>3. ASSUME pc[u] \in {"subscribe", "subscribing", "undoSubscribe"},
                 <<job[u].client, job[u].event>> \in held'
          PROVE  FALSE
      <4>1. <<job[u].client, job[u].event>> \notin held
        BY <1>0, <3>3, SetupFacts DEF SettingUp
      <4>2. job[u].client = c /\ c \notin dead
        BY <1>4, <3>3, <4>1
      <4> QED BY <1>0, <1>1, <2>1, <4>2 DEF SerialInv
    <3>4. pc[u] \in SettingUp /\ job[u].client \notin dead
             => job[u].event \in subEvents[job[u].client]
      BY <1>0, SetupFacts
    <3> QED BY <1>0, <1>3, <3>1, <3>2, <3>3, <3>4 DEF Running
  <2>2. CASE u = t
    BY <1>0, <1>1, <1>3, <1>4, <2>2 DEF SettingUp, Confirming, Running
  <2> QED BY <2>1, <2>2
<1>8. HeldInv'
  BY <1>0, <1>1, <1>4 DEF HeldInv
<1>9. StopInv'
  BY <1>0, <1>4, LockExcludes DEF StopInv, Moves
<1>10. HeldServed'
  BY <1>0, <1>3, <1>4 DEF HeldServed, DataOK, Running, Collected
<1> QED BY <1>3, <1>5, <1>6, <1>7, <1>8, <1>9, <1>10 DEF LeaseInv

LEMMA UnSubscribeScIfLastSafe ==
  ASSUME TypeInv, TypeInv', LeaseInv, NEW t \in Threads, UnSubscribeScIfLast(t)
  PROVE  LeaseInv'
<1>0. /\ DataOK /\ JobsTyped /\ JobOK /\ job[t] \in Jobs /\ pc[t] = "unsubscribe" /\ subLock = Nil
      /\ UNCHANGED <<sessions, subEvents, collectorVars, dead, held>>
      /\ LockInv /\ SerialInv /\ SetupInv /\ HeldInv /\ StopInv /\ ListenerInv /\ HeldServed
  BY TypeFacts DEF UnSubscribeScIfLast, LeaseInv
<1>1. PICK e \in job[t].todo :
        \/ /\ ~IsAnySessionSubscribes(e)
           /\ subLock' = t
           /\ Goto(t, "unsubscribing", [job[t] EXCEPT !.event = e])
        \/ Released(t, e, TRUE) /\ UNCHANGED subLock
  BY DEF UnSubscribeScIfLast
<1>2. CASE Released(t, e, TRUE) /\ UNCHANGED subLock
  <2>1. /\ Moves(t) /\ job'[t].client \in {job[t].client, Nil}
        /\ pc'[t] \in {"cleanup", "undoUnsubscribe", "unsubscribe", "unmuteAll", "idle"}
    BY <1>0, <1>2, ReleasedMoves
  <2>2. Safe(t)
    BY <1>0, <1>2, <2>1, AwaySafe DEF Critical, Confirming
  <2> QED BY <2>2, SafeKeeps
<1>3. CASE /\ ~IsAnySessionSubscribes(e)
           /\ subLock' = t
           /\ Goto(t, "unsubscribing", [job[t] EXCEPT !.event = e])
  <2> DEFINE j == [job[t] EXCEPT !.event = e]
  <2>1. j.client = job[t].client /\ j.event = e /\ Goto(t, "unsubscribing", j)
    BY <1>0, <1>3 DEF Jobs
  <2> HIDE DEF j
  <2>2. /\ \A u \in Threads \ {t} : pc'[u] = pc[u] /\ job'[u] = job[u]
        /\ pc'[t] = "unsubscribing" /\ job'[t].client = job[t].client /\ job'[t].event = e
    BY <1>0, <2>1, GotoMoves DEF Moves
  <2>3. LockInv'
    BY <1>0, <1>3, <2>2, LockFree DEF LockInv
  <2>4. SerialInv'
    BY <1>0, <2>2 DEF SerialInv
  <2>5. SetupInv'
    BY <1>0, <2>2 DEF SetupInv, Running, Collected, Confirming
  <2>6. \A h \in held : h[2] # e
    BY <1>0, <1>3, SubscribesBySubEvents DEF HeldInv, DataOK
  <2>7. \A u \in Threads : pc[u] \in Confirming /\ job[u].client \notin dead => job[u].event # e
    BY <1>0, <1>3, SetupFacts, SubscribesBySubEvents DEF SettingUp
  <2>8. StopInv'
    <3>1. \A v \in Threads : pc'[v] = "unsubscribing" => v = t
      BY <1>0, <2>2, LockFree
    <3>2. \A u \in Threads : pc'[u] \in Confirming => u # t
      BY <2>2 DEF Confirming
    <3> QED BY <1>0, <2>2, <2>6, <2>7, <3>1, <3>2 DEF StopInv
  <2>9. HeldInv' /\ ListenerInv' /\ HeldServed'
    BY <1>0 DEF HeldInv, ListenerInv, HeldServed, Running
  <2> QED BY <2>3, <2>4, <2>5, <2>8, <2>9 DEF LeaseInv
<1> QED BY <1>1, <1>2, <1>3

NoStopFaults == "stop" \notin Faults

(* A stop touches no other collector, and forgets the listener of its own.  *)
LEMMA StopStopsOne ==
  ASSUME NoStopFaults, DataOK, ListenerInv, NEW e \in Events, NEW ok \in BOOLEAN,
         UnSubscribeSc(e, ok)
  PROVE  /\ ListenerInv'
         /\ \A x \in Events \ {e} : Running(x) => Running(x)'
<1>1. CASE Kind[e] \in {"sg", "sticky"} /\ UnSubscribeScInSg(e, ok) /\ UNCHANGED scSubscribeMap
  BY <1>1 DEF UnSubscribeScInSg, UnsubscribeCollectors, Stopping, UnsubscribeMayFail,
              NoStopFaults, ListenerInv, Running
<1>2. CASE Kind[e] = "sc" /\ UnSubscribeScInSc(e, ok) /\ UNCHANGED <<poolVars, listeners>>
  BY <1>2 DEF UnSubscribeScInSc, ListenerInv, Running
<1>3. CASE Kind[e] \in {"unknown", "query"} /\ UNCHANGED collectorVars
  BY <1>3 DEF ListenerInv, Running
<1> QED BY <1>1, <1>2, <1>3 DEF UnSubscribeSc

LEMMA UnSubscribeScDoneSafe ==
  ASSUME NoStopFaults, TypeInv, TypeInv', LeaseInv, NEW t \in Threads, UnSubscribeScDone(t)
  PROVE  LeaseInv'
<1>0. /\ DataOK /\ JobsTyped /\ JobOK /\ pc[t] = "unsubscribing"
      /\ job[t].event \in Events \cap job[t].todo
      /\ UNCHANGED <<sessions, subEvents, dead, held>>
      /\ LockInv /\ SerialInv /\ SetupInv /\ HeldInv /\ StopInv /\ ListenerInv /\ HeldServed
  BY TypeFacts DEF UnSubscribeScDone, LeaseInv, LocalOK
<1>1. PICK e \in Events \cap job[t].todo, ok \in BOOLEAN :
        e = job[t].event /\ UnSubscribeSc(e, ok) /\ Released(t, e, ok)
  BY <1>0 DEF UnSubscribeScDone
<1>2. ListenerInv' /\ \A x \in Events \ {e} : Running(x) => Running(x)'
  BY <1>0, <1>1, StopStopsOne
<1>3. /\ \A u \in Threads \ {t} : pc'[u] = pc[u] /\ job'[u] = job[u]
      /\ job'[t].client \in {job[t].client, Nil}
      /\ pc'[t] \in {"cleanup", "undoUnsubscribe", "unsubscribe", "unmuteAll", "idle"}
  BY <1>0, <1>1, ReleasedMoves DEF Moves
<1>4. /\ \A h \in held : h[2] # e
      /\ \A u \in Threads : pc[u] \in Confirming /\ job[u].client \notin dead => job[u].event # e
  BY <1>0, <1>1 DEF StopInv
<1>5. LockInv'
  BY <1>0, <1>3, LockExcludes DEF LockInv
<1>6. SerialInv'
  BY <1>0, <1>3 DEF SerialInv
<1>7. SetupInv'
  <2>2. ASSUME NEW u \in Threads, pc[u] \in Confirming, job[u].client \notin dead,
               job[u].event \in Collected
        PROVE  job[u].event \in Events \ {e} /\ Running(job[u].event)
    <3>1. job[u].event \in Events /\ Running(job[u].event)
      BY <1>0, <2>2, SetupFacts DEF SettingUp
    <3> QED BY <1>4, <2>2, <3>1
  <2> QED BY <1>0, <1>2, <1>3, <2>2 DEF SetupInv, Running, Confirming
<1>8. StopInv'
  BY <1>0, <1>3, LockExcludes DEF StopInv
<1>9. HeldInv'
  BY <1>0 DEF HeldInv
<1>10. HeldServed'
  BY <1>0, <1>2, <1>4 DEF HeldServed, DataOK, Running, Collected
<1> QED BY <1>2, <1>5, <1>6, <1>7, <1>8, <1>9, <1>10 DEF LeaseInv

LEMMA InitLease == Init => LeaseInv
<1> SUFFICES ASSUME Init PROVE LeaseInv
  OBVIOUS
<1>1. LockInv /\ SetupInv /\ HeldInv /\ StopInv /\ ListenerInv /\ HeldServed
  BY DEF Init, LockInv, SetupInv, HeldInv, StopInv, ListenerInv, HeldServed, Confirming
<1>2. SerialInv
  BY DEF Init, SerialInv, NoJob, Call
<1> QED BY <1>1, <1>2 DEF LeaseInv

LEMMA NextLease ==
  ASSUME Serial, NoStopFaults, TypeInv, TypeInv', LeaseInv, [Next]_vars
  PROVE  LeaseInv'
<1>1. ASSUME NEW t \in Threads, Continue(t) PROVE LeaseInv'
  <2>1. CASE SubscribeScIfNeeded(t)
    BY <2>1, SubscribeScIfNeededSafe
  <2>2. CASE SubscribeScDone(t)
    BY <2>2, SubscribeScDoneSafe
  <2>3. CASE UnSubscribeScIfLast(t)
    BY <2>3, UnSubscribeScIfLastSafe
  <2>4. CASE UnSubscribeScDone(t)
    BY <2>4, UnSubscribeScDoneSafe
  <2>5. CASE UndoSubscribe(t)
    BY <2>5, UndoSubscribeSafe, SafeKeeps
  <2>6. CASE RecheckMute(t) \/ Remute(t)
    BY <2>6, ConfirmSafe, SafeKeeps
  <2>7. CASE \/ CreatClientInsert(t) \/ UndoUnsubscribe(t) \/ Cleanup(t) \/ Purge(t)
             \/ UnmuteAll(t) \/ Mute(t) \/ RecordMute(t) \/ Unmute(t) \/ EraseMute(t)
    BY <2>7, ContinueSafe, SafeKeeps
  <2> QED BY <1>1, <2>1, <2>2, <2>3, <2>4, <2>5, <2>6, <2>7 DEF Continue
<1>2. ASSUME NEW t \in Threads, NEW c \in Clients, Accept(t, c) PROVE LeaseInv'
  BY <1>2, AcceptSafe, SafeKeeps
<1>3. ASSUME NEW c \in Clients, NewClient(c) PROVE LeaseInv'
  <2>1. /\ UNCHANGED <<subEvents, subLock, collectorVars, pc, job, held>>
        /\ dead' = dead \ {c} /\ \A t \in Threads : job[t].client # c
    BY <1>3 DEF NewClient
  <2>2. LockInv' /\ ListenerInv' /\ HeldServed'
    BY <2>1 DEF LeaseInv, LockInv, ListenerInv, HeldServed, Running
  <2>3. SerialInv' /\ StopInv' /\ HeldInv'
    BY <2>1 DEF LeaseInv, SerialInv, StopInv, HeldInv
  <2>4. SetupInv'
    BY <2>1 DEF LeaseInv, SetupInv, Running
  <2> QED BY <2>2, <2>3, <2>4 DEF LeaseInv
<1>4. CASE (\E e \in Events : PublishSticky(e)) \/ UNCHANGED vars
  <2>1. UNCHANGED <<subEvents, subLock, collectorVars, pc, job, held, dead>>
    BY <1>4 DEF PublishSticky, vars
  <2> QED BY <2>1 DEF LeaseInv, LockInv, SerialInv, SetupInv, HeldInv, StopInv, ListenerInv,
                      HeldServed, Running
<1> QED BY <1>1, <1>2, <1>3, <1>4 DEF Next

(* A subscription whose confirmation the client has had, and which it has   *)
(* not given up, has its collector running: SubscribeScIfNeeded and         *)
(* UnSubscribeScIfLast keep it so in every interleaving, as long as a       *)
(* client makes one call at a time and no stop reports an error.            *)
THEOREM Leases == ASSUME Serial, NoStopFaults PROVE Spec => []HeldServed
<1>1. Init => TypeInv /\ LeaseInv
  BY InitTyped, InitLease
<1>2. TypeInv /\ LeaseInv /\ [Next]_vars => (TypeInv /\ LeaseInv)'
  BY NextTyped, NextLease
<1>3. LeaseInv => HeldServed
  BY DEF LeaseInv
<1> QED BY <1>1, <1>2, <1>3, PTL DEF Spec

-----------------------------------------------------------------------------
(* The refinement: every step of the manager is a step of CollectorLease    *)
(* about the events that have a collector, or leaves it alone.              *)

Leased == {h \in held : h[2] \in Collected}
Runs == {e \in Collected : Running(e)}

LeaseStep == [Lease!Next]_(Lease!vars)

LEMMA NoLeaseStep ==
  ASSUME UNCHANGED <<held, collectorVars>>
  PROVE  LeaseStep
  BY DEF LeaseStep, Lease!vars, Running, Collected

(* A client gives up some of its subscriptions. *)
LEMMA ReleaseStep ==
  ASSUME DataOK, NEW c \in Clients, NEW E \in SUBSET Events,
         held' = held \ ({c} \X E), UNCHANGED collectorVars
  PROVE  LeaseStep
<1>1. Runs' = Runs
  BY DEF Runs, Running, Collected
<1>2. E \cap Collected \in SUBSET Collected /\ Leased' = Leased \ ({c} \X (E \cap Collected))
  BY DEF Leased, DataOK, Collected
<1>3. Lease!Release(c)
  BY <1>1, <1>2 DEF Lease!Release, Runs, Leased
<1> QED BY <1>3 DEF LeaseStep, Lease!Next

(* A subscription is confirmed, with its collector running or just started. *)
LEMMA GrantStep ==
  ASSUME DataOK, NEW c \in Clients, NEW e \in Events,
         held' = held \cup {<<c, e>>},
         e \in Collected => Runs' = Runs \cup {e},
         e \notin Collected => Runs' = Runs
  PROVE  LeaseStep
<1>1. CASE e \in Collected
  <2>1. Leased' = Leased \cup {<<c, e>>}
    BY <1>1 DEF Leased, Collected
  <2>2. Lease!StartAndGrant(c, e)
    BY <1>1, <2>1 DEF Lease!StartAndGrant, Leased, Runs
  <2> QED BY <1>1, <2>2 DEF LeaseStep, Lease!Next
<1>2. CASE e \notin Collected
  <2>1. Leased' = Leased /\ Runs' = Runs
    BY <1>2 DEF Leased, Collected
  <2> QED BY <2>1 DEF LeaseStep, Lease!vars, Leased, Runs
<1> QED BY <1>1, <1>2

LEMMA StartStep ==
  ASSUME NEW e \in Events, UNCHANGED held,
         Runs' = Runs \/ (e \in Collected /\ Runs' = Runs \cup {e})
  PROVE  LeaseStep
<1>1. Leased' = Leased
  BY DEF Leased, Collected
<1>2. CASE Runs' = Runs
  BY <1>1, <1>2 DEF LeaseStep, Lease!vars, Leased, Runs
<1>3. CASE e \in Collected /\ Runs' = Runs \cup {e}
  <2>1. Lease!Start(e)
    BY <1>1, <1>3 DEF Lease!Start, Leased, Runs
  <2> QED BY <1>3, <2>1 DEF LeaseStep, Lease!Next
<1> QED BY <1>2, <1>3

LEMMA StopStep ==
  ASSUME NEW e \in Events, UNCHANGED held, \A h \in held : h[2] # e,
         Runs' = Runs \/ (e \in Collected /\ Runs' = Runs \ {e})
  PROVE  LeaseStep
<1>1. Leased' = Leased
  BY DEF Leased, Collected
<1>2. CASE Runs' = Runs
  BY <1>1, <1>2 DEF LeaseStep, Lease!vars, Leased, Runs
<1>3. CASE e \in Collected /\ Runs' = Runs \ {e}
  <2>1. Lease!Holders(e) = {}
    BY DEF Lease!Holders, Leased
  <2>2. Lease!Stop(e)
    BY <1>1, <1>3, <2>1 DEF Lease!Stop, Leased, Runs
  <2> QED BY <1>3, <2>2 DEF LeaseStep, Lease!Next
<1> QED BY <1>2, <1>3

(* What the collectors' own steps do to the set that runs.                  *)
LEMMA StartRuns ==
  ASSUME DataOK, ListenerInv, NEW e \in Events, NEW ok \in BOOLEAN, SubscribeSc(e, ok)
  PROVE  IF ok /\ e \in Collected THEN Runs' = Runs \cup {e} ELSE Runs' = Runs
<1>1. CASE Kind[e] \in {"sg", "sticky"} /\ SubscribeScInSg(e, ok) /\ UNCHANGED scSubscribeMap
  <2>1. e \in Collected /\ Kind[e] # "sc"
    BY <1>1 DEF Collected
  <2>2. loaderMap' = IF ok THEN loaderMap \cup {e} ELSE loaderMap
    BY <1>1 DEF SubscribeScInSg, SubscribeCollectorsOk, SubscribeCollectorsFail, ListenerInv
  <2> QED BY <1>1, <2>1, <2>2 DEF Runs, Running, Collected
<1>2. CASE Kind[e] = "sc" /\ SubscribeScInSc(e, ok) /\ UNCHANGED <<poolVars, listeners>>
  BY <1>2 DEF SubscribeScInSc, Runs, Running, Collected
<1>3. CASE Kind[e] \in {"unknown", "query"} /\ UNCHANGED collectorVars
  BY <1>3 DEF Runs, Running, Collected
<1> QED BY <1>1, <1>2, <1>3 DEF SubscribeSc

LEMMA StopRuns ==
  ASSUME DataOK, NEW e \in Events, NEW ok \in BOOLEAN, UnSubscribeSc(e, ok)
  PROVE  Runs' = Runs \/ (e \in Collected /\ Runs' = Runs \ {e})
<1>1. CASE Kind[e] \in {"sg", "sticky"} /\ UnSubscribeScInSg(e, ok) /\ UNCHANGED scSubscribeMap
  <2>1. e \in Collected /\ Kind[e] # "sc"
    BY <1>1 DEF Collected
  <2>2. loaderMap' = loaderMap \/ loaderMap' = loaderMap \ {e}
    BY <1>1 DEF UnSubscribeScInSg, UnsubscribeCollectors, Stopping
  <2> QED BY <1>1, <2>1, <2>2 DEF Runs, Running, Collected
<1>2. CASE Kind[e] = "sc" /\ UnSubscribeScInSc(e, ok) /\ UNCHANGED <<poolVars, listeners>>
  BY <1>2 DEF UnSubscribeScInSc, Runs, Running, Collected
<1>3. CASE Kind[e] \in {"unknown", "query"} /\ UNCHANGED collectorVars
  BY <1>3 DEF Runs, Running, Collected
<1> QED BY <1>1, <1>2, <1>3 DEF UnSubscribeSc

(* A thread goes past the last filter, and its subscription is confirmed.   *)
LEMMA ConfirmRefines ==
  ASSUME TypeInv, LeaseInv, NEW t \in Threads, RecheckMute(t) \/ Remute(t)
  PROVE  LeaseStep
<1>0. /\ DataOK /\ JobsTyped /\ job[t] \in Jobs /\ SetupInv /\ pc[t] \in Confirming
      /\ UNCHANGED collectorVars
  BY TypeFacts DEF LeaseInv, RecheckMute, Remute, Confirming
<1>1. PICK c \in Clients, e \in Events :
        /\ c = job[t].client /\ e = job[t].event
        /\ c \notin dead /\ e \in Collected => Running(e)
  BY <1>0, SetupFacts DEF SettingUp
<1>2. held' = held \/ (c \notin dead /\ held' = held \cup {<<c, e>>})
  <2>1. UNCHANGED held \/ \E mutes : ApplyMutes(t, mutes)
    BY DEF RecheckMute, Remute
  <2> QED BY <1>0, <1>1, <2>1, ApplyMutesMoves
<1>3. CASE held' = held
  BY <1>0, <1>3, NoLeaseStep
<1>4. CASE c \notin dead /\ held' = held \cup {<<c, e>>}
  <2>1. Runs' = Runs /\ (e \in Collected => e \in Runs)
    BY <1>0, <1>1, <1>4 DEF Runs, Running, Collected
  <2>2. e \in Collected => Runs' = Runs \cup {e}
    BY <2>1
  <2> QED BY <1>0, <1>4, <2>1, <2>2, GrantStep
<1> QED BY <1>2, <1>3, <1>4

LEMMA SubscribeScDoneRefines ==
  ASSUME TypeInv, LeaseInv, NEW t \in Threads, SubscribeScDone(t)
  PROVE  LeaseStep
<1>0. /\ DataOK /\ JobsTyped /\ job[t] \in Jobs /\ SetupInv /\ ListenerInv /\ pc[t] = "subscribing"
  BY TypeFacts DEF LeaseInv, SubscribeScDone
<1>1. PICK c \in Clients, e \in Events : c = job[t].client /\ e = job[t].event
  BY <1>0, SetupFacts DEF SettingUp
<1>2. PICK ok \in BOOLEAN :
        /\ SubscribeSc(e, ok)
        /\ \/ ok /\ ApplyMutes(t, job[t].mutes)
           \/ ~ok /\ UNCHANGED held
  BY <1>1 DEF SubscribeScDone
<1>3. IF ok /\ e \in Collected THEN Runs' = Runs \cup {e} ELSE Runs' = Runs
  BY <1>0, <1>2, StartRuns
<1>4. held' = held \/ (ok /\ held' = held \cup {<<c, e>>})
  BY <1>0, <1>1, <1>2, ApplyMutesMoves
<1>5. CASE held' = held
  BY <1>3, <1>5, StartStep
<1>6. CASE ok /\ held' = held \cup {<<c, e>>}
  BY <1>0, <1>3, <1>6, GrantStep
<1> QED BY <1>4, <1>5, <1>6

LEMMA UnSubscribeScDoneRefines ==
  ASSUME TypeInv, LeaseInv, NEW t \in Threads, UnSubscribeScDone(t)
  PROVE  LeaseStep
<1>0. DataOK /\ StopInv /\ pc[t] = "unsubscribing" /\ job[t].event \in Events /\ UNCHANGED held
  BY TypeFacts DEF LeaseInv, UnSubscribeScDone, LocalOK
<1>1. PICK e \in Events, ok \in BOOLEAN : e = job[t].event /\ UnSubscribeSc(e, ok)
  BY <1>0 DEF UnSubscribeScDone
<1>2. \A h \in held : h[2] # e
  BY <1>0, <1>1 DEF StopInv
<1>3. Runs' = Runs \/ (e \in Collected /\ Runs' = Runs \ {e})
  BY <1>0, <1>1, StopRuns
<1> QED BY <1>0, <1>2, <1>3, StopStep

LEMMA AcceptRefines ==
  ASSUME TypeInv, LeaseInv, NEW t \in Threads, NEW c \in Clients, Accept(t, c)
  PROVE  LeaseStep
<1>0. DataOK /\ UNCHANGED collectorVars
  BY TypeFacts DEF Accept, CreatClient, DestoryClient, RemoteDied, Subscribe, SubscribeAgain,
                   SubscribeInfo, Unsubscribe, UnsubscribeNothing, InsertSubscribeMute,
                   RemoveSubscribeMute
<1>1. CASE DestoryClient(t, c) \/ RemoteDied(t, c)
  <2>1. held' = held \ ({c} \X Events)
    BY <1>0, <1>1 DEF DestoryClient, RemoteDied, DataOK
  <2> QED BY <1>0, <2>1, ReleaseStep
<1>2. ASSUME NEW e \in Events, Unsubscribe(t, c, e) PROVE LeaseStep
  <2>1. held' = held \ ({c} \X {e}) /\ {e} \in SUBSET Events
    BY <1>2 DEF Unsubscribe
  <2> QED BY <1>0, <2>1, ReleaseStep
<1>3. CASE held' = held
  BY <1>0, <1>3, NoLeaseStep
<1> QED BY <1>1, <1>2, <1>3 DEF Accept, CreatClient, Subscribe, SubscribeAgain, SubscribeInfo,
                                UnsubscribeNothing, InsertSubscribeMute, RemoveSubscribeMute

LEMMA NextRefines ==
  ASSUME TypeInv, LeaseInv, [Next]_vars
  PROVE  LeaseStep
<1>1. ASSUME NEW t \in Threads, Continue(t) PROVE LeaseStep
  <2>1. CASE SubscribeScIfNeeded(t)
    <3>0. /\ DataOK /\ JobsTyped /\ job[t] \in Jobs /\ SetupInv /\ pc[t] = "subscribe"
          /\ UNCHANGED collectorVars
      BY <2>1, TypeFacts DEF LeaseInv, SubscribeScIfNeeded
    <3>1. CASE ~IsAnySessionSubscribes(job[t].event) /\ ApplyMutes(t, job[t].mutes)
      <4>1. job[t].client \in dead
        BY <3>0, <3>1, SetupFacts, SubscribesBySubEvents DEF SettingUp
      <4>2. held' = held
        BY <3>0, <3>1, <4>1, ApplyMutesMoves
      <4> QED BY <3>0, <4>2, NoLeaseStep
    <3>2. CASE UNCHANGED held
      BY <3>0, <3>2, NoLeaseStep
    <3> QED BY <2>1, <3>1, <3>2 DEF SubscribeScIfNeeded
  <2>2. CASE SubscribeScDone(t)
    BY <2>2, SubscribeScDoneRefines
  <2>3. CASE UnSubscribeScDone(t)
    BY <2>3, UnSubscribeScDoneRefines
  <2>4. CASE RecheckMute(t) \/ Remute(t)
    BY <2>4, ConfirmRefines
  <2>5. CASE \/ CreatClientInsert(t) \/ UndoSubscribe(t) \/ UnSubscribeScIfLast(t)
             \/ UndoUnsubscribe(t) \/ Cleanup(t) \/ Purge(t)
             \/ UnmuteAll(t) \/ Mute(t) \/ RecordMute(t) \/ Unmute(t) \/ EraseMute(t)
    BY <2>5, NoLeaseStep DEF CreatClientInsert, UndoSubscribe, UnSubscribeScIfLast,
       UndoUnsubscribe, Cleanup, Purge, UnmuteAll, Mute, RecordMute, Unmute, EraseMute
  <2> QED BY <1>1, <2>1, <2>2, <2>3, <2>4, <2>5 DEF Continue
<1>2. ASSUME NEW t \in Threads, NEW c \in Clients, Accept(t, c) PROVE LeaseStep
  BY <1>2, AcceptRefines
<1>3. CASE \/ \E e \in Events : PublishSticky(e)
           \/ \E c \in Clients : NewClient(c)
           \/ UNCHANGED vars
  BY <1>3, NoLeaseStep DEF PublishSticky, NewClient, vars
<1> QED BY <1>1, <1>2, <1>3 DEF Next

(* AcquireDataSubscribe implements CollectorLease: it stops no collector a  *)
(* confirmed subscription relies on, and confirms none without it.          *)
THEOREM Refinement == ASSUME Serial, NoStopFaults PROVE Spec => LeaseSpec
<1>1. Init => TypeInv /\ LeaseInv
  BY InitTyped, InitLease
<1>2. TypeInv /\ LeaseInv /\ [Next]_vars => (TypeInv /\ LeaseInv)'
  BY NextTyped, NextLease
<1>3. Init => Lease!Init
  BY DEF Init, Lease!Init
<1>4. TypeInv /\ LeaseInv /\ [Next]_vars => [Lease!Next]_(Lease!vars)
  BY NextRefines DEF LeaseStep
<1> QED BY <1>1, <1>2, <1>3, <1>4, PTL DEF Spec, LeaseSpec, Lease!Spec

-------------------------------------------------------------------------------
(* The records of the service and of the kit. *)

NoFilterFaults == "filter" \notin Faults

Subscribing == {"subscribe", "subscribing", "remute", "remuting"}
Unsubscribing == {"unsubscribe", "unsubscribing", "undoUnsubscribe", "cleanup"}

(* Which call a thread serves at each of its labels, and for which kind of *)
(* client.                                                                 *)
OpOK(label, j) ==
    /\ label = "idle" => j.op = "none"
    /\ label = "create" => j.op = "CreatClient"
    /\ label \in Subscribing \cup {"undoSubscribe"} => j.op \in {"Subscribe", "SubscribeInfo"}
    /\ label \in {"undoUnsubscribe", "cleanup"} => j.op \in {"Unsubscribe", "UnsubscribeInfo"}
    /\ label \in {"unsubscribe", "unsubscribing"} =>
         j.op \in {"Unsubscribe", "UnsubscribeInfo", "DestoryClient", "RemoteDied"}
    /\ label = "purge" => j.op = "RemoteDied"
    /\ label = "unmuteAll" => j.op = "DestoryClient"
    /\ label \in {"mute", "record"} => j.op = "AddFilter"
    /\ label \in {"unmute", "erase"} => j.op = "RemoveFilter"
    /\ j.op \in {"Subscribe", "Unsubscribe"} => j.client \notin SdkClients /\ ~j.created
    /\ j.op \in {"AddFilter", "RemoveFilter"} => j.client \notin SdkClients
    /\ j.op \in {"SubscribeInfo", "UnsubscribeInfo"} => j.client \in SdkClients
    /\ j.op \notin {"Subscribe", "DestoryClient"} => j.mutes = {}
    /\ j.op = "Subscribe" => \A f \in j.mutes : EventOf[f] = j.event
    /\ label = "remuting" => j.filter \in j.mutes

(* The kit's record of c is K; the filters listed for the events of X are  *)
(* in the plugin, those of F left out.                                     *)
Agree(c, K, X, F) ==
    /\ c \notin SdkClients => known[c] = K
    /\ NoFilterFaults => \A f \in Filters \ F :
         eventFilters[c][f] > 0 /\ EventOf[f] \in X => <<c, f>> \in plugin

Settled(c) == Agree(c, subEvents[c], subEvents[c], {})

(* How far the call of a thread has got with the records of its client.    *)
CallOK(t) ==
    LET c == job[t].client
        e == job[t].event
        f == job[t].filter
        s == subEvents[c]
    IN  /\ pc[t] \in {"create", "mute", "record", "unmute"} => Settled(c)
        /\ pc[t] \in Subscribing => c \in sessions /\ e \in s /\ Agree(c, s \ {e}, s, job[t].mutes)
        /\ pc[t] = "undoSubscribe" => c \in sessions /\ e \in s /\ Agree(c, s \ {e}, s \ {e}, {})
        /\ pc[t] \in {"remute", "remuting"} => Kind[e] # "unknown"
        /\ pc[t] \in Unsubscribing /\ job[t].op # "DestoryClient" =>
             /\ c \in sessions /\ e \in Events \ s /\ Agree(c, s \cup {e}, s \cup {e}, {})
             /\ given[<<c, e>>] = 0
        /\ job[t].op = "DestoryClient" => c \notin sessions /\ Settled(c)
        /\ pc[t] \in {"mute", "record"} => eventFilters[c][f] = 0
        /\ pc[t] = "record" => f \in Filters /\ <<c, f>> \in plugin
        /\ pc[t] = "erase" => Agree(c, s, s, {f})

LiveOK(c) ==
    /\ \A t \in Threads : job[t].client = c => CallOK(t)
    /\ (\A t \in Threads : job[t].client # c) => Settled(c)

(* Nothing is left of a client that died, and nothing more is recorded: a  *)
(* late CreatClient gives it a session, which no call finds.               *)
DeadOK(c) ==
    /\ subEvents[c] = {} /\ \A e \in Events : given[<<c, e>>] = 0
    /\ \A t \in Threads : job[t].client = c /\ job[t].op \notin {"CreatClient", "RemoteDied"}
         => c \notin sessions

(* A sticky event given to a standing subscription is marked; a filter is  *)
(* listed once; the old interface has none.                                *)
MarksOK(c) ==
    /\ \A e \in Events : /\ given[<<c, e>>] <= 1
                         /\ given[<<c, e>>] > 0 /\ e \in subEvents[c] => <<c, e>> \in reportedSticky
    /\ \A f \in Filters : eventFilters[c][f] <= 1
    /\ c \in SdkClients => eventFilters[c] = NoFilters

Calls(t, c) == job[t].client = c /\ job[t].op # "RemoteDied"

(* One call of a client at a time, and the notice of its death.            *)
Alone ==
    /\ \A t, u \in Threads, c \in Clients : Calls(t, c) /\ Calls(u, c) => t = u
    /\ \A t \in Threads : job[t].op = "RemoteDied" => job[t].client \in dead

RecordInv ==
    /\ \A t \in Threads : OpOK(pc[t], job[t])
    /\ Alone
    /\ \A c \in Clients : MarksOK(c) /\ (c \in dead => DeadOK(c)) /\ (c \notin dead => LiveOK(c))

-------------------------------------------------------------------------------
(* A step of a thread for one client                                       *)

(* Nothing that concerns another client than c changes.                    *)
Apart(c) ==
    \A d \in Clients \ {c} :
        /\ d \in sessions' <=> d \in sessions
        /\ d \in dead' <=> d \in dead
        /\ subEvents'[d] = subEvents[d] /\ eventFilters'[d] = eventFilters[d]
        /\ known'[d] = known[d]
        /\ \A e \in Events : /\ given'[<<d, e>>] = given[<<d, e>>]
                             /\ <<d, e>> \in reportedSticky' <=> <<d, e>> \in reportedSticky
        /\ \A f \in Filters : <<d, f>> \in plugin' <=> <<d, f>> \in plugin

(* The thread serves c or nobody, before and after, and serves one call.   *)
ServesOne(t, c) ==
    /\ Moves(t) /\ OpOK(pc'[t], job'[t])
    /\ job[t].client \in {c, Nil} /\ job'[t].client \in {c, Nil}
    /\ job'[t].op = "RemoteDied" => job'[t].client = c /\ c \in dead'
    /\ Calls(t, c)' => Calls(t, c) \/ \A u \in Threads : job[u].client # c

(* What holds of the other clients goes on to hold.                        *)
LEMMA OthersKeep ==
    ASSUME RecordInv, NEW c \in Clients, Apart(c), NEW d \in Clients \ {c},
           \A u \in Threads : /\ job'[u].client = d <=> job[u].client = d
                              /\ job[u].client = d => pc'[u] = pc[u] /\ job'[u] = job[u]
    PROVE  MarksOK(d)' /\ (d \in dead' => DeadOK(d)') /\ (d \notin dead' => LiveOK(d)')
<1>1. /\ MarksOK(d) /\ (d \in dead => DeadOK(d)) /\ (d \notin dead => LiveOK(d))
      /\ d \in dead' <=> d \in dead
  BY DEF RecordInv, Apart
<1>2. MarksOK(d)'
  BY <1>1 DEF MarksOK, Apart
<1>3. d \in dead' => DeadOK(d)'
  BY <1>1 DEF DeadOK, Apart
<1>4. \A K, X, F : Agree(d, K, X, F)' <=> Agree(d, K, X, F)
  BY DEF Agree, Apart
<1>5. Settled(d)' <=> Settled(d)
  BY <1>4 DEF Settled, Apart
<1>6. ASSUME NEW u \in Threads, job[u].client = d, CallOK(u)
      PROVE  CallOK(u)'
  <2>1. /\ pc'[u] = pc[u] /\ job'[u] = job[u]
        /\ subEvents'[d] = subEvents[d] /\ eventFilters'[d] = eventFilters[d]
        /\ d \in sessions' <=> d \in sessions
    BY <1>6 DEF Apart
  <2>2. /\ \A e \in Events : given'[<<d, e>>] = given[<<d, e>>]
        /\ \A f \in Filters : <<d, f>> \in plugin' <=> <<d, f>> \in plugin
    BY DEF Apart
  <2>3. pc[u] \in Unsubscribing /\ job[u].op # "DestoryClient" => job[u].event \in Events
    BY <1>6 DEF CallOK
  <2>4. pc[u] = "record" => job[u].filter \in Filters
    BY <1>6 DEF CallOK
  <2> QED
    BY <1>4, <1>5, <1>6, <2>1, <2>2, <2>3, <2>4 DEF CallOK
<1>7. d \notin dead' => LiveOK(d)'
  BY <1>1, <1>5, <1>6 DEF LiveOK
<1> QED
  BY <1>2, <1>3, <1>7

LEMMA StepKeeps ==
    ASSUME TypeInv, RecordInv, NEW t \in Threads, NEW c \in Clients,
           ServesOne(t, c), Apart(c), dead \subseteq dead', MarksOK(c)',
           c \in dead' => DeadOK(c)',
           c \notin dead' => /\ \A u \in Threads \ {t} : job[u].client # c
                             /\ IF job'[t].client = c THEN CallOK(t)' ELSE Settled(c)'
    PROVE  RecordInv'
<1>0. /\ \A u \in Threads \ {t} : pc'[u] = pc[u] /\ job'[u] = job[u]
      /\ Nil \notin Clients
  BY ClientAssumption DEF ServesOne, Moves
<1>1. \A u \in Threads : OpOK(pc'[u], job'[u])
  BY <1>0 DEF RecordInv, ServesOne
<1>2. Alone'
  <2>1. ASSUME NEW u \in Threads, NEW v \in Threads, NEW d \in Clients, Calls(u, d)', Calls(v, d)'
        PROVE  u = v
    <3>1. CASE u # t /\ v # t
      BY <1>0, <2>1, <3>1 DEF Calls, RecordInv, Alone
    <3>2. ASSUME NEW w \in Threads, w # t, Calls(w, d)', Calls(t, d)'
          PROVE  FALSE
      <4>1. d = c /\ Calls(w, d)
        BY <1>0, <3>2 DEF ServesOne, Calls
      <4> QED
        BY <3>2, <4>1 DEF ServesOne, Calls, RecordInv, Alone
    <3> QED
      BY <2>1, <3>1, <3>2
  <2>2. ASSUME NEW u \in Threads, job'[u].op = "RemoteDied"
        PROVE  job'[u].client \in dead'
    BY <1>0, <2>2 DEF ServesOne, RecordInv, Alone
  <2> QED
    BY <2>1, <2>2 DEF Alone
<1>3. ASSUME NEW d \in Clients \ {c}
      PROVE  MarksOK(d)' /\ (d \in dead' => DeadOK(d)') /\ (d \notin dead' => LiveOK(d)')
  BY <1>0, OthersKeep DEF ServesOne
<1>4. c \notin dead' => LiveOK(c)'
  BY <1>0 DEF LiveOK
<1>5. \A d \in Clients : MarksOK(d)' /\ (d \in dead' => DeadOK(d)') /\ (d \notin dead' => LiveOK(d)')
  BY <1>3, <1>4
<1> QED
  BY <1>1, <1>2, <1>5 DEF RecordInv

(* Whose call a thread serves, and that no other serves the client.        *)
LEMMA ServedClient ==
    ASSUME TypeInv, RecordInv, NEW t \in Threads, pc[t] # "idle"
    PROVE  /\ job[t].client \in Clients /\ Nil \notin Clients
           /\ OpOK(pc[t], job[t]) /\ MarksOK(job[t].client)
           /\ job[t].client \in dead => DeadOK(job[t].client)
           /\ job[t].client \notin dead =>
                /\ CallOK(t) /\ job[t].op # "RemoteDied"
                /\ \A u \in Threads \ {t} : job[u].client # job[t].client
<1>1. job[t].client \in Clients /\ Nil \notin Clients
  BY TypeFacts, ClientAssumption DEF LocalOK
<1>2. \A u \in Threads : job[u].op = "RemoteDied" => job[u].client \in dead
  BY DEF RecordInv, Alone
<1> QED
  BY <1>1, <1>2 DEF RecordInv, LiveOK, Alone, Calls

(* A step that changes no record of its client.                            *)
LEMMA QuietKeeps ==
    ASSUME TypeInv, RecordInv, NEW t \in Threads, pc[t] # "idle", Moves(t),
           NEW c \in Clients, job[t].client = c,
           UNCHANGED <<sessionVars, reportedSticky, dead, known, given, plugin>>,
           OpOK(pc'[t], job'[t]),
           job'[t] = NoJob \/ (job'[t].client = c /\ job'[t].op = job[t].op),
           c \notin dead => IF job'[t] = NoJob THEN Settled(c) ELSE CallOK(t)'
    PROVE  RecordInv'
<1>1. /\ Nil \notin Clients /\ MarksOK(c) /\ (c \in dead => DeadOK(c))
      /\ c \notin dead => \A u \in Threads \ {t} : job[u].client # c
      /\ NoJob.client = Nil /\ NoJob.op = "none"
  BY ServedClient DEF NoJob, Call
<1>2. job'[t].op = "RemoteDied" => job[t].op = "RemoteDied" /\ job'[t].client = c /\ c \in dead
  BY <1>1 DEF RecordInv, Alone
<1>3. ServesOne(t, c)
  BY <1>1, <1>2 DEF ServesOne, Calls
<1>4. Apart(c) /\ MarksOK(c)' /\ (Settled(c)' <=> Settled(c))
  BY <1>1 DEF Apart, MarksOK, Settled, Agree
<1>5. c \in dead' => DeadOK(c)'
  <2>1. \A u \in Threads : job'[u].client = c => job[u].client = c /\ job'[u].op = job[u].op
    BY <1>1 DEF Moves
  <2> QED
    BY <1>1, <2>1 DEF DeadOK
<1>6. c \notin dead' => /\ \A u \in Threads \ {t} : job[u].client # c
                        /\ IF job'[t].client = c THEN CallOK(t)' ELSE Settled(c)'
  BY <1>1, <1>4
<1> QED
  BY <1>3, <1>4, <1>5, <1>6, StepKeeps

(* The end of a subscription, when the filters it found in the session but *)
(* those of M are in the plugin, or on to these.                           *)
LEMMA ConfirmKeeps ==
    ASSUME TypeInv, RecordInv, NEW t \in Threads, pc[t] \in Subscribing,
           NEW c \in Clients, job[t].client = c, NEW M \in SUBSET job[t].mutes,
           ApplyMutes(t, M),
           UNCHANGED <<sessionVars, reportedSticky, dead, given>>,
           plugin \subseteq plugin', \A h \in plugin' \ plugin : h[1] = c,
           c \notin dead => /\ Kind[job[t].event] # "unknown"
                            /\ NoFilterFaults => \A f \in job[t].mutes \ M :
                                 eventFilters[c][f] > 0 => <<c, f>> \in plugin'
    PROVE  RecordInv'
<1> DEFINE e == job[t].event
           j == [job[t] EXCEPT !.mutes = M, !.filter = Nil]
<1>1. /\ Nil \notin Clients /\ MarksOK(c) /\ (c \in dead => DeadOK(c)) /\ OpOK(pc[t], job[t])
      /\ c \notin dead => CallOK(t) /\ \A u \in Threads \ {t} : job[u].client # c
      /\ NoJob.client = Nil /\ NoJob.op = "none" /\ NoJob.mutes = {}
      /\ job[t] \in Jobs /\ JobsTyped /\ DataOK
  BY ServedClient, TypeFacts DEF NoJob, Call, Subscribing
<1>2. /\ j.client = c /\ j.op = job[t].op /\ j.event = e /\ j.mutes = M
      /\ j.created = job[t].created /\ job[t].op \in {"Subscribe", "SubscribeInfo"}
  BY <1>1 DEF Jobs, OpOK, Subscribing
<1>3. /\ Moves(t)
      /\ \/ M # {} /\ pc'[t] = "remute" /\ job'[t] = j /\ known' = known
         \/ /\ M = {} /\ pc'[t] = "idle" /\ job'[t] = NoJob
            /\ known' = [known EXCEPT ![c] = IF job[t].op = "Subscribe" THEN @ \cup {e} ELSE @]
  <2>1. CASE M # {} /\ Goto(t, "remute", j) /\ UNCHANGED <<known, held>>
    <3> HIDE DEF j
    <3> QED
      BY <1>1, <2>1, GotoMoves
  <2>2. CASE M = {} /\ Subscribed(t)
    BY <1>1, <2>2, ReturnMoves DEF Subscribed
  <2> QED
    BY <2>1, <2>2 DEF ApplyMutes
<1> HIDE DEF e, j
<1>4. OpOK(pc'[t], job'[t])
  BY <1>1, <1>2, <1>3 DEF OpOK, Subscribing, e
<1>5. ServesOne(t, c)
  BY <1>1, <1>2, <1>3, <1>4 DEF ServesOne, Calls
<1>6. Apart(c)
  BY <1>1, <1>3 DEF Apart, DataOK
<1>7. MarksOK(c)'
  BY <1>1 DEF MarksOK
<1>8. c \in dead' => DeadOK(c)'
  <2>1. \A u \in Threads : job'[u].client = c => job[u].client = c /\ job'[u].op = job[u].op
    BY <1>1, <1>2, <1>3 DEF Moves
  <2> QED
    BY <1>1, <2>1 DEF DeadOK
<1>9. ASSUME c \notin dead'
      PROVE  IF job'[t].client = c THEN CallOK(t)' ELSE Settled(c)'
  <2>1. c \in sessions /\ e \in subEvents[c] /\ Agree(c, subEvents[c] \ {e}, subEvents[c], job[t].mutes)
    BY <1>1, <1>9 DEF CallOK, e
  <2>2. NoFilterFaults => \A f \in Filters \ M :
          eventFilters[c][f] > 0 /\ EventOf[f] \in subEvents[c] => <<c, f>> \in plugin'
    BY <1>9, <2>1 DEF Agree
  <2>3. CASE M # {}
    <3>1. pc'[t] = "remute" /\ job'[t] = j /\ known' = known
      BY <1>3, <2>3
    <3>2. c \notin SdkClients => known'[c] = subEvents[c] \ {e}
      BY <2>1, <3>1 DEF Agree
    <3>3. /\ job'[t].client = c /\ job'[t].event = e /\ job'[t].mutes = M
          /\ job'[t].op \in {"Subscribe", "SubscribeInfo"}
      BY <1>2, <3>1
    <3> QED
      BY <1>9, <2>1, <2>2, <3>1, <3>2, <3>3 DEF CallOK, Subscribing, Unsubscribing, Agree, e
  <2>4. CASE M = {}
    <3>1. job'[t].client # c
      BY <1>1, <1>3, <2>4
    <3>2. c \notin SdkClients => known'[c] = subEvents[c]
      <4>1. c \notin SdkClients => job[t].op = "Subscribe"
        BY <1>1, <1>2 DEF OpOK
      <4>2. known \in [Clients -> SUBSET Events]
        BY <1>1 DEF DataOK
      <4>3. c \notin SdkClients => known'[c] = known[c] \cup {e}
        BY <1>3, <2>4, <4>1, <4>2
      <4>4. c \notin SdkClients => known[c] = subEvents[c] \ {e}
        BY <2>1 DEF Agree
      <4> QED
        BY <2>1, <4>3, <4>4
    <3> QED
      BY <2>2, <2>4, <3>1, <3>2 DEF Settled, Agree
  <2> QED
    BY <2>3, <2>4
<1> QED
  BY <1>1, <1>5, <1>6, <1>7, <1>8, <1>9, StepKeeps
-------------------------------------------------------------------------------
(* The steps of a subscription                                             *)

LEMMA SubscribeScIfNeededRecords ==
    ASSUME TypeInv, RecordInv, NEW t \in Threads, SubscribeScIfNeeded(t)
    PROVE  RecordInv'
<1>1. PICK c \in Clients : c = job[t].client
  BY ServedClient DEF SubscribeScIfNeeded
<1>2. /\ pc[t] = "subscribe" /\ OpOK(pc[t], job[t]) /\ JobsTyped /\ job[t].mutes \in SUBSET Filters
      /\ c \notin dead => CallOK(t)
      /\ UNCHANGED <<sessionVars, reportedSticky, plugin, dead, given>>
  BY <1>1, ServedClient, TypeFacts DEF SubscribeScIfNeeded, Jobs
<1>3. CASE Goto(t, "subscribing", job[t]) /\ UNCHANGED <<known, held>>
  <2>1. Moves(t) /\ pc'[t] = "subscribing" /\ job'[t] = job[t]
    BY <1>2, <1>3, GotoMoves
  <2>2. OpOK(pc'[t], job'[t])
    BY <1>2, <2>1 DEF OpOK, Subscribing
  <2>3. c \notin dead => CallOK(t)'
    BY <1>1, <1>2, <1>3, <2>1 DEF CallOK, Agree, Settled, Subscribing, Unsubscribing
  <2>4. job'[t] # NoJob
    BY <1>1, <2>1, ClientAssumption DEF NoJob, Call
  <2> QED
    BY <1>1, <1>2, <1>3, <2>1, <2>2, <2>3, <2>4, QuietKeeps
<1>4. CASE ~IsAnySessionSubscribes(job[t].event) /\ ApplyMutes(t, job[t].mutes)
  <2>1. c \in dead
    BY <1>1, <1>2, <1>4 DEF CallOK, IsAnySessionSubscribes, Subscribing
  <2> QED
    BY <1>1, <1>2, <1>4, <2>1, ConfirmKeeps DEF Subscribing
<1> QED
  BY <1>3, <1>4 DEF SubscribeScIfNeeded

LEMMA SubscribeScDoneRecords ==
    ASSUME TypeInv, RecordInv, NEW t \in Threads, SubscribeScDone(t)
    PROVE  RecordInv'
<1>1. PICK c \in Clients : c = job[t].client
  BY ServedClient DEF SubscribeScDone
<1>2. /\ pc[t] = "subscribing" /\ OpOK(pc[t], job[t]) /\ JobsTyped /\ job[t].mutes \in SUBSET Filters
      /\ c \notin dead => CallOK(t)
      /\ UNCHANGED <<sessionVars, reportedSticky, plugin, dead, given>>
  BY <1>1, ServedClient, TypeFacts DEF SubscribeScDone, Jobs
<1>3. CASE Goto(t, "undoSubscribe", job[t]) /\ UNCHANGED <<known, held>>
  <2>1. Moves(t) /\ pc'[t] = "undoSubscribe" /\ job'[t] = job[t]
    BY <1>2, <1>3, GotoMoves
  <2>2. OpOK(pc'[t], job'[t])
    BY <1>2, <2>1 DEF OpOK, Subscribing
  <2>3. \A f \in job[t].mutes : EventOf[f] = job[t].event
    BY <1>2 DEF OpOK, Subscribing
  <2>4. c \notin dead => CallOK(t)'
    BY <1>1, <1>2, <1>3, <2>1, <2>2, <2>3 DEF CallOK, Agree, Settled, Subscribing, Unsubscribing, OpOK
  <2>5. job'[t] # NoJob
    BY <1>1, <2>1, ClientAssumption DEF NoJob, Call
  <2> QED
    BY <1>1, <1>2, <1>3, <2>1, <2>2, <2>4, <2>5, QuietKeeps
<1>4. CASE SubscribeSc(job[t].event, TRUE) /\ ApplyMutes(t, job[t].mutes)
  <2>1. Kind[job[t].event] # "unknown"
    BY <1>4 DEF SubscribeSc
  <2> QED
    BY <1>1, <1>2, <1>4, <2>1, ConfirmKeeps DEF Subscribing
<1> QED
  BY <1>3, <1>4 DEF SubscribeScDone

(* The rollback.                                                           *)
LEMMA UndoSubscribeRecords ==
    ASSUME TypeInv, RecordInv, NEW t \in Threads, UndoSubscribe(t)
    PROVE  RecordInv'
<1>1. PICK c \in Clients : c = job[t].client
  BY ServedClient DEF UndoSubscribe
<1>2. /\ pc[t] = "undoSubscribe" /\ OpOK(pc[t], job[t]) /\ JobsTyped /\ DataOK
      /\ Nil \notin Clients /\ MarksOK(c) /\ (c \in dead => DeadOK(c))
      /\ c \notin dead => CallOK(t) /\ \A u \in Threads \ {t} : job[u].client # c
  BY <1>1, ServedClient, TypeFacts DEF UndoSubscribe
<1>3. /\ Moves(t) /\ pc'[t] = "idle" /\ job'[t] = NoJob
      /\ UNCHANGED <<reportedSticky, plugin, dead, known, given>>
      /\ NoJob.client = Nil /\ NoJob.op = "none" /\ OpOK("idle", NoJob)
  BY <1>2, ReturnMoves DEF UndoSubscribe, NoJob, Call, OpOK, Subscribing
<1>4. /\ \A d \in Clients \ {c} : /\ d \in sessions' <=> d \in sessions
                                  /\ subEvents'[d] = subEvents[d] /\ eventFilters'[d] = eventFilters[d]
      /\ c \in sessions' => c \in sessions
      /\ subEvents'[c] = subEvents[c] \ {job[t].event}
      /\ \/ eventFilters'[c] = eventFilters[c]
         \/ eventFilters'[c] = NoFilters /\ subEvents'[c] = {}
  BY <1>1, <1>2 DEF UndoSubscribe, EraseSession, DataOK
<1>5. ServesOne(t, c) /\ Apart(c)
  BY <1>1, <1>2, <1>3, <1>4 DEF ServesOne, Calls, Apart
<1>6. MarksOK(c)'
  BY <1>2, <1>3, <1>4 DEF MarksOK, NoFilters
<1>7. c \in dead' => DeadOK(c)'
  BY <1>1, <1>2, <1>3, <1>4 DEF DeadOK, Moves
<1>8. c \notin dead' => Settled(c)'
  BY <1>1, <1>2, <1>3, <1>4 DEF CallOK, Settled, Agree, NoFilters
<1> QED
  BY <1>2, <1>3, <1>5, <1>6, <1>7, <1>8, StepKeeps

(* The filters of the snapshot.                                            *)
LEMMA RecheckMuteRecords ==
    ASSUME TypeInv, RecordInv, NEW t \in Threads, RecheckMute(t)
    PROVE  RecordInv'
<1>1. PICK c \in Clients : c = job[t].client
  BY ServedClient DEF RecheckMute
<1>2. /\ pc[t] = "remute" /\ OpOK(pc[t], job[t]) /\ JobsTyped /\ job[t] \in Jobs
      /\ c \notin dead => CallOK(t)
      /\ UNCHANGED <<sessionVars, reportedSticky, plugin, dead, given>>
  BY <1>1, ServedClient, TypeFacts DEF RecheckMute
<1>3. PICK f \in job[t].mutes :
        IF IsFilterInSession(c, f)
        THEN Goto(t, "remuting", [job[t] EXCEPT !.filter = f]) /\ UNCHANGED <<known, held>>
        ELSE ApplyMutes(t, job[t].mutes \ {f})
  BY <1>1 DEF RecheckMute
<1>4. CASE IsFilterInSession(c, f)
  <2> DEFINE j == [job[t] EXCEPT !.filter = f]
  <2>1. /\ j.client = c /\ j.op = job[t].op /\ j.event = job[t].event /\ j.mutes = job[t].mutes
        /\ j.created = job[t].created /\ j.filter = f
        /\ job[t].op \in {"Subscribe", "SubscribeInfo"}
    BY <1>1, <1>2 DEF Jobs, OpOK, Subscribing
  <2>2. Goto(t, "remuting", j) /\ known' = known
    BY <1>3, <1>4
  <2> HIDE DEF j
  <2>3. Moves(t) /\ pc'[t] = "remuting" /\ job'[t] = j
    BY <1>2, <2>2, GotoMoves
  <2>4. OpOK(pc'[t], job'[t])
    BY <1>1, <1>2, <2>1, <2>3 DEF OpOK, Subscribing
  <2>5. ASSUME c \notin dead PROVE CallOK(t)'
    BY <1>1, <1>2, <2>1, <2>2, <2>3, <2>5 DEF CallOK, Agree, Subscribing, Unsubscribing
  <2>6. job'[t] # NoJob
    BY <2>1, <2>3, ClientAssumption DEF NoJob, Call
  <2> QED
    BY <1>1, <1>2, <2>1, <2>2, <2>3, <2>4, <2>5, <2>6, QuietKeeps
<1>5. CASE ~IsFilterInSession(c, f)
  <2>1. c \notin dead => c \in sessions /\ eventFilters[c][f] <= 0 /\ Kind[job[t].event] # "unknown"
    <3>1. f \in Filters /\ DataOK
      BY <1>2, TypeFacts DEF Jobs
    <3>2. eventFilters[c][f] \in Nat
      BY <3>1 DEF DataOK
    <3> QED
      BY <1>1, <1>2, <1>5, <3>2 DEF CallOK, IsFilterInSession, Subscribing
  <2>2. ApplyMutes(t, job[t].mutes \ {f}) /\ job[t].mutes \ {f} \in SUBSET job[t].mutes
    BY <1>3, <1>5
  <2>3. c \notin dead => \A g \in job[t].mutes \ (job[t].mutes \ {f}) : ~(eventFilters[c][g] > 0)
    <3>1. f \in Filters /\ DataOK
      BY <1>2, TypeFacts DEF Jobs
    <3>2. eventFilters[c][f] \in Nat
      BY <3>1 DEF DataOK
    <3> QED
      BY <2>1, <3>2
  <2> QED
    BY <1>1, <1>2, <2>1, <2>2, <2>3, ConfirmKeeps DEF Subscribing
<1> QED
  BY <1>4, <1>5

LEMMA RemuteRecords ==
    ASSUME TypeInv, RecordInv, NEW t \in Threads, Remute(t)
    PROVE  RecordInv'
<1>1. PICK c \in Clients : c = job[t].client
  BY ServedClient DEF Remute
<1>2. /\ pc[t] = "remuting" /\ OpOK(pc[t], job[t]) /\ JobsTyped /\ job[t] \in Jobs
      /\ c \notin dead => CallOK(t)
      /\ UNCHANGED <<sessionVars, reportedSticky, dead, given>>
      /\ ApplyMutes(t, job[t].mutes \ {job[t].filter})
  BY <1>1, ServedClient, TypeFacts DEF Remute
<1>3. PICK ok \in BOOLEAN : InsertMute(c, job[t].filter, ok)
  BY <1>1 DEF Remute
<1>4. /\ plugin \subseteq plugin' /\ \A h \in plugin' \ plugin : h[1] = c
      /\ NoFilterFaults /\ Kind[EventOf[job[t].filter]] # "unknown" => <<c, job[t].filter>> \in plugin'
  BY <1>3 DEF InsertMute, NoFilterFaults
<1>5. EventOf[job[t].filter] = job[t].event
  BY <1>2 DEF OpOK, Subscribing
<1>6. c \notin dead => Kind[job[t].event] # "unknown"
  BY <1>1, <1>2 DEF CallOK
<1>7. job[t].mutes \ {job[t].filter} \in SUBSET job[t].mutes
  OBVIOUS
<1> QED
  BY <1>1, <1>2, <1>4, <1>5, <1>6, <1>7, ConfirmKeeps DEF Subscribing
-------------------------------------------------------------------------------
(* The end of a call.                                                      *)
LEMMA ReturnKeeps ==
    ASSUME TypeInv, RecordInv, NEW t \in Threads, pc[t] # "idle", Return(t),
           NEW c \in Clients, job[t].client = c, Apart(c), dead' = dead, MarksOK(c)',
           c \in dead => DeadOK(c)', c \notin dead => Settled(c)'
    PROVE  RecordInv'
<1>1. /\ Nil \notin Clients /\ JobsTyped
      /\ c \notin dead => \A u \in Threads \ {t} : job[u].client # c
  BY ServedClient, TypeFacts
<1>2. /\ Moves(t) /\ pc'[t] = "idle" /\ job'[t] = NoJob
      /\ NoJob.client = Nil /\ NoJob.op = "none" /\ OpOK("idle", NoJob)
  BY <1>1, ReturnMoves DEF NoJob, Call, OpOK, Subscribing
<1>3. ServesOne(t, c)
  BY <1>1, <1>2 DEF ServesOne, Calls
<1> QED
  BY <1>1, <1>2, <1>3, StepKeeps

LEMMA CreatClientInsertRecords ==
    ASSUME TypeInv, RecordInv, NEW t \in Threads, CreatClientInsert(t)
    PROVE  RecordInv'
<1>1. PICK c \in Clients : c = job[t].client
  BY ServedClient DEF CreatClientInsert
<1>2. /\ pc[t] = "create" /\ OpOK(pc[t], job[t]) /\ JobsTyped /\ MarksOK(c)
      /\ (c \in dead => DeadOK(c)) /\ (c \notin dead => CallOK(t))
      /\ Return(t) /\ sessions' = sessions \cup {c}
      /\ UNCHANGED <<subEvents, eventFilters, reportedSticky, plugin, dead, known, given>>
  BY <1>1, ServedClient, TypeFacts DEF CreatClientInsert
<1>3. Apart(c) /\ MarksOK(c)'
  BY <1>2 DEF Apart, MarksOK
<1>4. \A u \in Threads : Calls(u, c) => u = t
  BY <1>1, <1>2 DEF RecordInv, Alone, Calls, OpOK
<1>5. c \in dead => DeadOK(c)'
  <2>1. Moves(t) /\ job'[t].client = Nil /\ Nil \notin Clients
    BY <1>2, ReturnMoves, ClientAssumption
  <2> QED
    BY <1>2, <1>4, <2>1 DEF DeadOK, Moves, Calls
<1>6. c \notin dead => Settled(c)'
  BY <1>1, <1>2 DEF CallOK, Settled, Agree
<1> QED
  BY <1>1, <1>2, <1>3, <1>5, <1>6, ReturnKeeps

(* Nothing of a dead client is left for a call that returns to it.         *)
LEMMA DeadStays ==
    ASSUME TypeInv, RecordInv, NEW t \in Threads, pc[t] # "idle", Return(t),
           NEW c \in dead, job[t].client = c, UNCHANGED <<subEvents, given>>,
           c \in sessions' => c \in sessions
    PROVE  DeadOK(c)'
<1>1. c \in Clients /\ DeadOK(c) /\ JobsTyped /\ Nil \notin Clients
  BY ServedClient, TypeFacts
<1>2. Moves(t) /\ job'[t].client = Nil
  BY <1>1, ReturnMoves
<1> QED
  BY <1>1, <1>2 DEF DeadOK, Moves

-------------------------------------------------------------------------------
(* The steps of a release                                                  *)

LEMMA ReleasedRecords ==
    ASSUME TypeInv, RecordInv, NEW t \in Threads, pc[t] \in {"unsubscribe", "unsubscribing"},
           NEW e \in job[t].todo, NEW ok, Released(t, e, ok),
           UNCHANGED <<sessionVars, reportedSticky, plugin, historyVars>>
    PROVE  RecordInv'
<1> DEFINE j == [job[t] EXCEPT !.todo = @ \ {e}, !.event = Nil]
           k == [j EXCEPT !.event = e]
<1>1. PICK c \in Clients : c = job[t].client
  BY ServedClient
<1>2. /\ OpOK(pc[t], job[t]) /\ JobsTyped /\ job[t] \in Jobs /\ Nil \notin Clients
      /\ LocalOK(pc[t], job[t])
      /\ c \notin dead => CallOK(t) /\ job[t].op # "RemoteDied"
  BY <1>1, ServedClient, TypeFacts
<1>3. /\ j.client = c /\ j.op = job[t].op /\ j.mutes = job[t].mutes /\ j.created = job[t].created
      /\ k.client = c /\ k.op = job[t].op /\ k.mutes = job[t].mutes /\ k.created = job[t].created
      /\ k.event = e
  BY <1>1, <1>2 DEF Jobs
<1>4. \/ /\ job[t].op \in {"Unsubscribe", "UnsubscribeInfo"}
         /\ Goto(t, "cleanup", k) \/ Goto(t, "undoUnsubscribe", k)
      \/ /\ job[t].op \in {"DestoryClient", "RemoteDied"}
         /\ Goto(t, "unsubscribe", j) \/ (j.mutes # {} /\ Goto(t, "unmuteAll", j)) \/ Return(t)
  BY <1>2, <1>3 DEF Released, OpOK
<1> HIDE DEF j, k
<1>5. CASE /\ job[t].op \in {"Unsubscribe", "UnsubscribeInfo"}
           /\ Goto(t, "cleanup", k) \/ Goto(t, "undoUnsubscribe", k)
  <2>1. Moves(t) /\ pc'[t] \in {"cleanup", "undoUnsubscribe"} /\ job'[t] = k
    BY <1>2, <1>5, GotoMoves
  <2>2. job[t].event = e
    BY <1>2, <1>5 DEF LocalOK, Releasing
  <2>3. OpOK(pc'[t], job'[t])
    BY <1>1, <1>2, <1>3, <1>5, <2>1 DEF OpOK, Subscribing
  <2>4. c \notin dead => CallOK(t)'
    BY <1>1, <1>2, <1>3, <1>5, <2>1, <2>2 DEF CallOK, Agree, Subscribing, Unsubscribing
  <2>5. job'[t] # NoJob
    BY <1>2, <1>3, <2>1 DEF NoJob, Call
  <2> QED
    BY <1>1, <1>3, <2>1, <2>3, <2>4, <2>5, QuietKeeps
<1>6. CASE /\ job[t].op \in {"DestoryClient", "RemoteDied"}
           /\ Goto(t, "unsubscribe", j) \/ (j.mutes # {} /\ Goto(t, "unmuteAll", j))
  <2>1. /\ Moves(t) /\ job'[t] = j
        /\ pc'[t] = "unsubscribe" \/ (pc'[t] = "unmuteAll" /\ j.mutes # {})
    BY <1>2, <1>6, GotoMoves
  <2>2. OpOK(pc'[t], job'[t])
    BY <1>1, <1>2, <1>3, <1>6, <2>1 DEF OpOK, Subscribing
  <2>3. c \notin dead => CallOK(t)'
    <3>1. c \notin dead => c \notin sessions /\ Settled(c) /\ job[t].op = "DestoryClient"
      BY <1>1, <1>2, <1>6 DEF CallOK
    <3>2. Settled(c)' <=> Settled(c)
      BY DEF Settled, Agree
    <3> QED
      BY <1>3, <2>1, <3>1, <3>2 DEF CallOK, Subscribing, Unsubscribing
  <2>4. job'[t] # NoJob
    BY <1>2, <1>3, <2>1 DEF NoJob, Call
  <2> QED
    BY <1>1, <1>3, <2>1, <2>2, <2>3, <2>4, QuietKeeps
<1>7. CASE job[t].op \in {"DestoryClient", "RemoteDied"} /\ Return(t)
  <2>1. Moves(t) /\ pc'[t] = "idle" /\ job'[t] = NoJob /\ OpOK("idle", NoJob)
    BY <1>2, <1>7, ReturnMoves DEF OpOK, NoJob, Call, Subscribing
  <2>2. c \notin dead => Settled(c)
    BY <1>1, <1>2, <1>7 DEF CallOK
  <2> QED
    BY <1>1, <2>1, <2>2, QuietKeeps
<1> QED
  BY <1>4, <1>5, <1>6, <1>7

LEMMA UnSubscribeScIfLastRecords ==
    ASSUME TypeInv, RecordInv, NEW t \in Threads, UnSubscribeScIfLast(t)
    PROVE  RecordInv'
<1>1. PICK c \in Clients : c = job[t].client
  BY ServedClient DEF UnSubscribeScIfLast
<1>2. /\ pc[t] = "unsubscribe" /\ OpOK(pc[t], job[t]) /\ JobsTyped /\ job[t] \in Jobs
      /\ LocalOK(pc[t], job[t]) /\ Nil \notin Clients
      /\ c \notin dead => CallOK(t)
      /\ UNCHANGED <<sessionVars, reportedSticky, plugin, historyVars>>
  BY <1>1, ServedClient, TypeFacts DEF UnSubscribeScIfLast
<1>3. PICK e \in job[t].todo : \/ Goto(t, "unsubscribing", [job[t] EXCEPT !.event = e])
                               \/ Released(t, e, TRUE)
  BY DEF UnSubscribeScIfLast
<1>4. CASE Goto(t, "unsubscribing", [job[t] EXCEPT !.event = e])
  <2> DEFINE j == [job[t] EXCEPT !.event = e]
  <2>1. /\ j.client = c /\ j.op = job[t].op /\ j.mutes = job[t].mutes
        /\ j.created = job[t].created /\ j.event = e
    BY <1>1, <1>2 DEF Jobs
  <2>2. Goto(t, "unsubscribing", j)
    BY <1>4
  <2> HIDE DEF j
  <2>3. Moves(t) /\ pc'[t] = "unsubscribing" /\ job'[t] = j
    BY <1>2, <2>2, GotoMoves
  <2>4. OpOK(pc'[t], job'[t])
    BY <1>1, <1>2, <2>1, <2>3 DEF OpOK, Subscribing
  <2>5. ASSUME c \notin dead PROVE CallOK(t)'
    <3>1. job[t].op \in {"Unsubscribe", "UnsubscribeInfo"} => e = job[t].event
      BY <1>2 DEF LocalOK, Releasing
    <3>2. job[t].op \in {"Unsubscribe", "UnsubscribeInfo", "DestoryClient"}
      BY <1>1, <1>2, <2>5, ServedClient DEF OpOK
    <3> QED
      BY <1>1, <1>2, <2>1, <2>3, <2>5, <3>1, <3>2
      DEF CallOK, Settled, Agree, Subscribing, Unsubscribing
  <2>6. job'[t] # NoJob
    BY <1>2, <2>1, <2>3 DEF NoJob, Call
  <2> QED
    BY <1>1, <1>2, <2>1, <2>3, <2>4, <2>5, <2>6, QuietKeeps
<1>5. CASE Released(t, e, TRUE)
  BY <1>2, <1>5, ReleasedRecords
<1> QED
  BY <1>3, <1>4, <1>5

LEMMA UnSubscribeScDoneRecords ==
    ASSUME TypeInv, RecordInv, NEW t \in Threads, UnSubscribeScDone(t)
    PROVE  RecordInv'
<1>1. pc[t] = "unsubscribing" /\ job[t].event \in job[t].todo
  BY TypeFacts DEF UnSubscribeScDone, LocalOK
<1>2. PICK e \in job[t].todo, ok \in BOOLEAN : Released(t, e, ok)
  BY <1>1 DEF UnSubscribeScDone
<1> QED
  BY <1>1, <1>2, ReleasedRecords DEF UnSubscribeScDone

LEMMA UndoUnsubscribeRecords ==
    ASSUME TypeInv, RecordInv, NEW t \in Threads, UndoUnsubscribe(t)
    PROVE  RecordInv'
<1>1. PICK c \in Clients : c = job[t].client
  BY ServedClient DEF UndoUnsubscribe
<1>2. /\ pc[t] = "undoUnsubscribe" /\ OpOK(pc[t], job[t]) /\ DataOK /\ MarksOK(c)
      /\ job[t].op \in {"Unsubscribe", "UnsubscribeInfo"} /\ Return(t)
      /\ (c \in dead => DeadOK(c)) /\ (c \notin dead => CallOK(t))
      /\ UNCHANGED <<sessions, eventFilters, reportedSticky, plugin, dead, known, given>>
  BY <1>1, ServedClient, TypeFacts DEF UndoUnsubscribe, OpOK
<1>3. /\ \A d \in Clients \ {c} : subEvents'[d] = subEvents[d]
      /\ c \in sessions => subEvents'[c] = subEvents[c] \cup {job[t].event}
      /\ c \notin sessions => subEvents' = subEvents
  BY <1>1, <1>2 DEF UndoUnsubscribe, DataOK
<1>4. /\ c \in dead => c \notin sessions
      /\ c \notin dead => /\ c \in sessions /\ given[<<c, job[t].event>>] = 0
                          /\ Agree(c, subEvents'[c], subEvents'[c], {})
  BY <1>1, <1>2, <1>3 DEF CallOK, DeadOK, Unsubscribing
<1>5. Apart(c)
  BY <1>2, <1>3 DEF Apart
<1>6. MarksOK(c)'
  BY <1>2, <1>3, <1>4 DEF MarksOK
<1>7. c \in dead => DeadOK(c)'
  BY <1>1, <1>2, <1>3, <1>4, DeadStays
<1>8. c \notin dead => Settled(c)'
  BY <1>2, <1>4 DEF Settled, Agree
<1> QED
  BY <1>1, <1>2, <1>5, <1>6, <1>7, <1>8, ReturnKeeps

LEMMA CleanupRecords ==
    ASSUME TypeInv, RecordInv, NEW t \in Threads, Cleanup(t)
    PROVE  RecordInv'
<1>1. PICK c \in Clients : c = job[t].client
  BY ServedClient DEF Cleanup
<1>2. PICK e \in Events : e = job[t].event
  BY TypeFacts DEF Cleanup, LocalOK
<1>3. /\ pc[t] = "cleanup" /\ OpOK(pc[t], job[t]) /\ DataOK /\ MarksOK(c) /\ Return(t)
      /\ (c \in dead => DeadOK(c)) /\ (c \notin dead => CallOK(t))
      /\ UNCHANGED <<plugin, dead, given>>
  BY <1>1, ServedClient, TypeFacts DEF Cleanup
<1>4. /\ \A d \in Clients \ {c} : /\ d \in sessions' <=> d \in sessions
                                  /\ subEvents'[d] = subEvents[d] /\ eventFilters'[d] = eventFilters[d]
                                  /\ known'[d] = known[d]
      /\ known'[c] = known[c] \ {e}
      /\ c \in sessions' => c \in sessions
      /\ subEvents' = subEvents
      /\ eventFilters'[c] = eventFilters[c] \/ eventFilters'[c] = NoFilters
      /\ \A r \in Clients \X Events : r # <<c, e>> => (r \in reportedSticky' <=> r \in reportedSticky)
  <2>1. CASE job[t].op = "UnsubscribeInfo" /\ subEvents[c] = {}
    <3>1. /\ subEvents' = [subEvents EXCEPT ![c] = {}]
          /\ sessions' = sessions \ {c} /\ eventFilters' = [eventFilters EXCEPT ![c] = NoFilters]
      BY <1>1, <1>3, <2>1 DEF Cleanup, EraseSession
    <3>2. subEvents' = subEvents
      BY <1>3, <2>1, <3>1 DEF DataOK
    <3>3. /\ known' = [known EXCEPT ![c] = @ \ {e}]
          /\ reportedSticky' = reportedSticky \ {<<c, e>>}
      BY <1>1, <1>2, <1>3, <2>1 DEF Cleanup
    <3> QED
      BY <1>3, <3>1, <3>2, <3>3 DEF DataOK
  <2>2. CASE ~(job[t].op = "UnsubscribeInfo" /\ subEvents[c] = {})
    BY <1>1, <1>2, <1>3, <2>2 DEF Cleanup, DataOK
  <2> QED
    BY <2>1, <2>2
<1>5. c \notin dead => e \notin subEvents[c] /\ Agree(c, subEvents[c] \cup {e}, subEvents[c] \cup {e}, {})
  BY <1>1, <1>2, <1>3 DEF CallOK, Unsubscribing, OpOK
<1>6. Apart(c)
  BY <1>3, <1>4 DEF Apart
<1>7. MarksOK(c)'
  <2>1. e \notin subEvents[c]
    BY <1>3, <1>5 DEF DeadOK
  <2> QED
    BY <1>3, <1>4, <2>1 DEF MarksOK, NoFilters
<1>8. c \in dead => DeadOK(c)'
  BY <1>1, <1>3, <1>4, DeadStays
<1>9. c \notin dead => Settled(c)'
  BY <1>3, <1>4, <1>5 DEF Settled, Agree, NoFilters
<1> QED
  BY <1>1, <1>3, <1>6, <1>7, <1>8, <1>9, ReturnKeeps
-------------------------------------------------------------------------------
(* The steps of the filters                                                *)

(* Only the plugin changes, for the client served, and the thread stays    *)
(* where it is, goes on, or returns.                                       *)
LEMMA PluginKeeps ==
    ASSUME TypeInv, RecordInv, NEW t \in Threads, pc[t] # "idle",
           NEW c \in Clients, job[t].client = c,
           UNCHANGED <<sessionVars, reportedSticky, dead, known, given>>,
           \A h \in (plugin' \ plugin) \cup (plugin \ plugin') : h[1] = c,
           \/ Return(t) /\ (c \notin dead => Settled(c)')
           \/ /\ Moves(t) /\ OpOK(pc'[t], job'[t])
              /\ job'[t].client = c /\ job'[t].op = job[t].op
              /\ c \notin dead => CallOK(t)'
    PROVE  RecordInv'
<1>1. /\ Nil \notin Clients /\ MarksOK(c) /\ (c \in dead => DeadOK(c)) /\ JobsTyped /\ DataOK
      /\ c \notin dead => \A u \in Threads \ {t} : job[u].client # c
  BY ServedClient, TypeFacts
<1>2. Apart(c) /\ MarksOK(c)'
  BY <1>1 DEF Apart, MarksOK, DataOK
<1>3. CASE Return(t) /\ (c \notin dead => Settled(c)')
  <2>1. c \in dead => DeadOK(c)'
    BY <1>3, DeadStays
  <2> QED
    BY <1>2, <1>3, <2>1, ReturnKeeps
<1>4. CASE /\ Moves(t) /\ OpOK(pc'[t], job'[t])
           /\ job'[t].client = c /\ job'[t].op = job[t].op
           /\ c \notin dead => CallOK(t)'
  <2>1. ServesOne(t, c)
    BY <1>4 DEF ServesOne, Calls, RecordInv, Alone
  <2>2. c \in dead' => DeadOK(c)'
    BY <1>1, <1>4 DEF DeadOK, Moves
  <2> QED
    BY <1>1, <1>2, <1>4, <2>1, <2>2, StepKeeps
<1> QED
  BY <1>3, <1>4

LEMMA PurgeRecords ==
    ASSUME TypeInv, RecordInv, NEW t \in Threads, Purge(t)
    PROVE  RecordInv'
<1>1. PICK c \in Clients : c = job[t].client
  BY ServedClient DEF Purge
<1>2. /\ pc[t] = "purge" /\ OpOK(pc[t], job[t]) /\ JobsTyped /\ c \in dead
      /\ plugin' = {p \in plugin : p[1] # c}
      /\ UNCHANGED <<sessionVars, reportedSticky, dead, known, given>>
  BY <1>1, ServedClient, TypeFacts DEF Purge, OpOK
<1>3. CASE Return(t)
  BY <1>1, <1>2, <1>3, PluginKeeps
<1>4. CASE Goto(t, "unsubscribe", job[t])
  <2>1. Moves(t) /\ pc'[t] = "unsubscribe" /\ job'[t] = job[t]
    BY <1>2, <1>4, GotoMoves
  <2>2. OpOK(pc'[t], job'[t])
    BY <1>2, <2>1 DEF OpOK, Subscribing
  <2> QED
    BY <1>1, <1>2, <2>1, <2>2, PluginKeeps
<1> QED
  BY <1>3, <1>4 DEF Purge

LEMMA UnmuteAllRecords ==
    ASSUME TypeInv, RecordInv, NEW t \in Threads, UnmuteAll(t)
    PROVE  RecordInv'
<1>1. PICK c \in Clients : c = job[t].client
  BY ServedClient DEF UnmuteAll
<1>2. /\ pc[t] = "unmuteAll" /\ OpOK(pc[t], job[t]) /\ JobsTyped /\ job[t] \in Jobs /\ DataOK
      /\ job[t].op = "DestoryClient"
      /\ c \notin dead => CallOK(t)
      /\ UNCHANGED <<sessionVars, reportedSticky, dead, known, given>>
  BY <1>1, ServedClient, TypeFacts DEF UnmuteAll, OpOK
<1>3. PICK f \in job[t].mutes :
        /\ \E ok \in BOOLEAN : RemoveMute(c, f, ok)
        /\ IF job[t].mutes = {f}
           THEN Return(t)
           ELSE Goto(t, "unmuteAll", [job[t] EXCEPT !.mutes = @ \ {f}])
  BY <1>1, <1>2 DEF UnmuteAll
<1>4. \A h \in (plugin' \ plugin) \cup (plugin \ plugin') : h[1] = c
  BY <1>3 DEF RemoveMute
<1>5. c \notin dead => c \notin sessions /\ Settled(c)'
  <2>1. c \notin dead => c \notin sessions /\ Settled(c)
    BY <1>1, <1>2 DEF CallOK
  <2>2. c \notin sessions => eventFilters[c] = NoFilters
    BY <1>2 DEF DataOK
  <2> QED
    BY <1>2, <2>1, <2>2 DEF Settled, Agree, NoFilters
<1>6. CASE Return(t)
  BY <1>1, <1>2, <1>4, <1>5, <1>6, PluginKeeps
<1>7. CASE Goto(t, "unmuteAll", [job[t] EXCEPT !.mutes = @ \ {f}])
  <2> DEFINE j == [job[t] EXCEPT !.mutes = @ \ {f}]
  <2>1. j.client = c /\ j.op = "DestoryClient" /\ j.created = job[t].created
    BY <1>1, <1>2 DEF Jobs
  <2>2. Goto(t, "unmuteAll", j)
    BY <1>7
  <2> HIDE DEF j
  <2>3. Moves(t) /\ pc'[t] = "unmuteAll" /\ job'[t] = j
    BY <1>2, <2>2, GotoMoves
  <2>4. OpOK(pc'[t], job'[t])
    BY <1>1, <1>2, <2>1, <2>3 DEF OpOK, Subscribing
  <2>5. c \notin dead => CallOK(t)'
    BY <1>2, <1>5, <2>1, <2>3 DEF CallOK, Subscribing, Unsubscribing
  <2> QED
    BY <1>1, <1>2, <1>4, <2>1, <2>3, <2>4, <2>5, PluginKeeps
<1> QED
  BY <1>3, <1>6, <1>7

LEMMA MuteRecords ==
    ASSUME TypeInv, RecordInv, NEW t \in Threads, Mute(t)
    PROVE  RecordInv'
<1>1. PICK c \in Clients : c = job[t].client
  BY ServedClient DEF Mute
<1>2. PICK f \in Filters : f = job[t].filter
  BY TypeFacts DEF Mute, LocalOK
<1>3. /\ pc[t] = "mute" /\ OpOK(pc[t], job[t]) /\ JobsTyped
      /\ c \notin dead => CallOK(t)
      /\ UNCHANGED <<sessionVars, reportedSticky, dead, known, given>>
  BY <1>1, ServedClient, TypeFacts DEF Mute
<1>4. PICK ok \in BOOLEAN :
        /\ InsertMute(c, f, ok)
        /\ IF ok THEN Goto(t, "record", job[t]) ELSE Return(t)
  BY <1>1, <1>2 DEF Mute
<1>5. /\ \A h \in (plugin' \ plugin) \cup (plugin \ plugin') : h[1] = c
      /\ plugin \subseteq plugin' /\ (ok => <<c, f>> \in plugin')
  BY <1>4 DEF InsertMute
<1>6. c \notin dead => Settled(c)' /\ eventFilters[c][f] = 0
  BY <1>1, <1>2, <1>3, <1>5 DEF CallOK, Settled, Agree
<1>7. CASE ok
  <2>1. Moves(t) /\ pc'[t] = "record" /\ job'[t] = job[t]
    BY <1>3, <1>4, <1>7, GotoMoves
  <2>2. OpOK(pc'[t], job'[t])
    BY <1>3, <2>1 DEF OpOK, Subscribing
  <2>3. c \notin dead => CallOK(t)'
    BY <1>1, <1>2, <1>3, <1>5, <1>6, <1>7, <2>1 DEF CallOK, Subscribing, Unsubscribing, OpOK
  <2> QED
    BY <1>1, <1>3, <1>5, <2>1, <2>2, <2>3, PluginKeeps
<1>8. CASE ~ok
  BY <1>1, <1>3, <1>4, <1>5, <1>6, <1>8, PluginKeeps
<1> QED
  BY <1>7, <1>8

LEMMA UnmuteRecords ==
    ASSUME TypeInv, RecordInv, NEW t \in Threads, Unmute(t)
    PROVE  RecordInv'
<1>1. PICK c \in Clients : c = job[t].client
  BY ServedClient DEF Unmute
<1>2. PICK f \in Filters : f = job[t].filter
  BY TypeFacts DEF Unmute, LocalOK
<1>3. /\ pc[t] = "unmute" /\ OpOK(pc[t], job[t]) /\ JobsTyped
      /\ c \notin dead => CallOK(t)
      /\ UNCHANGED <<sessionVars, reportedSticky, dead, known, given>>
  BY <1>1, ServedClient, TypeFacts DEF Unmute
<1>4. PICK ok \in BOOLEAN :
        /\ RemoveMute(c, f, ok)
        /\ IF ok THEN Goto(t, "erase", job[t]) ELSE Return(t)
  BY <1>1, <1>2 DEF Unmute
<1>5. /\ \A h \in (plugin' \ plugin) \cup (plugin \ plugin') : h = <<c, f>>
      /\ ~ok => plugin' = plugin
  BY <1>4 DEF RemoveMute
<1>6. c \notin dead => Settled(c)
  BY <1>1, <1>3 DEF CallOK
<1>7. CASE ok
  <2>1. Moves(t) /\ pc'[t] = "erase" /\ job'[t] = job[t]
    BY <1>3, <1>4, <1>7, GotoMoves
  <2>2. OpOK(pc'[t], job'[t])
    BY <1>3, <2>1 DEF OpOK, Subscribing
  <2>3. c \notin dead => CallOK(t)'
    BY <1>1, <1>2, <1>3, <1>5, <1>6, <2>1
    DEF CallOK, Subscribing, Unsubscribing, OpOK, Settled, Agree
  <2>4. \A h \in (plugin' \ plugin) \cup (plugin \ plugin') : h[1] = c
    BY <1>5
  <2> QED
    BY <1>1, <1>3, <2>1, <2>2, <2>3, <2>4, PluginKeeps
<1>8. CASE ~ok
  <2>1. c \notin dead => Settled(c)'
    BY <1>3, <1>5, <1>6, <1>8 DEF Settled, Agree
  <2>2. \A h \in (plugin' \ plugin) \cup (plugin \ plugin') : h[1] = c
    BY <1>5
  <2> QED
    BY <1>1, <1>3, <1>4, <1>8, <2>1, <2>2, PluginKeeps
<1> QED
  BY <1>7, <1>8

(* The session's own list of filters changes for one filter of its client. *)
LEMMA ListKeeps ==
    ASSUME TypeInv, RecordInv, NEW t \in Threads, pc[t] # "idle", Return(t),
           NEW c \in Clients, job[t].client = c, NEW f \in Filters,
           UNCHANGED <<sessions, subEvents, reportedSticky, plugin, dead, known, given>>,
           \A d \in Clients, g \in Filters :
             d # c \/ g # f => eventFilters'[d][g] = eventFilters[d][g],
           \A d \in Clients \ {c} : eventFilters'[d] = eventFilters[d],
           eventFilters'[c][f] <= 1,
           c \in SdkClients => eventFilters'[c] = eventFilters[c],
           c \notin dead => Settled(c)'
    PROVE  RecordInv'
<1>1. MarksOK(c)
  BY ServedClient
<1>2. Apart(c)
  BY DEF Apart
<1>3. MarksOK(c)'
  BY <1>1 DEF MarksOK, NoFilters
<1>4. c \in dead => DeadOK(c)'
  BY DeadStays
<1> QED
  BY <1>2, <1>3, <1>4, ReturnKeeps

LEMMA RecordMuteRecords ==
    ASSUME TypeInv, RecordInv, NEW t \in Threads, RecordMute(t)
    PROVE  RecordInv'
<1>1. PICK c \in Clients : c = job[t].client
  BY ServedClient DEF RecordMute
<1>2. PICK f \in Filters : f = job[t].filter
  BY TypeFacts DEF RecordMute, LocalOK
<1>3. /\ pc[t] = "record" /\ OpOK(pc[t], job[t]) /\ DataOK /\ MarksOK(c) /\ Return(t)
      /\ (c \in dead => DeadOK(c)) /\ (c \notin dead => CallOK(t))
      /\ AddToSession(c, f)
      /\ UNCHANGED <<sessions, subEvents, reportedSticky, plugin, dead, known, given>>
  BY <1>1, <1>2, ServedClient, TypeFacts DEF RecordMute
<1>4. job[t].op = "AddFilter" /\ c \notin SdkClients
  BY <1>1, <1>3 DEF OpOK
<1>5. eventFilters[c][f] \in Nat
  BY <1>3 DEF DataOK
<1>6. CASE c \in sessions
  <2>1. eventFilters' = [eventFilters EXCEPT ![c][f] = @ + 1]
    BY <1>3, <1>6 DEF AddToSession
  <2>2. c \notin dead
    BY <1>1, <1>3, <1>4, <1>6 DEF DeadOK
  <2>3. eventFilters[c][f] = 0 /\ <<c, f>> \in plugin /\ Settled(c)
    BY <1>1, <1>2, <1>3, <2>2 DEF CallOK
  <2>4. /\ \A d \in Clients \ {c} : eventFilters'[d] = eventFilters[d]
        /\ \A g \in Filters : g # f => eventFilters'[c][g] = eventFilters[c][g]
        /\ eventFilters'[c][f] = 1
    BY <1>3, <2>1, <2>3 DEF DataOK
  <2>5. Settled(c)'
    BY <1>3, <2>3, <2>4 DEF Settled, Agree
  <2> QED
    BY <1>1, <1>3, <1>4, <2>4, <2>5, ListKeeps
<1>7. CASE c \notin sessions
  <2>1. eventFilters' = eventFilters
    BY <1>3, <1>7 DEF AddToSession
  <2>2. c \notin dead => Settled(c)'
    BY <1>1, <1>3, <2>1 DEF CallOK, Settled, Agree
  <2> QED
    BY <1>1, <1>3, <2>1, <2>2, ListKeeps DEF MarksOK
<1> QED
  BY <1>6, <1>7

LEMMA EraseMuteRecords ==
    ASSUME TypeInv, RecordInv, NEW t \in Threads, EraseMute(t)
    PROVE  RecordInv'
<1>1. PICK c \in Clients : c = job[t].client
  BY ServedClient DEF EraseMute
<1>2. PICK f \in Filters : f = job[t].filter
  BY TypeFacts DEF EraseMute, LocalOK
<1>3. /\ pc[t] = "erase" /\ OpOK(pc[t], job[t]) /\ DataOK /\ MarksOK(c) /\ Return(t)
      /\ c \notin dead => Agree(c, subEvents[c], subEvents[c], {f})
      /\ EraseFilterFromSession(c, f)
      /\ UNCHANGED <<sessions, subEvents, reportedSticky, plugin, dead, known, given>>
  BY <1>1, <1>2, ServedClient, TypeFacts DEF EraseMute, CallOK
<1>4. c \notin SdkClients
  BY <1>1, <1>3 DEF OpOK
<1>5. /\ eventFilters[c][f] \in Nat /\ eventFilters[c][f] <= 1
      /\ c \notin sessions => eventFilters[c] = NoFilters
  BY <1>3 DEF DataOK, MarksOK
<1>6. CASE IsFilterInSession(c, f)
  <2>1. eventFilters' = [eventFilters EXCEPT ![c][f] = @ - 1] /\ eventFilters[c][f] = 1
    BY <1>3, <1>5, <1>6 DEF EraseFilterFromSession, IsFilterInSession
  <2>2. /\ \A d \in Clients \ {c} : eventFilters'[d] = eventFilters[d]
        /\ \A g \in Filters : g # f => eventFilters'[c][g] = eventFilters[c][g]
        /\ eventFilters'[c][f] = 0
    BY <1>3, <2>1 DEF DataOK
  <2>3. c \notin dead => Settled(c)'
    BY <1>3, <2>2 DEF Settled, Agree
  <2> QED
    BY <1>1, <1>3, <1>4, <2>2, <2>3, ListKeeps
<1>7. CASE ~IsFilterInSession(c, f)
  <2>1. eventFilters' = eventFilters /\ eventFilters[c][f] = 0
    BY <1>3, <1>5, <1>7 DEF EraseFilterFromSession, IsFilterInSession, NoFilters
  <2>2. c \notin dead => Settled(c)'
    BY <1>3, <2>1 DEF Settled, Agree
  <2> QED
    BY <1>1, <1>3, <2>1, <2>2, ListKeeps
<1> QED
  BY <1>6, <1>7
-------------------------------------------------------------------------------
(* The calls of a client                                                   *)

(* With Serial, a client that calls has no call outstanding.               *)
LEMMA FreeClient ==
    ASSUME Serial, TypeInv, RecordInv, NEW t \in Threads, NEW c \in Clients, Free(t, c)
    PROVE  /\ DataOK /\ JobsTyped /\ Nil \notin Clients
           /\ pc[t] = "idle" /\ job[t] = NoJob /\ NoJob.client = Nil /\ NoJob.op = "none"
           /\ c \notin dead /\ MarksOK(c) /\ Settled(c)
           /\ \A u \in Threads : job[u].client # c
           /\ c \notin sessions => subEvents[c] = {} /\ eventFilters[c] = NoFilters
<1>1. /\ DataOK /\ JobsTyped /\ Nil \notin Clients /\ pc[t] = "idle" /\ job[t] = NoJob
      /\ c \notin dead /\ \A u \in Threads : job[u].client # c
  BY TypeFacts, ClientAssumption DEF Free, LocalOK
<1> QED
  BY <1>1 DEF RecordInv, LiveOK, NoJob, Call, DataOK

LEMMA CallKeeps ==
    ASSUME Serial, TypeInv, RecordInv, NEW t \in Threads, NEW c \in Clients, Free(t, c),
           Apart(c), dead' = dead, MarksOK(c)',
           \/ UNCHANGED <<pc, job>> /\ Settled(c)'
           \/ /\ Moves(t) /\ OpOK(pc'[t], job'[t])
              /\ job'[t].client = c /\ job'[t].op # "RemoteDied" /\ CallOK(t)'
    PROVE  RecordInv'
<1>1. /\ Nil \notin Clients /\ job[t] = NoJob /\ NoJob.client = Nil /\ NoJob.op = "none"
      /\ c \notin dead /\ \A u \in Threads : job[u].client # c
  BY FreeClient
<1>2. OpOK(pc[t], job[t])
  BY DEF RecordInv
<1>3. ServesOne(t, c)
  BY <1>1, <1>2 DEF ServesOne, Calls, Moves
<1> QED
  BY <1>1, <1>3, StepKeeps

LEMMA CreatClientRecords ==
    ASSUME Serial, TypeInv, RecordInv, NEW t \in Threads, NEW c \in Clients, CreatClient(t, c)
    PROVE  RecordInv'
<1> DEFINE j == Call("CreatClient", c)
<1>1. j.client = c /\ j.op = "CreatClient" /\ j.mutes = {} /\ ~j.created
  BY DEF Call
<1>2. /\ Free(t, c) /\ Goto(t, "create", j)
      /\ UNCHANGED <<sessionVars, reportedSticky, plugin, dead, known, given>>
  BY DEF CreatClient
<1> HIDE DEF j
<1>3. JobsTyped /\ MarksOK(c) /\ Settled(c)
  BY <1>2, FreeClient
<1>4. Moves(t) /\ pc'[t] = "create" /\ job'[t] = j
  BY <1>2, <1>3, GotoMoves
<1>5. OpOK(pc'[t], job'[t])
  BY <1>1, <1>4 DEF OpOK, Subscribing
<1>6. CallOK(t)'
  BY <1>1, <1>2, <1>3, <1>4 DEF CallOK, Settled, Agree, Subscribing, Unsubscribing
<1>7. Apart(c) /\ MarksOK(c)'
  BY <1>2, <1>3 DEF Apart, MarksOK
<1> QED
  BY <1>1, <1>2, <1>4, <1>5, <1>6, <1>7, CallKeeps

LEMMA SubscribeRecords ==
    ASSUME Serial, TypeInv, RecordInv, NEW t \in Threads, NEW c \in Clients, NEW e \in Events,
           Subscribe(t, c, e) \/ SubscribeInfo(t, c, e)
    PROVE  RecordInv'
<1>1. PICK j : /\ j.client = c /\ j.event = e /\ Goto(t, "subscribe", j)
               /\ \/ c \notin SdkClients /\ j.op = "Subscribe" /\ j.mutes = FiltersFor(c, e) /\ ~j.created
                  \/ c \in SdkClients /\ j.op = "SubscribeInfo" /\ j.mutes = {}
  <2>1. CASE Subscribe(t, c, e)
    <3> DEFINE j == [Call("Subscribe", c) EXCEPT !.event = e, !.mutes = FiltersFor(c, e)]
    <3>1. j.client = c /\ j.event = e /\ j.op = "Subscribe" /\ j.mutes = FiltersFor(c, e) /\ ~j.created
      BY DEF Call
    <3>2. Goto(t, "subscribe", j) /\ c \notin SdkClients
      BY <2>1 DEF Subscribe
    <3> HIDE DEF j
    <3> QED
      BY <3>1, <3>2
  <2>2. CASE SubscribeInfo(t, c, e)
    <3> DEFINE j == [Call("SubscribeInfo", c) EXCEPT !.event = e, !.created = c \notin sessions]
    <3>1. j.client = c /\ j.event = e /\ j.op = "SubscribeInfo" /\ j.mutes = {}
      BY DEF Call
    <3>2. Goto(t, "subscribe", j) /\ c \in SdkClients
      BY <2>2 DEF SubscribeInfo
    <3> HIDE DEF j
    <3> QED
      BY <3>1, <3>2
  <2> QED
    BY <2>1, <2>2
<1>2. /\ Free(t, c) /\ e \notin subEvents[c]
      /\ sessions' = sessions \cup {c}
      /\ subEvents' = [subEvents EXCEPT ![c] = @ \cup {e}]
      /\ given' = [given EXCEPT ![<<c, e>>] = 0]
      /\ UNCHANGED <<eventFilters, reportedSticky, plugin, dead, known>>
  BY DEF Subscribe, SubscribeInfo
<1>3. /\ DataOK /\ JobsTyped /\ MarksOK(c) /\ Settled(c)
  BY <1>2, FreeClient
<1>4. Moves(t) /\ pc'[t] = "subscribe" /\ job'[t] = j
  BY <1>1, <1>3, GotoMoves
<1>5. /\ subEvents'[c] = subEvents[c] \cup {e} /\ subEvents'[c] \ {e} = subEvents[c]
      /\ given'[<<c, e>>] = 0
      /\ \A d \in Clients \ {c} : subEvents'[d] = subEvents[d]
      /\ \A h \in Clients \X Events : h # <<c, e>> => given'[h] = given[h]
  BY <1>2, <1>3 DEF DataOK
<1>6. OpOK(pc'[t], job'[t])
  BY <1>1, <1>4 DEF OpOK, Subscribing, FiltersFor
<1>7. /\ c \notin SdkClients => known'[c] = subEvents'[c] \ {e}
      /\ NoFilterFaults => \A f \in Filters \ j.mutes :
           eventFilters'[c][f] > 0 /\ EventOf[f] \in subEvents'[c] => <<c, f>> \in plugin'
  BY <1>1, <1>2, <1>3, <1>5 DEF Settled, Agree, FiltersFor, MarksOK, NoFilters
<1>8. CallOK(t)'
  <2>1. c \in sessions' /\ e \in subEvents'[c]
    BY <1>2, <1>5
  <2> QED
    BY <1>1, <1>4, <1>7, <2>1 DEF CallOK, Agree, Subscribing, Unsubscribing
<1>9. Apart(c)
  BY <1>2, <1>5 DEF Apart
<1>10. MarksOK(c)'
  BY <1>2, <1>3, <1>5 DEF MarksOK
<1> QED
  BY <1>1, <1>2, <1>4, <1>6, <1>8, <1>9, <1>10, CallKeeps

LEMMA AgainRecords ==
    ASSUME Serial, TypeInv, RecordInv, NEW t \in Threads, NEW c \in Clients, NEW e \in Events,
           SubscribeAgain(t, c, e) \/ UnsubscribeNothing(t, c, e)
    PROVE  RecordInv'
<1>1. /\ Free(t, c) /\ c \notin SdkClients
      /\ UNCHANGED <<sessionVars, reportedSticky, plugin, pc, job, dead, given>>
  BY DEF SubscribeAgain, UnsubscribeNothing
<1>2. DataOK /\ MarksOK(c) /\ Settled(c)
  BY <1>1, FreeClient
<1>3. known' = known
  <2>1. known[c] = subEvents[c]
    BY <1>1, <1>2 DEF Settled, Agree
  <2>2. known \in [Clients -> SUBSET Events]
    BY <1>2 DEF DataOK
  <2>3. CASE SubscribeAgain(t, c, e)
    BY <2>1, <2>2, <2>3 DEF SubscribeAgain
  <2>4. CASE UnsubscribeNothing(t, c, e)
    BY <2>1, <2>2, <2>4 DEF UnsubscribeNothing
  <2> QED
    BY <2>3, <2>4
<1>4. Apart(c) /\ MarksOK(c)' /\ Settled(c)'
  BY <1>1, <1>2, <1>3 DEF Apart, MarksOK, Settled, Agree
<1> QED
  BY <1>1, <1>4, CallKeeps

LEMMA UnsubscribeRecords ==
    ASSUME Serial, TypeInv, RecordInv, NEW t \in Threads, NEW c \in Clients, NEW e \in Events,
           Unsubscribe(t, c, e)
    PROVE  RecordInv'
<1> DEFINE op == IF c \in SdkClients THEN "UnsubscribeInfo" ELSE "Unsubscribe"
           j == [Call(op, c) EXCEPT !.event = e, !.todo = {e}]
<1>1. j.client = c /\ j.op = op /\ j.event = e /\ j.mutes = {} /\ ~j.created
  BY DEF Call
<1>2. /\ Free(t, c) /\ Goto(t, "unsubscribe", j) /\ e \in subEvents[c]
      /\ subEvents' = [subEvents EXCEPT ![c] = @ \ {e}]
      /\ given' = [given EXCEPT ![<<c, e>>] = 0]
      /\ UNCHANGED <<sessions, eventFilters, reportedSticky, plugin, dead, known>>
  BY DEF Unsubscribe
<1> HIDE DEF j
<1>3. /\ DataOK /\ JobsTyped /\ MarksOK(c) /\ Settled(c) /\ c \in sessions
  BY <1>2, FreeClient
<1>4. Moves(t) /\ pc'[t] = "unsubscribe" /\ job'[t] = j
  BY <1>2, <1>3, GotoMoves
<1>5. /\ subEvents'[c] = subEvents[c] \ {e} /\ subEvents'[c] \cup {e} = subEvents[c]
      /\ given'[<<c, e>>] = 0
      /\ \A d \in Clients \ {c} : subEvents'[d] = subEvents[d]
      /\ \A h \in Clients \X Events : h # <<c, e>> => given'[h] = given[h]
  BY <1>2, <1>3 DEF DataOK
<1>6. OpOK(pc'[t], job'[t])
  BY <1>1, <1>4 DEF OpOK, Subscribing
<1>7. /\ c \notin SdkClients => known'[c] = subEvents'[c] \cup {e}
      /\ NoFilterFaults => \A f \in Filters :
           eventFilters'[c][f] > 0 /\ EventOf[f] \in subEvents'[c] \cup {e} => <<c, f>> \in plugin'
  BY <1>2, <1>3, <1>5 DEF Settled, Agree
<1>8. CallOK(t)'
  <2>1. c \in sessions' /\ e \in Events \ subEvents'[c]
    BY <1>2, <1>3, <1>5
  <2> QED
    BY <1>1, <1>4, <1>5, <1>7, <2>1 DEF CallOK, Agree, Subscribing, Unsubscribing
<1>9. Apart(c)
  BY <1>2, <1>5 DEF Apart
<1>10. MarksOK(c)'
  BY <1>2, <1>3, <1>5 DEF MarksOK
<1> QED
  BY <1>1, <1>2, <1>4, <1>6, <1>8, <1>9, <1>10, CallKeeps

LEMMA DestoryClientRecords ==
    ASSUME Serial, TypeInv, RecordInv, NEW t \in Threads, NEW c \in Clients, DestoryClient(t, c)
    PROVE  RecordInv'
<1> DEFINE m == {f \in Filters : eventFilters[c][f] > 0}
           j == [Call("DestoryClient", c) EXCEPT !.todo = subEvents[c], !.mutes = m]
<1>1. j.client = c /\ j.op = "DestoryClient" /\ ~j.created
  BY DEF Call
<1>2. /\ Free(t, c) /\ c \notin SdkClients /\ EraseSession(c)
      /\ given' = [h \in Clients \X Events |-> IF h[1] = c THEN 0 ELSE given[h]]
      /\ known' = [known EXCEPT ![c] = {}]
      /\ Goto(t, "unsubscribe", j) \/ Goto(t, "unmuteAll", j) \/ UNCHANGED <<pc, job>>
      /\ UNCHANGED <<reportedSticky, plugin, dead>>
  BY DEF DestoryClient
<1> HIDE DEF j
<1>3. /\ DataOK /\ JobsTyped /\ MarksOK(c)
  BY <1>2, FreeClient
<1>4. /\ c \notin sessions' /\ subEvents'[c] = {} /\ eventFilters'[c] = NoFilters /\ known'[c] = {}
      /\ \A d \in Clients \ {c} : /\ d \in sessions' <=> d \in sessions
                                  /\ subEvents'[d] = subEvents[d] /\ eventFilters'[d] = eventFilters[d]
                                  /\ known'[d] = known[d]
      /\ \A d \in Clients, e \in Events : given'[<<d, e>>] = IF d = c THEN 0 ELSE given[<<d, e>>]
  BY <1>2, <1>3 DEF EraseSession, DataOK
<1>5. Apart(c)
  BY <1>2, <1>4 DEF Apart
<1>6. MarksOK(c)' /\ Settled(c)'
  BY <1>4 DEF MarksOK, Settled, Agree, NoFilters
<1>7. CASE Goto(t, "unsubscribe", j) \/ Goto(t, "unmuteAll", j)
  <2>1. Moves(t) /\ pc'[t] \in {"unsubscribe", "unmuteAll"} /\ job'[t] = j
    BY <1>3, <1>7, GotoMoves
  <2>2. OpOK(pc'[t], job'[t])
    BY <1>1, <2>1 DEF OpOK, Subscribing
  <2>3. CallOK(t)'
    BY <1>1, <1>4, <1>6, <2>1 DEF CallOK, Subscribing, Unsubscribing
  <2> QED
    BY <1>1, <1>2, <1>5, <1>6, <2>1, <2>2, <2>3, CallKeeps
<1>8. CASE UNCHANGED <<pc, job>>
  BY <1>2, <1>5, <1>6, <1>8, CallKeeps
<1> QED
  BY <1>2, <1>7, <1>8

LEMMA RemoteDiedRecords ==
    ASSUME Serial, TypeInv, RecordInv, NEW t \in Threads, NEW c \in Clients, RemoteDied(t, c)
    PROVE  RecordInv'
<1> DEFINE j == [Call("RemoteDied", c) EXCEPT !.todo = subEvents[c]]
<1>1. j.client = c /\ j.op = "RemoteDied" /\ j.mutes = {} /\ ~j.created
  BY DEF Call
<1>2. /\ pc[t] = "idle" /\ dead' = dead \cup {c}
      /\ given' = [h \in Clients \X Events |-> IF h[1] = c THEN 0 ELSE given[h]]
      /\ \/ c \in sessions /\ EraseSession(c) /\ Goto(t, "purge", j)
         \/ c \notin sessions /\ UNCHANGED <<sessionVars, pc, job>>
      /\ UNCHANGED <<reportedSticky, plugin, known>>
  BY DEF RemoteDied
<1> HIDE DEF j
<1>3. /\ DataOK /\ JobsTyped /\ job[t] = NoJob /\ NoJob.client = Nil /\ Nil \notin Clients
      /\ OpOK(pc[t], job[t]) /\ NoJob.op = "none" /\ MarksOK(c)
  BY <1>2, TypeFacts, ClientAssumption DEF LocalOK, NoJob, Call, RecordInv
<1>4. /\ c \notin sessions' /\ subEvents'[c] = {}
      /\ eventFilters'[c] = NoFilters \/ eventFilters'[c] = eventFilters[c]
      /\ \A d \in Clients \ {c} : /\ d \in sessions' <=> d \in sessions
                                  /\ subEvents'[d] = subEvents[d] /\ eventFilters'[d] = eventFilters[d]
      /\ \A d \in Clients, e \in Events : given'[<<d, e>>] = IF d = c THEN 0 ELSE given[<<d, e>>]
  BY <1>2, <1>3 DEF EraseSession, DataOK
<1>5. Apart(c)
  BY <1>2, <1>4 DEF Apart
<1>6. MarksOK(c)' /\ DeadOK(c)'
  BY <1>3, <1>4 DEF MarksOK, DeadOK, NoFilters
<1>7. ServesOne(t, c)
  <2>1. CASE Goto(t, "purge", j)
    <3>1. Moves(t) /\ pc'[t] = "purge" /\ job'[t] = j
      BY <1>3, <2>1, GotoMoves
    <3>2. OpOK(pc'[t], job'[t])
      BY <1>1, <3>1 DEF OpOK, Subscribing
    <3> QED
      BY <1>1, <1>2, <1>3, <3>1, <3>2 DEF ServesOne, Calls
  <2>2. CASE UNCHANGED <<pc, job>>
    BY <1>3, <2>2 DEF ServesOne, Calls, Moves
  <2> QED
    BY <1>2, <2>1, <2>2
<1> QED
  BY <1>2, <1>5, <1>6, <1>7, StepKeeps

LEMMA InsertSubscribeMuteRecords ==
    ASSUME Serial, TypeInv, RecordInv, NEW t \in Threads, NEW c \in Clients, NEW f \in Filters,
           InsertSubscribeMute(t, c, f)
    PROVE  RecordInv'
<1> DEFINE j == [Call("AddFilter", c) EXCEPT !.filter = f]
<1>1. j.client = c /\ j.op = "AddFilter" /\ j.filter = f /\ j.mutes = {}
  BY DEF Call
<1>2. /\ Free(t, c) /\ c \in sessions \ SdkClients /\ eventFilters[c][f] = 0
      /\ IF EventOf[f] \in subEvents[c]
         THEN Goto(t, "mute", j) /\ UNCHANGED eventFilters
         ELSE AddToSession(c, f) /\ UNCHANGED <<pc, job>>
      /\ UNCHANGED <<sessions, subEvents, reportedSticky, plugin, dead, known, given>>
  BY DEF InsertSubscribeMute
<1> HIDE DEF j
<1>3. DataOK /\ JobsTyped /\ MarksOK(c) /\ Settled(c)
  BY <1>2, FreeClient
<1>4. CASE EventOf[f] \in subEvents[c]
  <2>1. Moves(t) /\ pc'[t] = "mute" /\ job'[t] = j
    BY <1>2, <1>3, <1>4, GotoMoves
  <2>2. OpOK(pc'[t], job'[t])
    BY <1>1, <1>2, <2>1 DEF OpOK, Subscribing
  <2>3. CallOK(t)'
    BY <1>1, <1>2, <1>3, <1>4, <2>1 DEF CallOK, Settled, Agree, Subscribing, Unsubscribing
  <2>4. Apart(c) /\ MarksOK(c)'
    BY <1>2, <1>3, <1>4 DEF Apart, MarksOK
  <2> QED
    BY <1>1, <1>2, <2>1, <2>2, <2>3, <2>4, CallKeeps
<1>5. CASE EventOf[f] \notin subEvents[c]
  <2>1. eventFilters' = [eventFilters EXCEPT ![c][f] = @ + 1] /\ UNCHANGED <<pc, job>>
    BY <1>2, <1>5 DEF AddToSession
  <2>2. /\ \A d \in Clients \ {c} : eventFilters'[d] = eventFilters[d]
        /\ \A g \in Filters : g # f => eventFilters'[c][g] = eventFilters[c][g]
        /\ eventFilters'[c][f] = 1
    BY <1>2, <1>3, <2>1 DEF DataOK
  <2>3. Apart(c)
    BY <1>2, <2>2 DEF Apart
  <2>4. MarksOK(c)'
    BY <1>2, <1>3, <2>2 DEF MarksOK
  <2>5. Settled(c)'
    BY <1>2, <1>3, <1>5, <2>2 DEF Settled, Agree
  <2> QED
    BY <1>2, <2>1, <2>3, <2>4, <2>5, CallKeeps
<1> QED
  BY <1>4, <1>5

LEMMA RemoveSubscribeMuteRecords ==
    ASSUME Serial, TypeInv, RecordInv, NEW t \in Threads, NEW c \in Clients, NEW f \in Filters,
           RemoveSubscribeMute(t, c, f)
    PROVE  RecordInv'
<1> DEFINE j == [Call("RemoveFilter", c) EXCEPT !.filter = f]
<1>1. j.client = c /\ j.op = "RemoveFilter" /\ j.filter = f /\ j.mutes = {}
  BY DEF Call
<1>2. /\ Free(t, c) /\ c \notin SdkClients /\ IsFilterInSession(c, f)
      /\ IF EventOf[f] \in subEvents[c]
         THEN Goto(t, "unmute", j) /\ UNCHANGED eventFilters
         ELSE EraseFilterFromSession(c, f) /\ UNCHANGED <<pc, job>>
      /\ UNCHANGED <<sessions, subEvents, reportedSticky, plugin, dead, known, given>>
  BY DEF RemoveSubscribeMute
<1> HIDE DEF j
<1>3. DataOK /\ JobsTyped /\ MarksOK(c) /\ Settled(c)
  BY <1>2, FreeClient
<1>4. CASE EventOf[f] \in subEvents[c]
  <2>1. Moves(t) /\ pc'[t] = "unmute" /\ job'[t] = j
    BY <1>2, <1>3, <1>4, GotoMoves
  <2>2. OpOK(pc'[t], job'[t])
    BY <1>1, <1>2, <2>1 DEF OpOK, Subscribing
  <2>3. CallOK(t)'
    BY <1>1, <1>2, <1>3, <1>4, <2>1 DEF CallOK, Settled, Agree, Subscribing, Unsubscribing
  <2>4. Apart(c) /\ MarksOK(c)'
    BY <1>2, <1>3, <1>4 DEF Apart, MarksOK
  <2> QED
    BY <1>1, <1>2, <2>1, <2>2, <2>3, <2>4, CallKeeps
<1>5. CASE EventOf[f] \notin subEvents[c]
  <2>1. eventFilters' = [eventFilters EXCEPT ![c][f] = @ - 1] /\ UNCHANGED <<pc, job>>
    BY <1>2, <1>5 DEF EraseFilterFromSession
  <2>2. eventFilters[c][f] \in Nat /\ eventFilters[c][f] <= 1
    BY <1>3 DEF DataOK, MarksOK
  <2>3. /\ \A d \in Clients \ {c} : eventFilters'[d] = eventFilters[d]
        /\ \A g \in Filters : g # f => eventFilters'[c][g] = eventFilters[c][g]
        /\ eventFilters'[c][f] <= 1
    BY <1>3, <2>1, <2>2 DEF DataOK
  <2>4. Apart(c)
    BY <1>2, <2>3 DEF Apart
  <2>5. MarksOK(c)'
    BY <1>2, <1>3, <2>3 DEF MarksOK
  <2>6. Settled(c)'
    BY <1>2, <1>3, <1>5, <2>3 DEF Settled, Agree
  <2> QED
    BY <1>2, <2>1, <2>4, <2>5, <2>6, CallKeeps
<1> QED
  BY <1>4, <1>5
LEMMA AcceptRecords ==
    ASSUME Serial, TypeInv, RecordInv, NEW t \in Threads, NEW c \in Clients, Accept(t, c)
    PROVE  RecordInv'
<1>1. CASE CreatClient(t, c)
  BY <1>1, CreatClientRecords
<1>2. CASE DestoryClient(t, c)
  BY <1>2, DestoryClientRecords
<1>3. CASE RemoteDied(t, c)
  BY <1>3, RemoteDiedRecords
<1>4. ASSUME NEW e \in Events, Subscribe(t, c, e) \/ SubscribeInfo(t, c, e)
      PROVE  RecordInv'
  BY <1>4, SubscribeRecords
<1>5. ASSUME NEW e \in Events, SubscribeAgain(t, c, e) \/ UnsubscribeNothing(t, c, e)
      PROVE  RecordInv'
  BY <1>5, AgainRecords
<1>6. ASSUME NEW e \in Events, Unsubscribe(t, c, e)
      PROVE  RecordInv'
  BY <1>6, UnsubscribeRecords
<1>7. ASSUME NEW f \in Filters, InsertSubscribeMute(t, c, f)
      PROVE  RecordInv'
  BY <1>7, InsertSubscribeMuteRecords
<1>8. ASSUME NEW f \in Filters, RemoveSubscribeMute(t, c, f)
      PROVE  RecordInv'
  BY <1>8, RemoveSubscribeMuteRecords
<1> QED
  BY <1>1, <1>2, <1>3, <1>4, <1>5, <1>6, <1>7, <1>8 DEF Accept

-------------------------------------------------------------------------------
(* The steps of no call                                                    *)

(* A sticky event comes: only the sessions it is marked for are given it.  *)
LEMMA PublishStickyRecords ==
    ASSUME TypeInv, RecordInv, NEW e \in Events, PublishSticky(e)
    PROVE  RecordInv'
<1>1. PICK named \in SUBSET sessions :
        /\ reportedSticky' = reportedSticky \cup (NotifyObjs(e, named) \X {e})
        /\ given' = [h \in Clients \X Events |->
                       IF h \in NotifyObjs(e, named) \X {e} /\ given[h] < 2
                       THEN given[h] + 1 ELSE given[h]]
  BY DEF PublishSticky
<1> DEFINE due == NotifyObjs(e, named)
<1>2. /\ UNCHANGED <<sessionVars, plugin, pc, job, dead, known>> /\ DataOK
      /\ due \subseteq sessions
      /\ \A c \in due : e \in subEvents[c] /\ <<c, e>> \notin reportedSticky
  BY TypeFacts DEF PublishSticky, NotifyObjs
<1>3. \A c \in Clients, x \in Events :
        given'[<<c, x>>] = IF c \in due /\ x = e /\ given[<<c, x>>] < 2
                           THEN given[<<c, x>>] + 1 ELSE given[<<c, x>>]
  BY <1>1
<1>4. \A c \in Clients, x \in Events :
        <<c, x>> \in reportedSticky' <=> <<c, x>> \in reportedSticky \/ (c \in due /\ x = e)
  BY <1>1
<1> HIDE DEF due
<1>5. Alone'
  BY <1>2 DEF RecordInv, Alone, Calls
<1>6. ASSUME NEW c \in Clients
      PROVE  MarksOK(c)' /\ (c \in dead' => DeadOK(c)') /\ (c \notin dead' => LiveOK(c)')
  <2>1. MarksOK(c) /\ (c \in dead => DeadOK(c)) /\ (c \notin dead => LiveOK(c))
    BY DEF RecordInv
  <2>2. \A x \in Events : given[<<c, x>>] \in 0 .. 2
    BY <1>2 DEF DataOK
  <2>3. c \in due => given[<<c, e>>] = 0
    BY <1>2, <2>1, <2>2 DEF MarksOK
  <2>4. MarksOK(c)'
    BY <1>2, <1>3, <1>4, <2>1, <2>2, <2>3 DEF MarksOK
  <2>5. c \in dead' => DeadOK(c)'
    BY <1>2, <1>3, <2>1 DEF DeadOK
  <2>6. Settled(c)' <=> Settled(c)
    BY <1>2 DEF Settled, Agree
  <2>7. ASSUME NEW t \in Threads, job[t].client = c, CallOK(t)
        PROVE  CallOK(t)'
    <3>1. \A x \in Events \ subEvents[c] : given'[<<c, x>>] = given[<<c, x>>]
      BY <1>2, <1>3
    <3>2. \A K, X, F : Agree(c, K, X, F)' <=> Agree(c, K, X, F)
      BY <1>2 DEF Agree
    <3> QED
      BY <1>2, <2>6, <2>7, <3>1, <3>2 DEF CallOK, Agree
  <2>8. c \notin dead' => LiveOK(c)'
    BY <1>2, <2>1, <2>6, <2>7 DEF LiveOK
  <2> QED
    BY <2>4, <2>5, <2>8
<1> QED
  BY <1>2, <1>5, <1>6 DEF RecordInv

LEMMA NewClientRecords ==
    ASSUME TypeInv, RecordInv, NEW c \in Clients, NewClient(c)
    PROVE  RecordInv'
<1>1. /\ c \in dead \ sessions /\ \A u \in Threads : job[u].client # c
      /\ dead' = dead \ {c}
      /\ known' = [known EXCEPT ![c] = {}]
      /\ plugin' = {p \in plugin : p[1] # c}
      /\ reportedSticky' = {r \in reportedSticky : r[1] # c}
      /\ UNCHANGED <<sessionVars, pc, job, given>> /\ DataOK
  BY TypeFacts DEF NewClient
<1>2. subEvents[c] = {} /\ eventFilters[c] = NoFilters /\ known'[c] = {} /\ MarksOK(c)
  BY <1>1 DEF DataOK, RecordInv
<1>3. Apart(c)
  BY <1>1 DEF Apart, DataOK
<1>4. MarksOK(c)' /\ Settled(c)'
  BY <1>1, <1>2 DEF MarksOK, Settled, Agree, NoFilters
<1>5. \A d \in Clients : MarksOK(d)' /\ (d \in dead' => DeadOK(d)') /\ (d \notin dead' => LiveOK(d)')
  <2>1. LiveOK(c)'
    BY <1>1, <1>4 DEF LiveOK
  <2>2. ASSUME NEW d \in Clients \ {c}
        PROVE  MarksOK(d)' /\ (d \in dead' => DeadOK(d)') /\ (d \notin dead' => LiveOK(d)')
    BY <1>1, <1>3, OthersKeep
  <2> QED
    BY <1>1, <1>4, <2>1, <2>2
<1>6. Alone'
  BY <1>1 DEF RecordInv, Alone, Calls
<1> QED
  BY <1>1, <1>5, <1>6 DEF RecordInv

LEMMA StutterRecords == ASSUME RecordInv, UNCHANGED vars PROVE RecordInv'
<1>1. UNCHANGED <<sessionVars, reportedSticky, plugin, pc, job, dead, known, given>>
  BY DEF vars
<1>2. \A c \in Clients : /\ \A K, X, F : Agree(c, K, X, F)' <=> Agree(c, K, X, F)
                         /\ Settled(c)' <=> Settled(c)
                         /\ MarksOK(c)' <=> MarksOK(c)
                         /\ DeadOK(c)' <=> DeadOK(c)
  BY <1>1 DEF Agree, Settled, MarksOK, DeadOK
<1>3. \A t \in Threads : CallOK(t) => CallOK(t)'
  BY <1>1 DEF CallOK, Agree, Settled
<1> QED
  BY <1>1, <1>2, <1>3 DEF RecordInv, Alone, Calls, LiveOK

LEMMA NextRecords == ASSUME Serial, TypeInv, RecordInv, [Next]_vars PROVE RecordInv'
<1>1. ASSUME NEW t \in Threads, Continue(t)
      PROVE  RecordInv'
  <2>1. CASE CreatClientInsert(t)
    BY <2>1, CreatClientInsertRecords
  <2>2. CASE SubscribeScIfNeeded(t)
    BY <2>2, SubscribeScIfNeededRecords
  <2>3. CASE SubscribeScDone(t)
    BY <2>3, SubscribeScDoneRecords
  <2>4. CASE UndoSubscribe(t)
    BY <2>4, UndoSubscribeRecords
  <2>5. CASE RecheckMute(t)
    BY <2>5, RecheckMuteRecords
  <2>6. CASE Remute(t)
    BY <2>6, RemuteRecords
  <2>7. CASE UnSubscribeScIfLast(t)
    BY <2>7, UnSubscribeScIfLastRecords
  <2>8. CASE UnSubscribeScDone(t)
    BY <2>8, UnSubscribeScDoneRecords
  <2>9. CASE UndoUnsubscribe(t)
    BY <2>9, UndoUnsubscribeRecords
  <2>10. CASE Cleanup(t)
    BY <2>10, CleanupRecords
  <2>11. CASE Purge(t)
    BY <2>11, PurgeRecords
  <2>12. CASE UnmuteAll(t)
    BY <2>12, UnmuteAllRecords
  <2>13. CASE Mute(t) \/ RecordMute(t)
    BY <2>13, MuteRecords, RecordMuteRecords
  <2>14. CASE Unmute(t) \/ EraseMute(t)
    BY <2>14, UnmuteRecords, EraseMuteRecords
  <2> QED
    BY <1>1, <2>1, <2>2, <2>3, <2>4, <2>5, <2>6, <2>7, <2>8, <2>9, <2>10, <2>11, <2>12, <2>13,
       <2>14 DEF Continue
<1>2. ASSUME NEW t \in Threads, NEW c \in Clients, Accept(t, c)
      PROVE  RecordInv'
  BY <1>2, AcceptRecords
<1>3. ASSUME NEW e \in Events, PublishSticky(e)
      PROVE  RecordInv'
  BY <1>3, PublishStickyRecords
<1>4. ASSUME NEW c \in Clients, NewClient(c)
      PROVE  RecordInv'
  BY <1>4, NewClientRecords
<1> QED
  BY <1>1, <1>2, <1>3, <1>4, StutterRecords DEF Next

LEMMA InitRecords == Init => RecordInv
<1> SUFFICES ASSUME Init PROVE RecordInv
  OBVIOUS
<1>1. /\ \A t \in Threads : pc[t] = "idle" /\ job[t] = NoJob
      /\ NoJob.client = Nil /\ NoJob.op = "none" /\ OpOK("idle", NoJob)
      /\ Nil \notin Clients /\ dead = {}
  BY ClientAssumption DEF Init, NoJob, Call, OpOK, Subscribing
<1>2. Alone
  BY <1>1 DEF Alone, Calls
<1>3. \A c \in Clients : MarksOK(c) /\ Settled(c)
  BY DEF Init, MarksOK, Settled, Agree, NoFilters
<1>4. \A c \in Clients : LiveOK(c)
  BY <1>1, <1>3 DEF LiveOK
<1> QED
  BY <1>1, <1>2, <1>3, <1>4 DEF RecordInv

(* With no call in progress nobody's records are in between.               *)
LEMMA QuietSettles ==
    ASSUME TypeInv, RecordInv, Quiet, NEW c \in Clients \ dead
    PROVE  Settled(c)
<1>1. \A t \in Threads : job[t].client # c
  BY TypeFacts, ClientAssumption DEF Quiet, LocalOK, NoJob, Call
<1> QED
  BY <1>1 DEF RecordInv, LiveOK

-------------------------------------------------------------------------------
LEMMA RecordInvariant == ASSUME Serial PROVE Spec => [](TypeInv /\ RecordInv)
<1>1. Init => TypeInv /\ RecordInv
  BY InitTyped, InitRecords
<1>2. TypeInv /\ RecordInv /\ [Next]_vars => (TypeInv /\ RecordInv)'
  BY NextTyped, NextRecords
<1> QED
  BY <1>1, <1>2, PTL DEF Spec

(* EventSubscribeClient and AcquireDataSubscribeManager: a client that     *)
(* makes one call at a time and the service agree on its subscriptions     *)
(* whenever no call is in progress, whatever failed or was rolled back.    *)
THEOREM RecordsAgree == ASSUME Serial PROVE Spec => []ClientViewAgrees
<1>1. TypeInv /\ RecordInv => ClientViewAgrees
  BY QuietSettles DEF ClientViewAgrees, Settled, Agree
<1> QED
  BY <1>1, RecordInvariant, PTL

(* MarkStickyEventReported: whatever is subscribed, given up and taken up  *)
(* again, a subscription is given a sticky event at most once.             *)
THEOREM GivenOnce == ASSUME Serial PROVE Spec => []StickyOnce
<1>1. RecordInv => StickyOnce
  BY DEF RecordInv, MarksOK, StickyOnce
<1> QED
  BY <1>1, RecordInvariant, PTL

(* InsertSubscribeMute, RemoveSubscribeMute, RecheckMute: when the plugin  *)
(* refuses no filter of a configured event, the filters of every           *)
(* subscription are set in it, and none is listed twice.                   *)
THEOREM FiltersSet == ASSUME Serial, NoFilterFaults PROVE Spec => []FilterApplied
<1>1. ASSUME TypeInv, RecordInv, Quiet, NEW c \in sessions, NEW f \in Filters,
             eventFilters[c][f] > 0, EventOf[f] \in subEvents[c]
      PROVE  <<c, f>> \in plugin /\ eventFilters[c][f] = 1
  <2>1. DataOK
    BY <1>1, TypeFacts
  <2>2. c \in Clients /\ eventFilters[c][f] \in Nat
    BY <2>1 DEF DataOK
  <2>3. c \notin dead /\ eventFilters[c][f] <= 1
    BY <1>1, <2>2 DEF RecordInv, DeadOK, MarksOK
  <2>4. Settled(c)
    BY <1>1, <2>2, <2>3, QuietSettles
  <2> QED
    BY <1>1, <2>2, <2>3, <2>4 DEF Settled, Agree
<1>2. TypeInv /\ RecordInv => FilterApplied
  BY <1>1 DEF FilterApplied
<1> QED
  BY <1>2, RecordInvariant, PTL
=============================================================================

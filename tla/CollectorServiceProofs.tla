------------------------- MODULE CollectorServiceProofs -------------------------
(***************************************************************************)
(* What is proved of CollectorService, for any processes, subscribers,     *)
(* applications and events, and any number of deaths: the count of users   *)
(* is exact, what is used has its collector, and what a process was told   *)
(* is subscribed survives the deaths of the service.                       *)
(***************************************************************************)
EXTENDS CollectorService, FiniteSetTheorems, TLAPS

USE DEF pool, service, local, kit, poolVars, IsCollectorStarted

Ops == {"none", "sub", "unsub", "start", "stop", "query"}
Active == {"call", "counted", "refused", "cleaned", "stopped"}
Ats == {"idle", "begin"} \cup Active
Calls == [op : Ops, x : Subscribers \cup Events \cup {None}, at : Ats, life : Nat, tries : Nat]
Tasks == [at : {"none", "wait", "again"}, todo : SUBSET Subscribers, left : Nat]

(* What the variables are. *)
PoolOK == PoolTypeOK /\ localRuns \subseteq Events /\ localMap \subseteq Events /\ localStuck \subseteq Events
ServiceOK ==
    /\ up \in BOOLEAN /\ life \in Nat /\ refCount \in Int /\ misStops \in Nat
    /\ subscribers \subseteq Subscribers /\ watched \subseteq Subscribers
    /\ died \subseteq Subscribers /\ cleaned \subseteq Subscribers
    /\ runs \in [Events -> Apps \cup {None}]
KitOK ==
    /\ alive \subseteq Processes /\ listeners \subseteq Subscribers /\ wanted \subseteq Subscribers
    /\ watching \subseteq Processes /\ obits \subseteq Recoveries
    /\ task \in [Recoveries -> Tasks]

(* What a thread calls, and how far it can have got.                       *)
CallOK(t, c) ==
    /\ c.at # "idle" =>
         /\ t \in Subscribers => c.op \in {"sub", "unsub"} /\ c.x = t
         /\ t \in Recoveries => c.op = "sub" /\ c.x \in Subscribers /\ KitOf[c.x] = t[1]
         /\ t \in Apps => c.op \in {"start", "stop", "query"} /\ (c.op # "query" => c.x \in Events)
    /\ c.at = "counted" => c.op \in {"sub", "start", "query"}
    /\ c.at = "refused" => c.op \in {"sub", "start"}
    /\ c.at = "cleaned" => c.op = "unsub"
    /\ c.at = "stopped" => c.op = "stop"
CallsOK == call \in [Threads -> Calls] /\ \A t \in Threads : CallOK(t, call[t])

TypeInv == PoolOK /\ ServiceOK /\ KitOK /\ CallsOK

(* A service that is down has nothing, and no call is of a later life.     *)
LifeInv ==
    /\ life <= MaxDeaths /\ (up => life < MaxDeaths)
    /\ \A t \in Threads : call[t].at \in Active => call[t].life <= life /\ (~up => call[t].life < life)
    /\ ~up => /\ refCount = 0 /\ subscribers = {} /\ cleaned = {} /\ watched = {} /\ died = {} /\ watching = {}
              /\ \A e \in Events : runs[e] = None

(* A callback whose death is told or handled is that of a dead process;    *)
(* the kits of the dead know nothing.                                      *)
DeathInv ==
    /\ \A s \in died \cup cleaned : KitOf[s] \notin alive
    /\ died \cap cleaned = {}
    /\ \A s \in listeners \cup wanted : KitOf[s] \in alive

Runs == {e \in Events : runs[e] # None}
InCalls == {t \in Threads : Counted(t)}
Total == Cardinality(subscribers) + Cardinality(Runs) + Cardinality(cleaned) + Cardinality(InCalls)
CountInv ==
    /\ IsFiniteSet(subscribers) /\ IsFiniteSet(Runs) /\ IsFiniteSet(cleaned) /\ IsFiniteSet(InCalls)
    /\ misStops = 0 => refCount = Total

(* An event has one subscriber; only what may be started is.               *)
ServedInv ==
    /\ \A s, o \in subscribers : EventOf[s] = EventOf[o] => s = o
    /\ \A e \in Events : runs[e] # None => e \in CanStart
    /\ Served

(* What a listener relies on: its subscription in a service that its kit   *)
(* watches, or the notice of the death, or the end of its unsubscription.  *)
Backed(s) ==
    \/ s \in subscribers /\ KitOf[s] \in watching
    \/ \E l \in 1 .. MaxDeaths : <<KitOf[s], l>> \in obits
    \/ call[s].at = "cleaned" /\ ~Dead(s) /\ KitOf[s] \in watching

(* What a confirmed subscription relies on.                                *)
Remembered(s) ==
    \/ KitOf[s] \in gaveUp \/ s \in listeners
    \/ \E l \in 1 .. MaxDeaths : s \in task[<<KitOf[s], l>>].todo

TasksOK ==
    /\ \A p \in Processes, l \in 1 .. MaxDeaths :
         /\ task[<<p, l>>].at = "none" => task[<<p, l>>].todo = {}
         /\ \A s \in task[<<p, l>>].todo : KitOf[s] = p
         /\ <<p, l>> \in obits => l <= life /\ task[<<p, l>>].todo = {}
         /\ task[<<p, l>>].todo # {} => l <= life
WatchedCalls ==
    \A t \in Threads : call[t].at \in {"call", "counted", "refused"} /\ call[t].op = "sub" /\ ~Dead(t)
        /\ KitOf[call[t].x] \in alive => KitOf[call[t].x] \in watching
KitInv ==
    /\ TasksOK /\ WatchedCalls
    /\ \A s \in listeners : Backed(s)
    /\ \A s \in wanted : Remembered(s)

-------------------------------------------------------------------------------
(* Calls                                                                   *)

Serving == {"counted", "refused", "cleaned", "stopped"}

(* Thread t gets to place l in its call, and no other thread moves: a call *)
(* the service has taken remains the same call, of the same life.          *)
MovesTo(t, l) ==
    /\ CallsOK'
    /\ \A u \in Threads \ {t} : call'[u] = call[u]
    /\ call'[t].at = l
    /\ l \in Active => call'[t].op = call[t].op /\ call'[t].x = call[t].x
    /\ l = "call" => call'[t].life = life
    /\ l \in Serving => call'[t].life = call[t].life

(* The three kinds of threads are apart.                                   *)
LEMMA Apart ==
    /\ \A s \in Subscribers : s \in Threads /\ s \notin Apps /\ s \notin Recoveries
                              /\ KitOfThread(s) = KitOf[s] /\ KitOf[s] \in Processes
    /\ \A a \in Apps : a \in Threads /\ a \notin Subscribers /\ a \notin Recoveries
    /\ \A r \in Recoveries : r \in Threads /\ r \notin Subscribers /\ r \notin Apps
                             /\ KitOfThread(r) = r[1] /\ r[1] \in Processes /\ r[2] \in 1 .. MaxDeaths
                             /\ r = <<r[1], r[2]>>
    /\ \A p \in Processes, l \in 1 .. MaxDeaths : <<p, l>> \in Recoveries
    /\ None \notin Threads
    /\ \A t \in Threads \ Apps : KitOfThread(t) \in Processes
  BY ThreadAssumption, ServiceAssumption DEF Threads, Recoveries, KitOfThread

LEMMA CallSet ==
    ASSUME CallsOK, NEW t \in Threads, NEW c \in Calls, CallOK(t, c),
           call' = [call EXCEPT ![t] = c]
    PROVE  CallsOK' /\ call'[t] = c /\ \A u \in Threads \ {t} : call'[u] = call[u]
  BY DEF CallsOK

LEMMA GoMoves ==
    ASSUME CallsOK, NEW t \in Threads, NEW l \in Serving, Go(t, l), CallOK(t, [call[t] EXCEPT !.at = l])
    PROVE  MovesTo(t, l)
<1>1. call[t] \in Calls
  BY DEF CallsOK
<1>2. [call[t] EXCEPT !.at = l] \in Calls
  BY <1>1 DEF Calls, Ats, Active, Serving
<1>3. call' = [call EXCEPT ![t] = [call[t] EXCEPT !.at = l]]
  BY DEF Go, CallsOK
<1>4. CallsOK' /\ call'[t] = [call[t] EXCEPT !.at = l] /\ \A u \in Threads \ {t} : call'[u] = call[u]
  BY <1>2, <1>3, CallSet
<1> QED
  BY <1>1, <1>4 DEF MovesTo, Calls, Serving

LEMMA IdleOK == ASSUME NEW t PROVE Idle \in Calls /\ CallOK(t, Idle) /\ Idle.at = "idle"
  BY DEF Idle, Calls, CallOK, Ops, Ats

LEMMA EndMoves ==
    ASSUME CallsOK, NEW t \in Threads, NEW r, End(t, r)
    PROVE  MovesTo(t, "idle")
<1>1. call' = [call EXCEPT ![t] = Idle]
  BY DEF End
<1>2. CallsOK' /\ call'[t] = Idle /\ \A u \in Threads \ {t} : call'[u] = call[u]
  BY <1>1, IdleOK, CallSet
<1> QED
  BY <1>2, IdleOK DEF MovesTo, Active, Serving

LEMMA AskMoves ==
    ASSUME CallsOK, NEW t \in Threads, NEW op \in Ops, NEW x \in Subscribers \cup Events \cup {None},
           Ask(t, op, x),
           t \in Subscribers => op \in {"sub", "unsub"} /\ x = t,
           t \in Recoveries => op = "sub" /\ x \in Subscribers /\ KitOf[x] = t[1],
           t \in Apps => op \in {"start", "stop", "query"} /\ (op # "query" => x \in Events)
    PROVE  MovesTo(t, "begin")
<1> DEFINE c == [op |-> op, x |-> x, at |-> "begin", life |-> 0, tries |-> 1]
<1>1. c \in Calls /\ CallOK(t, c)
  BY DEF Calls, CallOK, Ats
<1>2. call' = [call EXCEPT ![t] = c]
  BY DEF Ask
<1>3. CallsOK' /\ call'[t] = c /\ \A u \in Threads \ {t} : call'[u] = call[u]
  BY <1>1, <1>2, CallSet
<1> QED
  BY <1>3 DEF MovesTo, Active, Serving

LEMMA EnterMoves ==
    ASSUME CallsOK, NEW t \in Threads, At(t, "begin"), life \in Nat,
           call' = [call EXCEPT ![t].at = "call", ![t].life = life]
    PROVE  MovesTo(t, "call")
<1> DEFINE c == [call[t] EXCEPT !.at = "call", !.life = life]
<1>1. call[t] \in Calls /\ CallOK(t, call[t])
  BY DEF CallsOK
<1>2. c \in Calls /\ CallOK(t, c)
  BY <1>1 DEF Calls, CallOK, Ats, Active, At
<1>3. call' = [call EXCEPT ![t] = c]
  BY DEF CallsOK
<1>4. CallsOK' /\ call'[t] = c /\ \A u \in Threads \ {t} : call'[u] = call[u]
  BY <1>2, <1>3, CallSet
<1>5. c.at = "call" /\ c.op = call[t].op /\ c.x = call[t].x /\ c.life = life
  BY <1>1 DEF Calls
<1> QED
  BY <1>4, <1>5 DEF MovesTo, Serving

LEMMA RetryMoves ==
    ASSUME CallsOK, NEW t \in Threads, call[t].at \in Active,
           call' = [call EXCEPT ![t].at = "begin", ![t].tries = 2]
    PROVE  MovesTo(t, "begin")
<1> DEFINE c == [call[t] EXCEPT !.at = "begin", !.tries = 2]
<1>1. call[t] \in Calls /\ CallOK(t, call[t])
  BY DEF CallsOK
<1>2. c \in Calls /\ CallOK(t, c)
  BY <1>1 DEF Calls, CallOK, Ats, Active
<1>3. call' = [call EXCEPT ![t] = c]
  BY DEF CallsOK
<1>4. CallsOK' /\ call'[t] = c /\ \A u \in Threads \ {t} : call'[u] = call[u]
  BY <1>2, <1>3, CallSet
<1> QED
  BY <1>1, <1>4 DEF MovesTo, Calls, Active, Serving

(* Where each step of a call leads.                                        *)
LEMMA CallSteps ==
    ASSUME TypeInv
    PROVE  /\ \A s \in Subscribers : Subscribe(s) \/ Unsubscribe(s) => MovesTo(s, "begin")
           /\ \A a \in Apps, e \in Events :
                NapiStartSecurityEventCollector(a, e) \/ NapiStopSecurityEventCollector(a, e)
                  => MovesTo(a, "begin") \/ UNCHANGED call
           /\ \A a \in Apps : ManagerQuery(a) => MovesTo(a, "begin")
           /\ \A r \in Recoveries, s \in Subscribers : TasksOK /\ Resubscribe(r, s) => MovesTo(r, "begin")
           /\ \A t \in Threads \ Apps : SubscribeImpl(t) =>
                MovesTo(t, "idle") \/ (LoadOk /\ MovesTo(t, "call") /\ watching' = watching \union {KitOfThread(t)})
           /\ \A s \in Subscribers : UnsubscribeImpl(s) => MovesTo(s, "idle") \/ (LoadOk /\ MovesTo(s, "call"))
           /\ \A a \in Apps : CollectorImpl(a) => MovesTo(a, "idle") \/ (LoadOk /\ MovesTo(a, "call"))
           /\ \A t \in Threads : DeadReply(t) => MovesTo(t, "idle") \/ MovesTo(t, "begin")
<1> USE Apart DEF TypeInv
<1>1. ASSUME NEW s \in Subscribers, Subscribe(s) \/ Unsubscribe(s) PROVE MovesTo(s, "begin")
  BY <1>1, AskMoves DEF Subscribe, Unsubscribe, Ops
<1>2. ASSUME NEW a \in Apps, NEW e \in Events,
             NapiStartSecurityEventCollector(a, e) \/ NapiStopSecurityEventCollector(a, e)
      PROVE  MovesTo(a, "begin") \/ UNCHANGED call
  <2>1. Ask(a, "start", e) \/ Ask(a, "stop", e) \/ UNCHANGED call
    BY <1>2 DEF NapiStartSecurityEventCollector, NapiStopSecurityEventCollector, KitStartCollector,
                KitStopCollector, DcmsCollectorStart, DcmsCollectorStop, ManagerStart, ManagerStop
  <2> QED
    BY <2>1, AskMoves DEF Ops
<1>3. ASSUME NEW a \in Apps, ManagerQuery(a) PROVE MovesTo(a, "begin")
  BY <1>3, AskMoves DEF ManagerQuery, Ops
<1>4. ASSUME NEW r \in Recoveries, NEW s \in Subscribers, TasksOK, Resubscribe(r, s) PROVE MovesTo(r, "begin")
  <2>1. KitOf[s] = r[1]
    BY <1>4 DEF TasksOK, Resubscribe
  <2> QED
    BY <2>1, <1>4, AskMoves DEF Resubscribe, Ops
<1>5. ASSUME NEW t \in Threads \ Apps, SubscribeImpl(t)
      PROVE  MovesTo(t, "idle") \/ (LoadOk /\ MovesTo(t, "call") /\ watching' = watching \union {KitOfThread(t)})
  BY <1>5, EndMoves, EnterMoves DEF SubscribeImpl, ServiceOK
<1>6. ASSUME NEW s \in Subscribers, UnsubscribeImpl(s) PROVE MovesTo(s, "idle") \/ (LoadOk /\ MovesTo(s, "call"))
  BY <1>6, EndMoves, EnterMoves DEF UnsubscribeImpl, ServiceOK
<1>7. ASSUME NEW a \in Apps, CollectorImpl(a) PROVE MovesTo(a, "idle") \/ (LoadOk /\ MovesTo(a, "call"))
  BY <1>7, EndMoves, EnterMoves DEF CollectorImpl, ServiceOK
<1>8. ASSUME NEW t \in Threads, DeadReply(t) PROVE MovesTo(t, "idle") \/ MovesTo(t, "begin")
  BY <1>8, EndMoves, RetryMoves DEF DeadReply, Active
<1> QED
  BY <1>1, <1>2, <1>3, <1>4, <1>5, <1>6, <1>7, <1>8

LEMMA ServiceSteps ==
    ASSUME TypeInv
    PROVE  /\ \A t \in Threads \ Apps :
                /\ CountSubscriber(t) => MovesTo(t, "counted")
                /\ SubscribeCollector(t) => MovesTo(t, "idle") \/ MovesTo(t, "refused")
                /\ Uncount(t) => MovesTo(t, "idle")
           /\ \A s \in Subscribers :
                /\ CleanSubscriber(s) => MovesTo(s, "idle") \/ MovesTo(s, "cleaned")
                /\ UnsubscribeDone(s) => MovesTo(s, "idle")
           /\ \A a \in Apps :
                /\ CountRun(a) \/ CountQuery(a) => MovesTo(a, "counted")
                /\ CollectorStart(a) => MovesTo(a, "idle") \/ MovesTo(a, "refused")
                /\ CollectorStop(a) => MovesTo(a, "idle") \/ MovesTo(a, "stopped")
                /\ UncountRun(a) \/ UncountStop(a) \/ QueryDone(a) => MovesTo(a, "idle")
<1> USE Apart DEF TypeInv, Serving
<1>0. \A t \in Threads : call[t] \in Calls /\ CallOK(t, call[t])
  BY DEF CallsOK
<1>1. ASSUME NEW t \in Threads, NEW l \in Serving, call[t].at # "idle", Go(t, l),
             l = "counted" => call[t].op \in {"sub", "start", "query"},
             l = "refused" => call[t].op \in {"sub", "start"},
             l = "cleaned" => call[t].op = "unsub", l = "stopped" => call[t].op = "stop"
      PROVE  MovesTo(t, l)
  <2>1. CallOK(t, [call[t] EXCEPT !.at = l])
    BY <1>0, <1>1 DEF CallOK, Calls
  <2>2. CallsOK
    OBVIOUS
  <2> HIDE DEF TypeInv, Serving
  <2> QED
    BY <1>1, <2>1, <2>2, GoMoves
<1>2. ASSUME NEW t \in Threads \ Apps PROVE CountSubscriber(t) => MovesTo(t, "counted")
  BY <1>1 DEF CountSubscriber, At
<1>3. ASSUME NEW t \in Threads \ Apps PROVE SubscribeCollector(t) => MovesTo(t, "idle") \/ MovesTo(t, "refused")
  BY <1>1, EndMoves DEF SubscribeCollector, At
<1>4. ASSUME NEW t \in Threads \ Apps PROVE Uncount(t) => MovesTo(t, "idle")
  BY EndMoves DEF Uncount
<1>5. ASSUME NEW s \in Subscribers PROVE CleanSubscriber(s) => MovesTo(s, "idle") \/ MovesTo(s, "cleaned")
  BY <1>1, EndMoves DEF CleanSubscriber, At
<1>6. ASSUME NEW s \in Subscribers PROVE UnsubscribeDone(s) => MovesTo(s, "idle")
  BY EndMoves DEF UnsubscribeDone
<1>7. ASSUME NEW a \in Apps PROVE CountRun(a) \/ CountQuery(a) => MovesTo(a, "counted")
  BY <1>1 DEF CountRun, CountQuery, At
<1>8. ASSUME NEW a \in Apps PROVE CollectorStart(a) => MovesTo(a, "idle") \/ MovesTo(a, "refused")
  BY <1>1, EndMoves DEF CollectorStart, At
<1>9. ASSUME NEW a \in Apps PROVE CollectorStop(a) => MovesTo(a, "idle") \/ MovesTo(a, "stopped")
  BY <1>1, EndMoves DEF CollectorStop, At
<1>10. ASSUME NEW a \in Apps PROVE UncountRun(a) \/ UncountStop(a) \/ QueryDone(a) => MovesTo(a, "idle")
  BY EndMoves DEF UncountRun, UncountStop, QueryDone
<1> QED
  BY <1>2, <1>3, <1>4, <1>5, <1>6, <1>7, <1>8, <1>9, <1>10

LEMMA ProcessDiesCalls ==
    ASSUME TypeInv, NEW p \in Processes, ProcessDies(p)
    PROVE  /\ CallsOK'
           /\ \A t \in Threads : \/ call'[t] = call[t]
                                 \/ /\ call'[t] = Idle /\ call[t].at \in {"idle", "begin", "call"}
                                    /\ KitOfThread(t) = p /\ t \notin Apps
<1>1. \A t \in Threads : call[t] \in Calls /\ CallOK(t, call[t])
  BY DEF TypeInv, CallsOK
<1>2. \A t \in Threads : call'[t] = IF t \notin Apps /\ KitOfThread(t) = p /\ ~InService(t) THEN Idle ELSE call[t]
  BY DEF ProcessDies
<1>3. ASSUME NEW t \in Threads, call[t].at = "stopped" PROVE t \in Apps
  BY <1>1, <1>3, Apart DEF CallOK, Threads
<1>4. \A t \in Threads : ~InService(t) /\ t \notin Apps => call[t].at \in {"idle", "begin", "call"}
  BY <1>1, <1>3 DEF InService, Calls, Ats, Active
<1>5. DOMAIN call' = Threads /\ call' = [t \in Threads |-> call'[t]]
  BY DEF ProcessDies
<1>6. \A t \in Threads : call'[t] \in Calls /\ CallOK(t, call'[t])
  BY <1>1, <1>2, IdleOK
<1>7. CallsOK'
  BY <1>5, <1>6 DEF CallsOK
<1> QED
  BY <1>2, <1>4, <1>7

-------------------------------------------------------------------------------
(* Typing                                                                  *)

(* What the end of a call does to the kit.                                 *)
LEMMA EndKit ==
    ASSUME TypeInv, NEW t \in Threads, ~At(t, "idle"), NEW r, End(t, r)
    PROVE  /\ task' \in [Recoveries -> Tasks]
           /\ \A q \in Recoveries : /\ task'[q].at = task[q].at
                                    /\ task'[q].todo = IF q = t THEN task[q].todo \ {call[t].x} ELSE task[q].todo
           /\ gaveUp \subseteq gaveUp'
           /\ t \in Recoveries /\ r = "fail" => t[1] \in gaveUp'
           /\ wanted' \subseteq wanted \cup {s \in Subscribers : /\ s = call[t].x /\ KitOf[s] \in alive
                                                                /\ r = "ok" /\ call[t].op = "sub"}
           /\ r = "ok" /\ call[t].op = "unsub" => call[t].x \notin wanted'
<1>1. call[t] \in Calls /\ CallOK(t, call[t]) /\ task \in [Recoveries -> Tasks]
  BY DEF TypeInv, CallsOK, KitOK
<1>2. /\ task' \in [Recoveries -> Tasks]
      /\ \A q \in Recoveries : /\ task'[q].at = task[q].at
                               /\ task'[q].todo = IF q = t THEN task[q].todo \ {call[t].x} ELSE task[q].todo
  BY <1>1 DEF End, Tasks
<1>3. gaveUp \subseteq gaveUp' /\ (t \in Recoveries /\ r = "fail" => t[1] \in gaveUp')
  BY Apart DEF End
<1>4. call[t].op = "sub" => call[t].x \in Subscribers
  BY <1>1 DEF CallOK, At, Threads
<1>5. Living({call[t].x}) = {s \in {call[t].x} : KitOf[s] \in alive}
  BY DEF Living
<1>6. wanted' = CASE r = "ok" /\ call[t].op = "sub"   -> wanted \union Living({call[t].x})
                  [] r = "ok" /\ call[t].op = "unsub" -> wanted \ {call[t].x}
                  [] OTHER -> wanted
  BY DEF End
<1>7. CASE r = "ok" /\ call[t].op = "sub"
  BY <1>2, <1>3, <1>4, <1>5, <1>6, <1>7
<1>8. CASE r = "ok" /\ call[t].op = "unsub"
  BY <1>2, <1>3, <1>6, <1>8
<1>9. CASE ~(r = "ok" /\ call[t].op \in {"sub", "unsub"})
  <2>1. wanted' = wanted
    BY <1>6, <1>9
  <2> QED
    BY <1>2, <1>3, <1>9, <2>1
<1> QED
  BY <1>7, <1>8, <1>9

(* The pool keeps its types.                                               *)
LEMMA PoolSteps ==
    ASSUME PoolTypeOK, NEW e \in Events
    PROVE  /\ SubscribeCollectorsOk({e}) \/ SubscribeCollectorsFail({e}) \/ UnsubscribeCollectors({e}) => PoolTypeOK'
           /\ StartCollectorsOk({e}) \/ StartCollectorsFail({e}) \/ StopCollectors({e}) => PoolTypeOK'
  BY DEF PoolTypeOK, SubscribeCollectorsOk, SubscribeCollectorsFail, UnsubscribeCollectors, Stopping,
         StartCollectorsOk, StartCollectorsFail, StopCollectors

LEMMA LocalSteps ==
    ASSUME PoolOK, NEW e \in Events, LocalStart(e) \/ LocalStop(e)
    PROVE  /\ localRuns' \subseteq Events /\ localMap' \subseteq Events /\ localStuck' \subseteq Events
           /\ localRuns \ localStuck \subseteq localMap => localRuns' \ localStuck' \subseteq localMap'
<1>1. /\ LocalPool!StartCollectorsOk({e}) => localMap' = localMap \cup {e}
      /\ LocalPool!StartCollectorsFail({e}) => localMap' = localMap
      /\ LocalPool!StopCollectors({e}) => localMap' = localMap \ {e}
  BY DEF LocalPool!StartCollectorsOk, LocalPool!StartCollectorsFail, LocalPool!StopCollectors, LocalPool!poolVars
<1>2. \/ UNCHANGED <<localRuns, localMap, localStuck>>
      \/ localRuns' = localRuns \cup {e} /\ localMap' = localMap \cup {e} /\ localStuck' = localStuck
      \/ localMap' = localMap \ {e} /\ localRuns' = localRuns \ {e} /\ localStuck' = localStuck \ {e}
      \/ localMap' = localMap \ {e} /\ localRuns' = localRuns /\ localStuck' = localStuck \cup {e}
  BY <1>1 DEF LocalStart, LocalStop
<1> QED
  BY <1>2 DEF PoolOK

(* A step of the applications' calls of the data-collection service.       *)
LEMMA NapiSteps ==
    ASSUME PoolOK, NEW a \in Apps, NEW e \in Events,
           NapiStartSecurityEventCollector(a, e) \/ NapiStopSecurityEventCollector(a, e)
    PROVE  /\ UNCHANGED <<pool, service, kit, task>> /\ PoolOK'
           /\ localRuns \ localStuck \subseteq localMap => localRuns' \ localStuck' \subseteq localMap'
<1>1. LocalStart(e) \/ LocalStop(e) \/ UNCHANGED local
  BY DEF NapiStartSecurityEventCollector, NapiStopSecurityEventCollector, KitStartCollector, KitStopCollector,
         DcmsCollectorStart, DcmsCollectorStop
<1>2. UNCHANGED <<pool, service, kit, task>>
  BY DEF NapiStartSecurityEventCollector, NapiStopSecurityEventCollector
<1>3. CASE UNCHANGED local
  BY <1>2, <1>3 DEF PoolOK, PoolTypeOK
<1>4. CASE LocalStart(e) \/ LocalStop(e)
  BY <1>2, <1>4, LocalSteps DEF PoolOK, PoolTypeOK
<1> QED
  BY <1>1, <1>2, <1>3, <1>4

DataOK == PoolOK /\ ServiceOK /\ KitOK

(* What a call that was made is about.                                     *)
LEMMA CallFacts ==
    ASSUME TypeInv, NEW t \in Threads, ~At(t, "idle")
    PROVE  /\ call[t].op \in {"sub", "unsub"} => call[t].x \in Subscribers /\ EventOf[call[t].x] \in Events
           /\ call[t].op \in {"start", "stop"} => call[t].x \in Events
           /\ t \in Subscribers => call[t].x = t /\ call[t].op \in {"sub", "unsub"}
           /\ t \in Recoveries => call[t].op = "sub" /\ KitOf[call[t].x] = t[1]
           /\ t \in Apps => call[t].op \in {"start", "stop", "query"}
           /\ t \notin Apps => KitOf[call[t].x] = KitOfThread(t) /\ call[t].op \in {"sub", "unsub"}
  BY Apart, ServiceAssumption DEF TypeInv, CallsOK, CallOK, At, Threads

(* The last subscriber of an event takes its collector along.              *)
LEMMA UnsubscribePool ==
    ASSUME PoolTypeOK, NEW s \in Subscribers, UnsubscribeCollector(s)
    PROVE  /\ PoolTypeOK' /\ subscribers' = subscribers \ {s} /\ loaderMap' \subseteq loaderMap
           /\ Cut(Running({EventOf[s]}))
           /\ \A e \in loaderMap \ loaderMap' : /\ e = EventOf[s]
                                              /\ \A o \in subscribers \ {s} : EventOf[o] # e
<1>1. EventOf[s] \in Events
  BY ServiceAssumption
<1>2. CASE UNCHANGED pool
  BY <1>2 DEF UnsubscribeCollector, PoolTypeOK
<1>3. CASE /\ {o \in subscribers : EventOf[o] = EventOf[s]} = {s}
           /\ UnsubscribeCollectors({EventOf[s]})
  <2>1. PoolTypeOK'
    BY <1>1, <1>3, PoolSteps
  <2>2. loaderMap' \subseteq loaderMap /\ loaderMap \ loaderMap' \subseteq {EventOf[s]}
    BY <1>3 DEF UnsubscribeCollectors, Stopping
  <2> QED
    BY <1>3, <2>1, <2>2 DEF UnsubscribeCollector
<1> QED
  BY <1>2, <1>3 DEF UnsubscribeCollector

LEMMA DataTyped ==
    ASSUME TypeInv, LifeInv, [Next]_vars
    PROVE  DataOK'
<1> USE ServiceAssumption DEF TypeInv
<1>1. ASSUME NEW s \in Subscribers, Subscribe(s)
      PROVE  DataOK'
  BY <1>1, Apart DEF DataOK, PoolOK, ServiceOK, KitOK, PoolTypeOK, Subscribe
<1>2. ASSUME NEW s \in Subscribers, Unsubscribe(s)
      PROVE  DataOK'
  BY <1>2, Apart DEF DataOK, PoolOK, ServiceOK, KitOK, PoolTypeOK, Unsubscribe
<1>3. ASSUME NEW s \in Subscribers, OnRemoteDied(s)
      PROVE  DataOK'
  <2>1. PoolOK'
    BY <1>3, UnsubscribePool DEF PoolOK, PoolTypeOK, OnRemoteDied
  <2>2. ServiceOK'
    BY <1>3 DEF ServiceOK, OnRemoteDied, UnsubscribeCollector
  <2>3. KitOK'
    BY <1>3 DEF KitOK, OnRemoteDied
  <2> QED
    BY <2>1, <2>2, <2>3 DEF DataOK
<1>4. ASSUME NEW s \in Subscribers, UncountDied(s)
      PROVE  DataOK'
  BY <1>4, Apart DEF DataOK, PoolOK, ServiceOK, KitOK, PoolTypeOK, UncountDied
<1>5. ASSUME NEW a \in Apps, NEW e \in Events, NapiStartSecurityEventCollector(a, e) \/ NapiStopSecurityEventCollector(a, e)
      PROVE  DataOK'
  BY <1>5, NapiSteps DEF DataOK, ServiceOK, KitOK
<1>6. ASSUME NEW a \in Apps, ManagerQuery(a)
      PROVE  DataOK'
  BY <1>6, Apart DEF DataOK, PoolOK, ServiceOK, KitOK, PoolTypeOK, ManagerQuery
<1>7. ASSUME NEW t \in Threads \ Apps, SubscribeImpl(t)
      PROVE  DataOK'
  <2>1. PoolOK'
    BY <1>7 DEF PoolOK, PoolTypeOK, SubscribeImpl
  <2>2. ServiceOK'
    BY <1>7 DEF ServiceOK, SubscribeImpl, LoadOk
  <2>3. KitOK'
    BY <1>7, Apart, EndKit DEF KitOK, SubscribeImpl, At
  <2> QED
    BY <2>1, <2>2, <2>3 DEF DataOK
<1>8. ASSUME NEW t \in Threads \ Apps, CountSubscriber(t)
      PROVE  DataOK'
  <2>1. PoolOK'
    BY <1>8 DEF PoolOK, PoolTypeOK, CountSubscriber
  <2>2. ServiceOK'
    BY <1>8, Apart, CallFacts DEF ServiceOK, CountSubscriber, At
  <2>3. KitOK'
    BY <1>8 DEF KitOK, CountSubscriber
  <2> QED
    BY <2>1, <2>2, <2>3 DEF DataOK
<1>9. ASSUME NEW t \in Threads \ Apps, SubscribeCollector(t)
      PROVE  DataOK'
  <2>1. PoolOK'
    BY <1>9, PoolSteps, CallFacts DEF PoolOK, PoolTypeOK, SubscribeCollector, At
  <2>2. ServiceOK'
    BY <1>9, CallFacts DEF ServiceOK, SubscribeCollector, At
  <2>3. KitOK'
    BY <1>9, EndKit, CallFacts DEF KitOK, SubscribeCollector, At, Living
  <2> QED
    BY <2>1, <2>2, <2>3 DEF DataOK
<1>10. ASSUME NEW t \in Threads \ Apps, Uncount(t)
      PROVE  DataOK'
  BY <1>10, Apart, EndKit DEF DataOK, PoolOK, ServiceOK, KitOK, PoolTypeOK, Uncount, At
<1>11. ASSUME NEW s \in Subscribers, UnsubscribeImpl(s)
      PROVE  DataOK'
  BY <1>11, Apart, EndKit DEF DataOK, PoolOK, ServiceOK, KitOK, PoolTypeOK, UnsubscribeImpl, At, LoadOk, LoadFails
<1>12. ASSUME NEW s \in Subscribers, CleanSubscriber(s)
      PROVE  DataOK'
  <2>1. PoolOK'
    BY <1>12, UnsubscribePool DEF PoolOK, PoolTypeOK, CleanSubscriber
  <2>2. ServiceOK'
    BY <1>12 DEF ServiceOK, CleanSubscriber, UnsubscribeCollector
  <2>3. KitOK'
    BY <1>12, Apart, EndKit DEF KitOK, CleanSubscriber, At
  <2> QED
    BY <2>1, <2>2, <2>3 DEF DataOK
<1>13. ASSUME NEW s \in Subscribers, UnsubscribeDone(s)
      PROVE  DataOK'
  BY <1>13, Apart, EndKit DEF DataOK, PoolOK, ServiceOK, KitOK, PoolTypeOK, UnsubscribeDone, At
<1>14. ASSUME NEW a \in Apps, CollectorImpl(a)
      PROVE  DataOK'
  BY <1>14, Apart, EndKit DEF DataOK, PoolOK, ServiceOK, KitOK, PoolTypeOK, CollectorImpl, At, LoadOk, LoadFails
<1>15. ASSUME NEW a \in Apps, CountRun(a)
      PROVE  DataOK'
  BY <1>15, Apart DEF DataOK, PoolOK, ServiceOK, KitOK, PoolTypeOK, CountRun
<1>16. ASSUME NEW a \in Apps, CollectorStart(a)
      PROVE  DataOK'
  <2>1. PoolOK'
    BY <1>16, PoolSteps, CallFacts DEF PoolOK, PoolTypeOK, CollectorStart, RunEvent, At
  <2>2. ServiceOK'
    BY <1>16 DEF ServiceOK, CollectorStart, RunEvent
  <2>3. KitOK'
    BY <1>16, Apart, EndKit DEF KitOK, CollectorStart, At
  <2> QED
    BY <2>1, <2>2, <2>3 DEF DataOK
<1>17. ASSUME NEW a \in Apps, UncountRun(a)
      PROVE  DataOK'
  BY <1>17, Apart, EndKit DEF DataOK, PoolOK, ServiceOK, KitOK, PoolTypeOK, UncountRun, At
<1>18. ASSUME NEW a \in Apps, CollectorStop(a)
      PROVE  DataOK'
  <2>1. PoolOK'
    BY <1>18, Apart, PoolSteps, CallFacts DEF PoolOK, PoolTypeOK, CollectorStop, RunEvent, At
  <2>2. ServiceOK'
    BY <1>18 DEF ServiceOK, CollectorStop, RunEvent
  <2>3. KitOK'
    BY <1>18, Apart, EndKit DEF KitOK, CollectorStop, At
  <2> QED
    BY <2>1, <2>2, <2>3 DEF DataOK
<1>19. ASSUME NEW a \in Apps, UncountStop(a)
      PROVE  DataOK'
  BY <1>19, Apart, EndKit DEF DataOK, PoolOK, ServiceOK, KitOK, PoolTypeOK, UncountStop, At
<1>20. ASSUME NEW a \in Apps, CountQuery(a)
      PROVE  DataOK'
  BY <1>20, Apart DEF DataOK, PoolOK, ServiceOK, KitOK, PoolTypeOK, CountQuery
<1>21. ASSUME NEW a \in Apps, QueryDone(a)
      PROVE  DataOK'
  BY <1>21, Apart, EndKit DEF DataOK, PoolOK, ServiceOK, KitOK, PoolTypeOK, QueryDone, At
<1>22. ASSUME NEW t \in Threads, DeadReply(t)
      PROVE  DataOK'
  BY <1>22, Apart, EndKit DEF DataOK, PoolOK, ServiceOK, KitOK, PoolTypeOK, DeadReply, At
<1>23. ASSUME AskUnload
      PROVE  DataOK'
  BY <1>23, Apart DEF DataOK, PoolOK, ServiceOK, KitOK, PoolTypeOK, AskUnload
<1>24. ASSUME up /\ Ends
      PROVE  DataOK'
  <2>1. PoolOK'
    BY <1>24 DEF PoolOK, PoolTypeOK, Ends
  <2>2. ServiceOK'
    <3>1. runs' \in [Events -> Apps \cup {None}]
      BY <1>24 DEF Ends
    <3>2. up' \in BOOLEAN
      BY <1>24 DEF Ends
    <3>3. life' \in Nat /\ refCount' = 0 /\ misStops' = 0
      BY <1>24 DEF Ends, ServiceOK
    <3>4. subscribers' = {} /\ watched' = {} /\ died' = {} /\ cleaned' = {}
      BY <1>24 DEF Ends
    <3> QED
      BY <3>1, <3>2, <3>3, <3>4 DEF ServiceOK
  <2>3. KitOK'
    BY <1>24, Apart DEF KitOK, Ends, Recoveries, LifeInv, ServiceOK
  <2> QED
    BY <2>1, <2>2, <2>3 DEF DataOK
<1>25. ASSUME NEW p \in Processes, ProcessDies(p)
      PROVE  DataOK'
  BY <1>25, Apart DEF DataOK, PoolOK, ServiceOK, KitOK, PoolTypeOK, ProcessDies, Asleep, Tasks
<1>26. ASSUME NEW r \in Recoveries, HandleDecipient(r[1], r[2])
      PROVE  DataOK'
  BY <1>26, Apart DEF DataOK, PoolOK, ServiceOK, KitOK, PoolTypeOK, HandleDecipient, Tasks
<1>27. ASSUME NEW r \in Recoveries, Attempt(r)
      PROVE  DataOK'
  <2>1. PoolOK'
    BY <1>27 DEF PoolOK, PoolTypeOK, Attempt
  <2>2. ServiceOK'
    BY <1>27 DEF ServiceOK, Attempt, LoadOk
  <2>3. KitOK'
    <3>1. task[r] \in Tasks
      BY DEF KitOK
    <3>2. \/ task' = [task EXCEPT ![r] = Asleep]
          \/ task[r].left # 0 /\ task' = [task EXCEPT ![r].left = task[r].left - 1]
          \/ task' = [task EXCEPT ![r].at = "again"]
      BY <1>27 DEF Attempt
    <3>3. \E x \in Tasks : task' = [task EXCEPT ![r] = x]
      BY <3>1, <3>2 DEF KitOK, Tasks, Asleep
    <3>4. task' \in [Recoveries -> Tasks]
      BY <3>3 DEF KitOK
    <3> QED
      BY <1>27, <3>4, Apart DEF KitOK, Attempt
  <2> QED
    BY <2>1, <2>2, <2>3 DEF DataOK
<1>28. ASSUME NEW r \in Recoveries, Recovered(r)
      PROVE  DataOK'
  BY <1>28, Apart DEF DataOK, PoolOK, ServiceOK, KitOK, PoolTypeOK, Recovered, Tasks, Asleep
<1>29. ASSUME NEW r \in Recoveries, NEW s \in Subscribers, Resubscribe(r, s)
      PROVE  DataOK'
  BY <1>29, Apart DEF DataOK, PoolOK, ServiceOK, KitOK, PoolTypeOK, Resubscribe
<1>30. ASSUME UNCHANGED vars
      PROVE  DataOK'
  BY <1>30 DEF vars, DataOK, PoolOK, ServiceOK, KitOK, PoolTypeOK
<1> QED
  BY <1>1, <1>2, <1>3, <1>4, <1>5, <1>6, <1>7, <1>8, <1>9, <1>10, <1>11, <1>12, <1>13, <1>14, <1>15, <1>16, <1>17, <1>18, <1>19, <1>20, <1>21, <1>22, <1>23, <1>24, <1>25, <1>26, <1>27, <1>28, <1>29, <1>30 DEF Next, InCall, Recover, Unload, Crashes

LEMMA CallsTyped ==
    ASSUME TypeInv, TasksOK, [Next]_vars
    PROVE  CallsOK'
<1> USE DEF TypeInv
<1>1. ASSUME NEW s \in Subscribers, Subscribe(s)
      PROVE  CallsOK'
  BY <1>1, CallSteps DEF MovesTo
<1>2. ASSUME NEW s \in Subscribers, Unsubscribe(s)
      PROVE  CallsOK'
  BY <1>2, CallSteps DEF MovesTo
<1>3. ASSUME NEW s \in Subscribers, OnRemoteDied(s)
      PROVE  CallsOK'
  BY <1>3 DEF CallsOK, CallOK, OnRemoteDied
<1>4. ASSUME NEW s \in Subscribers, UncountDied(s)
      PROVE  CallsOK'
  BY <1>4 DEF CallsOK, CallOK, UncountDied
<1>5. ASSUME NEW a \in Apps, NEW e \in Events, NapiStartSecurityEventCollector(a, e) \/ NapiStopSecurityEventCollector(a, e)
      PROVE  CallsOK'
  <2>1. CASE MovesTo(a, "begin")
    BY <2>1 DEF MovesTo
  <2>2. CASE UNCHANGED call
    BY <2>2 DEF CallsOK, CallOK
  <2> QED
    BY <1>5, <2>1, <2>2, CallSteps
<1>6. ASSUME NEW a \in Apps, ManagerQuery(a)
      PROVE  CallsOK'
  BY <1>6, CallSteps DEF MovesTo
<1>7. ASSUME NEW t \in Threads \ Apps, SubscribeImpl(t)
      PROVE  CallsOK'
  BY <1>7, CallSteps DEF MovesTo
<1>8. ASSUME NEW t \in Threads \ Apps, CountSubscriber(t)
      PROVE  CallsOK'
  BY <1>8, ServiceSteps DEF MovesTo
<1>9. ASSUME NEW t \in Threads \ Apps, SubscribeCollector(t)
      PROVE  CallsOK'
  BY <1>9, ServiceSteps DEF MovesTo
<1>10. ASSUME NEW t \in Threads \ Apps, Uncount(t)
      PROVE  CallsOK'
  BY <1>10, ServiceSteps DEF MovesTo
<1>11. ASSUME NEW s \in Subscribers, UnsubscribeImpl(s)
      PROVE  CallsOK'
  BY <1>11, CallSteps DEF MovesTo
<1>12. ASSUME NEW s \in Subscribers, CleanSubscriber(s)
      PROVE  CallsOK'
  BY <1>12, ServiceSteps DEF MovesTo
<1>13. ASSUME NEW s \in Subscribers, UnsubscribeDone(s)
      PROVE  CallsOK'
  BY <1>13, ServiceSteps DEF MovesTo
<1>14. ASSUME NEW a \in Apps, CollectorImpl(a)
      PROVE  CallsOK'
  BY <1>14, CallSteps DEF MovesTo
<1>15. ASSUME NEW a \in Apps, CountRun(a)
      PROVE  CallsOK'
  BY <1>15, ServiceSteps DEF MovesTo
<1>16. ASSUME NEW a \in Apps, CollectorStart(a)
      PROVE  CallsOK'
  BY <1>16, ServiceSteps DEF MovesTo
<1>17. ASSUME NEW a \in Apps, UncountRun(a)
      PROVE  CallsOK'
  BY <1>17, ServiceSteps DEF MovesTo
<1>18. ASSUME NEW a \in Apps, CollectorStop(a)
      PROVE  CallsOK'
  BY <1>18, ServiceSteps DEF MovesTo
<1>19. ASSUME NEW a \in Apps, UncountStop(a)
      PROVE  CallsOK'
  BY <1>19, ServiceSteps DEF MovesTo
<1>20. ASSUME NEW a \in Apps, CountQuery(a)
      PROVE  CallsOK'
  BY <1>20, ServiceSteps DEF MovesTo
<1>21. ASSUME NEW a \in Apps, QueryDone(a)
      PROVE  CallsOK'
  BY <1>21, ServiceSteps DEF MovesTo
<1>22. ASSUME NEW t \in Threads, DeadReply(t)
      PROVE  CallsOK'
  BY <1>22, CallSteps DEF MovesTo
<1>23. ASSUME AskUnload
      PROVE  CallsOK'
  BY <1>23 DEF CallsOK, CallOK, AskUnload
<1>24. ASSUME up /\ Ends
      PROVE  CallsOK'
  BY <1>24 DEF CallsOK, CallOK, Ends
<1>25. ASSUME NEW p \in Processes, ProcessDies(p)
      PROVE  CallsOK'
  BY <1>25, ProcessDiesCalls
<1>26. ASSUME NEW r \in Recoveries, HandleDecipient(r[1], r[2])
      PROVE  CallsOK'
  BY <1>26 DEF CallsOK, CallOK, HandleDecipient
<1>27. ASSUME NEW r \in Recoveries, Attempt(r)
      PROVE  CallsOK'
  BY <1>27 DEF CallsOK, CallOK, Attempt
<1>28. ASSUME NEW r \in Recoveries, Recovered(r)
      PROVE  CallsOK'
  BY <1>28 DEF CallsOK, CallOK, Recovered
<1>29. ASSUME NEW r \in Recoveries, NEW s \in Subscribers, Resubscribe(r, s)
      PROVE  CallsOK'
  BY <1>29, CallSteps DEF MovesTo
<1>30. ASSUME UNCHANGED vars
      PROVE  CallsOK'
  BY <1>30 DEF CallsOK, CallOK, vars
<1> QED
  BY <1>1, <1>2, <1>3, <1>4, <1>5, <1>6, <1>7, <1>8, <1>9, <1>10, <1>11, <1>12, <1>13, <1>14, <1>15, <1>16, <1>17, <1>18, <1>19, <1>20, <1>21, <1>22, <1>23, <1>24, <1>25, <1>26, <1>27, <1>28, <1>29, <1>30 DEF Next, InCall, Recover, Unload, Crashes

-------------------------------------------------------------------------------
(* Lives and deaths                                                        *)

LEMMA CallLives ==
    ASSUME TypeInv, LifeInv, NEW t \in Threads, NEW l, MovesTo(t, l), life' = life, up' = up \/ LoadOk,
           l = "call" => up', l \in Serving => call[t].at \in Active
    PROVE  \A u \in Threads : call'[u].at \in Active => call'[u].life <= life' /\ (~up' => call'[u].life < life')
<1>1. life \in Nat /\ \A u \in Threads : call[u].life \in Nat
  BY DEF TypeInv, ServiceOK, CallsOK, Calls
<1>2. ASSUME NEW u \in Threads \ {t}, call'[u].at \in Active
      PROVE  call'[u].life <= life' /\ (~up' => call'[u].life < life')
  BY <1>2 DEF MovesTo, LifeInv, LoadOk
<1>3. ASSUME call'[t].at \in Active
      PROVE  call'[t].life <= life' /\ (~up' => call'[t].life < life')
  <2>1. l = "call" \/ l \in Serving
    BY <1>3 DEF MovesTo, Active, Serving
  <2>2. CASE l = "call"
    BY <1>1, <2>2 DEF MovesTo
  <2>3. CASE l \in Serving
    BY <2>3 DEF MovesTo, LifeInv, LoadOk
  <2> QED
    BY <2>1, <2>2, <2>3
<1> QED
  BY <1>2, <1>3

(* What a service that is down lacks, it lacks still.                      *)
DownInv == ~up => /\ refCount = 0 /\ subscribers = {} /\ cleaned = {} /\ watched = {} /\ died = {} /\ watching = {}
                  /\ \A e \in Events : runs[e] = None

LEMMA LifeHolds ==
    ASSUME TypeInv, LifeInv, TasksOK, [Next]_vars
    PROVE  LifeInv'
<1>1. ASSUME NEW s \in Subscribers, Subscribe(s)
      PROVE  LifeInv'
  <2>1. life' = life /\ (up' = up \/ LoadOk) /\ DownInv'
    BY <1>1 DEF Subscribe, DownInv, LifeInv, Dead, LoadOk, LoadFails
  <2>2. \A u \in Threads : call'[u].at \in Active => call'[u].life <= life' /\ (~up' => call'[u].life < life')
    BY <1>1, <2>1, CallSteps, CallLives, Apart DEF Subscribe, At, Active, Serving, LoadOk, TypeInv
  <2> QED
    BY <2>1, <2>2 DEF LifeInv, DownInv, LoadOk
<1>2. ASSUME NEW s \in Subscribers, Unsubscribe(s)
      PROVE  LifeInv'
  <2>1. life' = life /\ (up' = up \/ LoadOk) /\ DownInv'
    BY <1>2 DEF Unsubscribe, DownInv, LifeInv, Dead, LoadOk, LoadFails
  <2>2. \A u \in Threads : call'[u].at \in Active => call'[u].life <= life' /\ (~up' => call'[u].life < life')
    BY <1>2, <2>1, CallSteps, CallLives, Apart DEF Unsubscribe, At, Active, Serving, LoadOk, TypeInv
  <2> QED
    BY <2>1, <2>2 DEF LifeInv, DownInv, LoadOk
<1>3. ASSUME NEW s \in Subscribers, OnRemoteDied(s)
      PROVE  LifeInv'
  BY <1>3 DEF LifeInv, OnRemoteDied
<1>4. ASSUME NEW s \in Subscribers, UncountDied(s)
      PROVE  LifeInv'
  BY <1>4 DEF LifeInv, UncountDied
<1>5. ASSUME NEW a \in Apps, NEW e \in Events, NapiStartSecurityEventCollector(a, e) \/ NapiStopSecurityEventCollector(a, e)
      PROVE  LifeInv'
  <2>1. UNCHANGED service /\ UNCHANGED kit
    BY <1>5, NapiSteps DEF TypeInv
  <2>2. \A u \in Threads : call'[u].at \in Active => call'[u].life <= life' /\ (~up' => call'[u].life < life')
    BY <1>5, <2>1, CallSteps, CallLives, Apart DEF Active, Serving, LifeInv
  <2> QED
    BY <2>1, <2>2 DEF LifeInv
<1>6. ASSUME NEW a \in Apps, ManagerQuery(a)
      PROVE  LifeInv'
  <2>1. life' = life /\ (up' = up \/ LoadOk) /\ DownInv'
    BY <1>6 DEF ManagerQuery, DownInv, LifeInv, Dead, LoadOk, LoadFails
  <2>2. \A u \in Threads : call'[u].at \in Active => call'[u].life <= life' /\ (~up' => call'[u].life < life')
    BY <1>6, <2>1, CallSteps, CallLives, Apart DEF ManagerQuery, At, Active, Serving, LoadOk, TypeInv
  <2> QED
    BY <2>1, <2>2 DEF LifeInv, DownInv, LoadOk
<1>7. ASSUME NEW t \in Threads \ Apps, SubscribeImpl(t)
      PROVE  LifeInv'
  <2>1. life' = life /\ (up' = up \/ LoadOk) /\ DownInv'
    BY <1>7 DEF SubscribeImpl, DownInv, LifeInv, Dead, LoadOk, LoadFails
  <2>2. \A u \in Threads : call'[u].at \in Active => call'[u].life <= life' /\ (~up' => call'[u].life < life')
    BY <1>7, <2>1, CallSteps, CallLives, Apart DEF SubscribeImpl, At, Active, Serving, LoadOk, TypeInv
  <2> QED
    BY <2>1, <2>2 DEF LifeInv, DownInv, LoadOk
<1>8. ASSUME NEW t \in Threads \ Apps, CountSubscriber(t)
      PROVE  LifeInv'
  <2>1. life' = life /\ (up' = up \/ LoadOk) /\ DownInv'
    BY <1>8 DEF CountSubscriber, DownInv, LifeInv, Dead, LoadOk, LoadFails
  <2>2. \A u \in Threads : call'[u].at \in Active => call'[u].life <= life' /\ (~up' => call'[u].life < life')
    BY <1>8, <2>1, ServiceSteps, CallLives, Apart DEF CountSubscriber, At, Active, Serving, LoadOk, TypeInv
  <2> QED
    BY <2>1, <2>2 DEF LifeInv, DownInv, LoadOk
<1>9. ASSUME NEW t \in Threads \ Apps, SubscribeCollector(t)
      PROVE  LifeInv'
  <2>1. life' = life /\ (up' = up \/ LoadOk) /\ DownInv'
    BY <1>9 DEF SubscribeCollector, DownInv, LifeInv, Dead, LoadOk, LoadFails
  <2>2. \A u \in Threads : call'[u].at \in Active => call'[u].life <= life' /\ (~up' => call'[u].life < life')
    BY <1>9, <2>1, ServiceSteps, CallLives, Apart DEF SubscribeCollector, At, Active, Serving, LoadOk, TypeInv
  <2> QED
    BY <2>1, <2>2 DEF LifeInv, DownInv, LoadOk
<1>10. ASSUME NEW t \in Threads \ Apps, Uncount(t)
      PROVE  LifeInv'
  <2>1. life' = life /\ (up' = up \/ LoadOk) /\ DownInv'
    BY <1>10 DEF Uncount, DownInv, LifeInv, Dead, LoadOk, LoadFails
  <2>2. \A u \in Threads : call'[u].at \in Active => call'[u].life <= life' /\ (~up' => call'[u].life < life')
    BY <1>10, <2>1, ServiceSteps, CallLives, Apart DEF Uncount, At, Active, Serving, LoadOk, TypeInv
  <2> QED
    BY <2>1, <2>2 DEF LifeInv, DownInv, LoadOk
<1>11. ASSUME NEW s \in Subscribers, UnsubscribeImpl(s)
      PROVE  LifeInv'
  <2>1. life' = life /\ (up' = up \/ LoadOk) /\ DownInv'
    BY <1>11 DEF UnsubscribeImpl, DownInv, LifeInv, Dead, LoadOk, LoadFails
  <2>2. \A u \in Threads : call'[u].at \in Active => call'[u].life <= life' /\ (~up' => call'[u].life < life')
    BY <1>11, <2>1, CallSteps, CallLives, Apart DEF UnsubscribeImpl, At, Active, Serving, LoadOk, TypeInv
  <2> QED
    BY <2>1, <2>2 DEF LifeInv, DownInv, LoadOk
<1>12. ASSUME NEW s \in Subscribers, CleanSubscriber(s)
      PROVE  LifeInv'
  <2>1. life' = life /\ (up' = up \/ LoadOk) /\ DownInv'
    BY <1>12 DEF CleanSubscriber, DownInv, LifeInv, Dead, LoadOk, LoadFails
  <2>2. \A u \in Threads : call'[u].at \in Active => call'[u].life <= life' /\ (~up' => call'[u].life < life')
    BY <1>12, <2>1, ServiceSteps, CallLives, Apart DEF CleanSubscriber, At, Active, Serving, LoadOk, TypeInv
  <2> QED
    BY <2>1, <2>2 DEF LifeInv, DownInv, LoadOk
<1>13. ASSUME NEW s \in Subscribers, UnsubscribeDone(s)
      PROVE  LifeInv'
  <2>1. life' = life /\ (up' = up \/ LoadOk) /\ DownInv'
    BY <1>13 DEF UnsubscribeDone, DownInv, LifeInv, Dead, LoadOk, LoadFails
  <2>2. \A u \in Threads : call'[u].at \in Active => call'[u].life <= life' /\ (~up' => call'[u].life < life')
    BY <1>13, <2>1, ServiceSteps, CallLives, Apart DEF UnsubscribeDone, At, Active, Serving, LoadOk, TypeInv
  <2> QED
    BY <2>1, <2>2 DEF LifeInv, DownInv, LoadOk
<1>14. ASSUME NEW a \in Apps, CollectorImpl(a)
      PROVE  LifeInv'
  <2>1. life' = life /\ (up' = up \/ LoadOk) /\ DownInv'
    BY <1>14 DEF CollectorImpl, DownInv, LifeInv, Dead, LoadOk, LoadFails
  <2>2. \A u \in Threads : call'[u].at \in Active => call'[u].life <= life' /\ (~up' => call'[u].life < life')
    BY <1>14, <2>1, CallSteps, CallLives, Apart DEF CollectorImpl, At, Active, Serving, LoadOk, TypeInv
  <2> QED
    BY <2>1, <2>2 DEF LifeInv, DownInv, LoadOk
<1>15. ASSUME NEW a \in Apps, CountRun(a)
      PROVE  LifeInv'
  <2>1. life' = life /\ (up' = up \/ LoadOk) /\ DownInv'
    BY <1>15 DEF CountRun, DownInv, LifeInv, Dead, LoadOk, LoadFails
  <2>2. \A u \in Threads : call'[u].at \in Active => call'[u].life <= life' /\ (~up' => call'[u].life < life')
    BY <1>15, <2>1, ServiceSteps, CallLives, Apart DEF CountRun, At, Active, Serving, LoadOk, TypeInv
  <2> QED
    BY <2>1, <2>2 DEF LifeInv, DownInv, LoadOk
<1>16. ASSUME NEW a \in Apps, CollectorStart(a)
      PROVE  LifeInv'
  <2>1. life' = life /\ (up' = up \/ LoadOk) /\ DownInv'
    BY <1>16 DEF CollectorStart, DownInv, LifeInv, Dead, LoadOk, LoadFails
  <2>2. \A u \in Threads : call'[u].at \in Active => call'[u].life <= life' /\ (~up' => call'[u].life < life')
    BY <1>16, <2>1, ServiceSteps, CallLives, Apart DEF CollectorStart, At, Active, Serving, LoadOk, TypeInv
  <2> QED
    BY <2>1, <2>2 DEF LifeInv, DownInv, LoadOk
<1>17. ASSUME NEW a \in Apps, UncountRun(a)
      PROVE  LifeInv'
  <2>1. life' = life /\ (up' = up \/ LoadOk) /\ DownInv'
    BY <1>17 DEF UncountRun, DownInv, LifeInv, Dead, LoadOk, LoadFails
  <2>2. \A u \in Threads : call'[u].at \in Active => call'[u].life <= life' /\ (~up' => call'[u].life < life')
    BY <1>17, <2>1, ServiceSteps, CallLives, Apart DEF UncountRun, At, Active, Serving, LoadOk, TypeInv
  <2> QED
    BY <2>1, <2>2 DEF LifeInv, DownInv, LoadOk
<1>18. ASSUME NEW a \in Apps, CollectorStop(a)
      PROVE  LifeInv'
  <2>1. life' = life /\ (up' = up \/ LoadOk) /\ DownInv'
    BY <1>18 DEF CollectorStop, DownInv, LifeInv, Dead, LoadOk, LoadFails
  <2>2. \A u \in Threads : call'[u].at \in Active => call'[u].life <= life' /\ (~up' => call'[u].life < life')
    BY <1>18, <2>1, ServiceSteps, CallLives, Apart DEF CollectorStop, At, Active, Serving, LoadOk, TypeInv
  <2> QED
    BY <2>1, <2>2 DEF LifeInv, DownInv, LoadOk
<1>19. ASSUME NEW a \in Apps, UncountStop(a)
      PROVE  LifeInv'
  <2>1. life' = life /\ (up' = up \/ LoadOk) /\ DownInv'
    BY <1>19 DEF UncountStop, DownInv, LifeInv, Dead, LoadOk, LoadFails
  <2>2. \A u \in Threads : call'[u].at \in Active => call'[u].life <= life' /\ (~up' => call'[u].life < life')
    BY <1>19, <2>1, ServiceSteps, CallLives, Apart DEF UncountStop, At, Active, Serving, LoadOk, TypeInv
  <2> QED
    BY <2>1, <2>2 DEF LifeInv, DownInv, LoadOk
<1>20. ASSUME NEW a \in Apps, CountQuery(a)
      PROVE  LifeInv'
  <2>1. life' = life /\ (up' = up \/ LoadOk) /\ DownInv'
    BY <1>20 DEF CountQuery, DownInv, LifeInv, Dead, LoadOk, LoadFails
  <2>2. \A u \in Threads : call'[u].at \in Active => call'[u].life <= life' /\ (~up' => call'[u].life < life')
    BY <1>20, <2>1, ServiceSteps, CallLives, Apart DEF CountQuery, At, Active, Serving, LoadOk, TypeInv
  <2> QED
    BY <2>1, <2>2 DEF LifeInv, DownInv, LoadOk
<1>21. ASSUME NEW a \in Apps, QueryDone(a)
      PROVE  LifeInv'
  <2>1. life' = life /\ (up' = up \/ LoadOk) /\ DownInv'
    BY <1>21 DEF QueryDone, DownInv, LifeInv, Dead, LoadOk, LoadFails
  <2>2. \A u \in Threads : call'[u].at \in Active => call'[u].life <= life' /\ (~up' => call'[u].life < life')
    BY <1>21, <2>1, ServiceSteps, CallLives, Apart DEF QueryDone, At, Active, Serving, LoadOk, TypeInv
  <2> QED
    BY <2>1, <2>2 DEF LifeInv, DownInv, LoadOk
<1>22. ASSUME NEW t \in Threads, DeadReply(t)
      PROVE  LifeInv'
  <2>1. life' = life /\ (up' = up \/ LoadOk) /\ DownInv'
    BY <1>22 DEF DeadReply, DownInv, LifeInv, Dead, LoadOk, LoadFails
  <2>2. \A u \in Threads : call'[u].at \in Active => call'[u].life <= life' /\ (~up' => call'[u].life < life')
    BY <1>22, <2>1, CallSteps, CallLives, Apart DEF DeadReply, At, Active, Serving, LoadOk, TypeInv
  <2> QED
    BY <2>1, <2>2 DEF LifeInv, DownInv, LoadOk
<1>23. ASSUME AskUnload
      PROVE  LifeInv'
  BY <1>23 DEF LifeInv, AskUnload
<1>24. ASSUME up /\ Ends
      PROVE  LifeInv'
  <2>1. /\ life \in Nat /\ life' = life + 1 /\ ~up' /\ call' = call
        /\ \A u \in Threads : call[u].life \in Nat
    BY <1>24 DEF Ends, TypeInv, ServiceOK, CallsOK, Calls
  <2>2. MaxDeaths \in Nat /\ life < MaxDeaths
    BY <1>24, ServiceAssumption DEF LifeInv
  <2>3. \A u \in Threads : call'[u].at \in Active => call'[u].life <= life' /\ call'[u].life < life'
    BY <2>1 DEF LifeInv
  <2>4. DownInv'
    BY <1>24 DEF Ends, DownInv
  <2>5. life' <= MaxDeaths /\ ~up'
    BY <2>1, <2>2
  <2> QED
    BY <2>3, <2>4, <2>5 DEF LifeInv, DownInv
<1>25. ASSUME NEW p \in Processes, ProcessDies(p)
      PROVE  LifeInv'
  <2>1. \A u \in Threads : call'[u].at \in Active => call'[u] = call[u]
    BY <1>25, ProcessDiesCalls DEF Idle, Active
  <2>2. ~up => died' = {} /\ watching' = {}
    BY <1>25 DEF LifeInv, ProcessDies
  <2> QED
    BY <1>25, <2>1, <2>2 DEF LifeInv, ProcessDies
<1>26. ASSUME NEW r \in Recoveries, HandleDecipient(r[1], r[2])
      PROVE  LifeInv'
  BY <1>26 DEF LifeInv, HandleDecipient
<1>27. ASSUME NEW r \in Recoveries, Attempt(r)
      PROVE  LifeInv'
  BY <1>27 DEF LifeInv, Attempt, LoadOk, LoadFails, TypeInv, CallsOK, Calls, ServiceOK
<1>28. ASSUME NEW r \in Recoveries, Recovered(r)
      PROVE  LifeInv'
  BY <1>28 DEF LifeInv, Recovered
<1>29. ASSUME NEW r \in Recoveries, NEW s \in Subscribers, Resubscribe(r, s)
      PROVE  LifeInv'
  <2>1. life' = life /\ (up' = up \/ LoadOk) /\ DownInv'
    BY <1>29 DEF Resubscribe, DownInv, LifeInv, Dead, LoadOk, LoadFails
  <2>2. \A u \in Threads : call'[u].at \in Active => call'[u].life <= life' /\ (~up' => call'[u].life < life')
    BY <1>29, <2>1, CallSteps, CallLives, Apart DEF Resubscribe, At, Active, Serving, LoadOk, TypeInv
  <2> QED
    BY <2>1, <2>2 DEF LifeInv, DownInv, LoadOk
<1>30. ASSUME UNCHANGED vars
      PROVE  LifeInv'
  BY <1>30 DEF LifeInv, vars
<1> QED
  BY <1>1, <1>2, <1>3, <1>4, <1>5, <1>6, <1>7, <1>8, <1>9, <1>10, <1>11, <1>12, <1>13, <1>14, <1>15, <1>16, <1>17, <1>18, <1>19, <1>20, <1>21, <1>22, <1>23, <1>24, <1>25, <1>26, <1>27, <1>28, <1>29, <1>30 DEF Next, InCall, Recover, Unload, Crashes

LEMMA DeathHolds ==
    ASSUME TypeInv, DeathInv, [Next]_vars
    PROVE  DeathInv'
<1>1. ASSUME NEW s \in Subscribers, Subscribe(s)
      PROVE  DeathInv'
  BY <1>1 DEF DeathInv, Subscribe
<1>2. ASSUME NEW s \in Subscribers, Unsubscribe(s)
      PROVE  DeathInv'
  BY <1>2 DEF DeathInv, Unsubscribe
<1>3. ASSUME NEW s \in Subscribers, OnRemoteDied(s)
      PROVE  DeathInv'
  BY <1>3 DEF DeathInv, OnRemoteDied
<1>4. ASSUME NEW s \in Subscribers, UncountDied(s)
      PROVE  DeathInv'
  BY <1>4 DEF DeathInv, UncountDied
<1>5. ASSUME NEW a \in Apps, NEW e \in Events, NapiStartSecurityEventCollector(a, e) \/ NapiStopSecurityEventCollector(a, e)
      PROVE  DeathInv'
  BY <1>5, NapiSteps DEF DeathInv, TypeInv
<1>6. ASSUME NEW a \in Apps, ManagerQuery(a)
      PROVE  DeathInv'
  BY <1>6 DEF DeathInv, ManagerQuery
<1>7. ASSUME NEW t \in Threads \ Apps, SubscribeImpl(t)
      PROVE  DeathInv'
  BY <1>7, EndKit, Apart DEF DeathInv, SubscribeImpl, At, Living
<1>8. ASSUME NEW t \in Threads \ Apps, CountSubscriber(t)
      PROVE  DeathInv'
  BY <1>8 DEF DeathInv, CountSubscriber
<1>9. ASSUME NEW t \in Threads \ Apps, SubscribeCollector(t)
      PROVE  DeathInv'
  BY <1>9, EndKit, Apart DEF DeathInv, SubscribeCollector, At, Living
<1>10. ASSUME NEW t \in Threads \ Apps, Uncount(t)
      PROVE  DeathInv'
  BY <1>10, EndKit, Apart DEF DeathInv, Uncount, At, Living
<1>11. ASSUME NEW s \in Subscribers, UnsubscribeImpl(s)
      PROVE  DeathInv'
  BY <1>11, EndKit, Apart DEF DeathInv, UnsubscribeImpl, At, Living
<1>12. ASSUME NEW s \in Subscribers, CleanSubscriber(s)
      PROVE  DeathInv'
  BY <1>12, EndKit, Apart DEF DeathInv, CleanSubscriber, At, Living
<1>13. ASSUME NEW s \in Subscribers, UnsubscribeDone(s)
      PROVE  DeathInv'
  BY <1>13, EndKit, Apart DEF DeathInv, UnsubscribeDone, At, Living
<1>14. ASSUME NEW a \in Apps, CollectorImpl(a)
      PROVE  DeathInv'
  BY <1>14, EndKit, Apart DEF DeathInv, CollectorImpl, At, Living
<1>15. ASSUME NEW a \in Apps, CountRun(a)
      PROVE  DeathInv'
  BY <1>15 DEF DeathInv, CountRun
<1>16. ASSUME NEW a \in Apps, CollectorStart(a)
      PROVE  DeathInv'
  BY <1>16, EndKit, Apart DEF DeathInv, CollectorStart, At, Living
<1>17. ASSUME NEW a \in Apps, UncountRun(a)
      PROVE  DeathInv'
  BY <1>17, EndKit, Apart DEF DeathInv, UncountRun, At, Living
<1>18. ASSUME NEW a \in Apps, CollectorStop(a)
      PROVE  DeathInv'
  BY <1>18, EndKit, Apart DEF DeathInv, CollectorStop, At, Living
<1>19. ASSUME NEW a \in Apps, UncountStop(a)
      PROVE  DeathInv'
  BY <1>19, EndKit, Apart DEF DeathInv, UncountStop, At, Living
<1>20. ASSUME NEW a \in Apps, CountQuery(a)
      PROVE  DeathInv'
  BY <1>20 DEF DeathInv, CountQuery
<1>21. ASSUME NEW a \in Apps, QueryDone(a)
      PROVE  DeathInv'
  BY <1>21, EndKit, Apart DEF DeathInv, QueryDone, At, Living
<1>22. ASSUME NEW t \in Threads, DeadReply(t)
      PROVE  DeathInv'
  BY <1>22, EndKit, Apart DEF DeathInv, DeadReply, At, Active
<1>23. ASSUME AskUnload
      PROVE  DeathInv'
  BY <1>23 DEF DeathInv, AskUnload
<1>24. ASSUME up /\ Ends
      PROVE  DeathInv'
  BY <1>24 DEF DeathInv, Ends
<1>25. ASSUME NEW p \in Processes, ProcessDies(p)
      PROVE  DeathInv'
  BY <1>25 DEF DeathInv, ProcessDies, TypeInv, KitOK, ServiceOK
<1>26. ASSUME NEW r \in Recoveries, HandleDecipient(r[1], r[2])
      PROVE  DeathInv'
  BY <1>26 DEF DeathInv, HandleDecipient
<1>27. ASSUME NEW r \in Recoveries, Attempt(r)
      PROVE  DeathInv'
  BY <1>27 DEF DeathInv, Attempt
<1>28. ASSUME NEW r \in Recoveries, Recovered(r)
      PROVE  DeathInv'
  BY <1>28 DEF DeathInv, Recovered
<1>29. ASSUME NEW r \in Recoveries, NEW s \in Subscribers, Resubscribe(r, s)
      PROVE  DeathInv'
  BY <1>29 DEF DeathInv, Resubscribe
<1>30. ASSUME UNCHANGED vars
      PROVE  DeathInv'
  BY <1>30 DEF DeathInv, vars
<1> QED
  BY <1>1, <1>2, <1>3, <1>4, <1>5, <1>6, <1>7, <1>8, <1>9, <1>10, <1>11, <1>12, <1>13, <1>14, <1>15, <1>16, <1>17, <1>18, <1>19, <1>20, <1>21, <1>22, <1>23, <1>24, <1>25, <1>26, <1>27, <1>28, <1>29, <1>30 DEF Next, InCall, Recover, Unload, Crashes

-------------------------------------------------------------------------------
(* Collectors                                                              *)

(* A step that leaves the tables and the collectors alone.                 *)
LEMMA SameServed ==
    ASSUME ServedInv, UNCHANGED <<subscribers, runs, cut, loaderMap, localRuns, localStuck, localMap>>
    PROVE  ServedInv'
  BY DEF ServedInv, Served, Taken

(* What a step stops is in use no more, or is in cut.                      *)
LEMMA CutCovers ==
    ASSUME Served, NEW S, Cut(S), UNCHANGED <<localRuns, localStuck, localMap>>,
           \A e \in Events : Taken(e)' \/ runs'[e] # None =>
               e \in loaderMap' \/ ((Taken(e) \/ runs[e] # None) /\ (e \in loaderMap => e \in S))
    PROVE  Served'
<1>1. \A e \in Events \ cut' : Taken(e)' \/ runs'[e] # None => e \in loaderMap'
  <2> SUFFICES ASSUME NEW e \in Events, e \notin cut', Taken(e)' \/ runs'[e] # None, e \notin loaderMap'
               PROVE  FALSE
    OBVIOUS
  <2>1. (Taken(e) \/ runs[e] # None) /\ (e \in loaderMap => e \in S)
    OBVIOUS
  <2>2. e \notin cut /\ ~(e \in S /\ e \in loaderMap)
    BY DEF Cut
  <2> QED
    BY <2>1, <2>2 DEF Served
<1> QED
  BY <1>1 DEF Served

(* So it is when a subscriber goes: only a run can still be using its event. *)
LEMMA UnsubscribeServes ==
    ASSUME TypeInv, ServedInv, NEW s \in Subscribers, UnsubscribeCollector(s),
           UNCHANGED <<runs, localRuns, localStuck, localMap>>
    PROVE  ServedInv'
<1>1. /\ subscribers' = subscribers \ {s} /\ Cut(Running({EventOf[s]}))
      /\ \A e \in loaderMap \ loaderMap' : e = EventOf[s] /\ \A o \in subscribers \ {s} : EventOf[o] # e
  BY UnsubscribePool DEF TypeInv, PoolOK
<1>2. ASSUME NEW e \in Events, Taken(e)' \/ runs'[e] # None
      PROVE  e \in loaderMap' \/ ((Taken(e) \/ runs[e] # None)
                                     /\ (e \in loaderMap => e \in Running({EventOf[s]})))
  <2>1. Taken(e) \/ runs[e] # None
    BY <1>1, <1>2 DEF Taken
  <2>2. CASE e \in loaderMap \ loaderMap'
    BY <1>1, <1>2, <2>2 DEF Taken, Running
  <2> QED
    BY <2>1, <2>2
<1>3. Served'
  BY <1>1, <1>2, CutCovers DEF ServedInv
<1> QED
  BY <1>1, <1>3 DEF ServedInv

LEMMA ServedHolds ==
    ASSUME TypeInv, ServedInv, [Next]_vars
    PROVE  ServedInv'
<1> USE ServiceAssumption
<1>1. ASSUME NEW s \in Subscribers, Subscribe(s)
      PROVE  ServedInv'
  BY <1>1, SameServed DEF Subscribe
<1>2. ASSUME NEW s \in Subscribers, Unsubscribe(s)
      PROVE  ServedInv'
  BY <1>2, SameServed DEF Unsubscribe
<1>3. ASSUME NEW s \in Subscribers, OnRemoteDied(s)
      PROVE  ServedInv'
  BY <1>3, UnsubscribeServes DEF OnRemoteDied
<1>4. ASSUME NEW s \in Subscribers, UncountDied(s)
      PROVE  ServedInv'
  BY <1>4, SameServed DEF UncountDied
<1>5. ASSUME NEW a \in Apps, NEW e \in Events, NapiStartSecurityEventCollector(a, e) \/ NapiStopSecurityEventCollector(a, e)
      PROVE  ServedInv'
  BY <1>5, NapiSteps DEF ServedInv, Served, Taken, TypeInv
<1>6. ASSUME NEW a \in Apps, ManagerQuery(a)
      PROVE  ServedInv'
  BY <1>6, SameServed DEF ManagerQuery
<1>7. ASSUME NEW t \in Threads \ Apps, SubscribeImpl(t)
      PROVE  ServedInv'
  BY <1>7, SameServed DEF SubscribeImpl
<1>8. ASSUME NEW t \in Threads \ Apps, CountSubscriber(t)
      PROVE  ServedInv'
  BY <1>8, SameServed DEF CountSubscriber
<1>9. ASSUME NEW t \in Threads \ Apps, SubscribeCollector(t)
      PROVE  ServedInv'
  <2>1. UNCHANGED <<runs, localRuns, localStuck, localMap>> /\ call[t].x \in Subscribers /\ Cut({})
    BY <1>9, CallFacts DEF SubscribeCollector, At
  <2>2. \/ /\ ~Taken(EventOf[call[t].x]) /\ subscribers' = subscribers \cup {call[t].x}
           /\ loaderMap' = loaderMap \cup {EventOf[call[t].x]}
        \/ subscribers' = subscribers /\ loaderMap \subseteq loaderMap'
    BY <1>9 DEF SubscribeCollector, SubscribeCollectorsOk, SubscribeCollectorsFail
  <2>3. \A e \in Events : Taken(e)' =>
          e \in loaderMap' \/ (Taken(e) /\ (e \in loaderMap => e \in {}))
    BY <2>2 DEF Taken
  <2>4. \A e \in Events : Taken(e)' \/ runs'[e] # None =>
          e \in loaderMap' \/ ((Taken(e) \/ runs[e] # None) /\ (e \in loaderMap => e \in {}))
    BY <2>1, <2>2, <2>3
  <2>5. Served'
    BY <2>1, <2>4, CutCovers DEF ServedInv
  <2> QED
    BY <2>1, <2>2, <2>5 DEF ServedInv, Taken
<1>10. ASSUME NEW t \in Threads \ Apps, Uncount(t)
      PROVE  ServedInv'
  BY <1>10, SameServed DEF Uncount
<1>11. ASSUME NEW s \in Subscribers, UnsubscribeImpl(s)
      PROVE  ServedInv'
  BY <1>11, SameServed DEF UnsubscribeImpl
<1>12. ASSUME NEW s \in Subscribers, CleanSubscriber(s)
      PROVE  ServedInv'
  BY <1>12, UnsubscribeServes, SameServed DEF CleanSubscriber
<1>13. ASSUME NEW s \in Subscribers, UnsubscribeDone(s)
      PROVE  ServedInv'
  BY <1>13, SameServed DEF UnsubscribeDone
<1>14. ASSUME NEW a \in Apps, CollectorImpl(a)
      PROVE  ServedInv'
  BY <1>14, SameServed DEF CollectorImpl
<1>15. ASSUME NEW a \in Apps, CountRun(a)
      PROVE  ServedInv'
  BY <1>15, SameServed DEF CountRun
<1>16. ASSUME NEW a \in Apps, CollectorStart(a)
      PROVE  ServedInv'
  <2>1. /\ UNCHANGED <<subscribers, localRuns, localStuck, localMap>> /\ Cut({})
        /\ runs \in [Events -> Apps \cup {None}]
    BY <1>16 DEF CollectorStart, TypeInv, ServiceOK
  <2>2. \/ /\ call[a].x \in CanStart /\ runs' = [runs EXCEPT ![call[a].x] = a]
           /\ loaderMap' = loaderMap \cup {call[a].x}
        \/ runs' = runs /\ loaderMap' = loaderMap
    BY <1>16 DEF CollectorStart, RunEvent, StartCollectorsOk, StartCollectorsFail
  <2>3. \A e \in Events : Taken(e)' \/ runs'[e] # None =>
          e \in loaderMap' \/ ((Taken(e) \/ runs[e] # None) /\ (e \in loaderMap => e \in {}))
    BY <2>1, <2>2 DEF Taken
  <2>4. Served'
    BY <2>1, <2>3, CutCovers DEF ServedInv
  <2> QED
    BY <2>1, <2>2, <2>4, ServiceAssumption DEF ServedInv
<1>17. ASSUME NEW a \in Apps, UncountRun(a)
      PROVE  ServedInv'
  BY <1>17, SameServed DEF UncountRun
<1>18. ASSUME NEW a \in Apps, CollectorStop(a)
      PROVE  ServedInv'
  <2>1. /\ UNCHANGED <<subscribers, localRuns, localStuck, localMap>>
        /\ runs \in [Events -> Apps \cup {None}] /\ call[a].x \in Events
    BY <1>18, Apart, CallFacts DEF CollectorStop, At, TypeInv, ServiceOK
  <2>2. CASE UNCHANGED <<runs, cut, loaderMap>>
    BY <2>1, <2>2, SameServed
  <2>3. CASE /\ runs' = [runs EXCEPT ![call[a].x] = None]
             /\ loaderMap' = loaderMap \ {call[a].x} /\ Cut({x \in {call[a].x} : Taken(x)})
    <3>1. \A e \in Events : Taken(e)' \/ runs'[e] # None =>
            e \in loaderMap' \/ ((Taken(e) \/ runs[e] # None)
                                   /\ (e \in loaderMap => e \in {x \in {call[a].x} : Taken(x)}))
      BY <2>1, <2>3 DEF Taken
    <3>2. Served'
      BY <2>1, <2>3, <3>1, CutCovers DEF ServedInv
    <3> QED
      BY <2>1, <2>3, <3>2 DEF ServedInv
  <2>4. CASE runs' = runs /\ Cut({call[a].x}) /\ loaderMap' \in {loaderMap, loaderMap \ {call[a].x}}
    <3>1. \A e \in Events : Taken(e)' \/ runs'[e] # None =>
            e \in loaderMap' \/ ((Taken(e) \/ runs[e] # None) /\ (e \in loaderMap => e \in {call[a].x}))
      BY <2>1, <2>4 DEF Taken
    <3>2. Served'
      BY <2>1, <2>4, <3>1, CutCovers DEF ServedInv
    <3> QED
      BY <2>1, <2>4, <3>2 DEF ServedInv
  <2>5. \/ UNCHANGED <<runs, cut, loaderMap>>
        \/ /\ runs' = [runs EXCEPT ![call[a].x] = None]
           /\ loaderMap' = loaderMap \ {call[a].x} /\ Cut({x \in {call[a].x} : Taken(x)})
        \/ runs' = runs /\ Cut({call[a].x}) /\ loaderMap' \in {loaderMap, loaderMap \ {call[a].x}}
    BY <1>18 DEF CollectorStop, RunEvent, StopCollectors
  <2> QED
    BY <2>2, <2>3, <2>4, <2>5
<1>19. ASSUME NEW a \in Apps, UncountStop(a)
      PROVE  ServedInv'
  BY <1>19, SameServed DEF UncountStop
<1>20. ASSUME NEW a \in Apps, CountQuery(a)
      PROVE  ServedInv'
  BY <1>20, SameServed DEF CountQuery
<1>21. ASSUME NEW a \in Apps, QueryDone(a)
      PROVE  ServedInv'
  BY <1>21, SameServed DEF QueryDone
<1>22. ASSUME NEW t \in Threads, DeadReply(t)
      PROVE  ServedInv'
  BY <1>22, SameServed DEF DeadReply
<1>23. ASSUME AskUnload
      PROVE  ServedInv'
  BY <1>23, SameServed DEF AskUnload
<1>24. ASSUME up /\ Ends
      PROVE  ServedInv'
  BY <1>24 DEF Ends, ServedInv, Served, Taken
<1>25. ASSUME NEW p \in Processes, ProcessDies(p)
      PROVE  ServedInv'
  BY <1>25, SameServed DEF ProcessDies
<1>26. ASSUME NEW r \in Recoveries, HandleDecipient(r[1], r[2])
      PROVE  ServedInv'
  BY <1>26, SameServed DEF HandleDecipient
<1>27. ASSUME NEW r \in Recoveries, Attempt(r)
      PROVE  ServedInv'
  BY <1>27, SameServed DEF Attempt
<1>28. ASSUME NEW r \in Recoveries, Recovered(r)
      PROVE  ServedInv'
  BY <1>28, SameServed DEF Recovered
<1>29. ASSUME NEW r \in Recoveries, NEW s \in Subscribers, Resubscribe(r, s)
      PROVE  ServedInv'
  BY <1>29, SameServed DEF Resubscribe
<1>30. ASSUME UNCHANGED vars
      PROVE  ServedInv'
  BY <1>30, SameServed DEF vars
<1> QED
  BY <1>1, <1>2, <1>3, <1>4, <1>5, <1>6, <1>7, <1>8, <1>9, <1>10, <1>11, <1>12, <1>13, <1>14, <1>15, <1>16, <1>17, <1>18, <1>19, <1>20, <1>21, <1>22, <1>23, <1>24, <1>25, <1>26, <1>27, <1>28, <1>29, <1>30 DEF Next, InCall, Recover, Unload, Crashes

-------------------------------------------------------------------------------
(* The count                                                               *)

(* T is S with d elements more: one, none, or one less.                    *)
Differs(S, T, d) ==
    \/ d = 0 /\ T = S
    \/ d = 1 /\ \E x : x \notin S /\ T = S \cup {x}
    \/ d = -1 /\ \E x : x \in S /\ T = S \ {x}

LEMMA Differing ==
    ASSUME NEW S, NEW T, NEW d, IsFiniteSet(S), Differs(S, T, d)
    PROVE  IsFiniteSet(T) /\ Cardinality(S) \in Nat /\ Cardinality(T) \in Nat
           /\ d \in Int /\ Cardinality(T) = Cardinality(S) + d
<1>1. Cardinality(S) \in Nat
  BY FS_CardinalityType
<1>2. CASE d = 0 /\ T = S
  BY <1>1, <1>2
<1>3. CASE d = 1 /\ \E x : x \notin S /\ T = S \cup {x}
  <2>1. PICK x : x \notin S /\ T = S \cup {x}
    BY <1>3
  <2>2. IsFiniteSet(T) /\ Cardinality(T) = Cardinality(S) + 1
    BY <2>1, FS_AddElement
  <2> QED
    BY <1>1, <1>3, <2>2
<1>4. CASE d = -1 /\ \E x : x \in S /\ T = S \ {x}
  <2>1. PICK x : x \in S /\ T = S \ {x}
    BY <1>4
  <2>2. IsFiniteSet(T) /\ Cardinality(T) = Cardinality(S) - 1
    BY <2>1, FS_RemoveElement
  <2>3. Cardinality(T) \in Nat
    BY <2>2, FS_CardinalityType
  <2> QED
    BY <1>1, <1>4, <2>2, <2>3
<1> QED
  BY <1>2, <1>3, <1>4 DEF Differs

(* The count follows the tables and the calls.                             *)
LEMMA Recount ==
    ASSUME TypeInv, CountInv, NEW ds, NEW dr, NEW dc, NEW di,
           Differs(subscribers, subscribers', ds), Differs(Runs, Runs', dr),
           Differs(cleaned, cleaned', dc), Differs(InCalls, InCalls', di),
           misStops' = 0 => misStops = 0 /\ refCount' = refCount + (ds + dr + dc + di)
    PROVE  CountInv'
<1>1. /\ IsFiniteSet(subscribers') /\ Cardinality(subscribers) \in Nat /\ ds \in Int
      /\ Cardinality(subscribers') = Cardinality(subscribers) + ds
  BY Differing DEF CountInv
<1>2. /\ IsFiniteSet(Runs') /\ Cardinality(Runs) \in Nat /\ dr \in Int
      /\ Cardinality(Runs') = Cardinality(Runs) + dr
  BY Differing DEF CountInv
<1>3. /\ IsFiniteSet(cleaned') /\ Cardinality(cleaned) \in Nat /\ dc \in Int
      /\ Cardinality(cleaned') = Cardinality(cleaned) + dc
  BY Differing DEF CountInv
<1>4. /\ IsFiniteSet(InCalls') /\ Cardinality(InCalls) \in Nat /\ di \in Int
      /\ Cardinality(InCalls') = Cardinality(InCalls) + di
  BY Differing DEF CountInv
<1>5. Total' = Cardinality(subscribers') + Cardinality(Runs') + Cardinality(cleaned') + Cardinality(InCalls')
  BY DEF Total
<1>6. misStops' = 0 => refCount' = Total'
  BY <1>1, <1>2, <1>3, <1>4, <1>5 DEF CountInv, Total
<1> QED
  BY <1>1, <1>2, <1>3, <1>4, <1>6 DEF CountInv

(* A call is counted from the moment it is taken until it is given back.   *)
LEMMA CallsCounted ==
    ASSUME TypeInv, NEW t \in Threads, NEW l, MovesTo(t, l), UNCHANGED <<up, life>>,
           l \in Serving => ~Dead(t)
    PROVE  /\ InCalls' = IF l \in Serving THEN InCalls \cup {t} ELSE InCalls \ {t}
           /\ t \in InCalls <=> ~Dead(t) /\ call[t].at \in Serving
<1>1. \A u \in Threads : u \in InCalls <=> ~Dead(u) /\ call[u].at \in Serving
  BY DEF InCalls, Counted, Serving
<1>2. \A u \in Threads : u \in InCalls' <=> ~Dead(u)' /\ call'[u].at \in Serving
  BY DEF InCalls, Counted, Serving
<1>3. \A u \in Threads \ {t} : u \in InCalls' <=> u \in InCalls
  BY <1>1, <1>2 DEF MovesTo, Dead
<1>4. t \in InCalls' <=> l \in Serving
  BY <1>2 DEF MovesTo, Dead
<1>5. InCalls \subseteq Threads /\ InCalls' \subseteq Threads
  BY DEF InCalls
<1> QED
  BY <1>1, <1>3, <1>4, <1>5

(* None is counted when the service is loaded.                             *)
LEMMA LoadedCalls ==
    ASSUME TypeInv, LifeInv, LoadOk, life' = life,
           \A u \in Threads : \/ call'[u] = call[u]
                              \/ call[u].at \notin Serving /\ call'[u].at \notin Serving
    PROVE  InCalls' = InCalls
<1>1. \A u \in Threads : u \in InCalls <=> ~Dead(u) /\ call[u].at \in Serving
  BY DEF InCalls, Counted, Serving
<1>2. \A u \in Threads : u \in InCalls' <=> ~Dead(u)' /\ call'[u].at \in Serving
  BY DEF InCalls, Counted, Serving
<1>3. \A u \in Threads : call[u].at \in Serving => (\/ (Dead(u)' <=> Dead(u))
                                                    \/ call'[u].at \notin Serving)
  <2>1. ASSUME NEW u \in Threads, call[u].at \in Serving, ~up PROVE call[u].life # life
    BY <2>1 DEF LifeInv, Active, Serving, TypeInv, ServiceOK, CallsOK, Calls
  <2> QED
    BY <2>1 DEF Dead, LoadOk
<1>4. InCalls \subseteq Threads /\ InCalls' \subseteq Threads
  BY DEF InCalls
<1> QED
  BY <1>1, <1>2, <1>3, <1>4

(* A step that counts nobody.                                              *)
LEMMA SameCount ==
    ASSUME TypeInv, CountInv, UNCHANGED <<refCount, subscribers, runs, cleaned, misStops>>, InCalls' = InCalls
    PROVE  CountInv'
<1>1. Runs' = Runs
  BY DEF Runs
<1>2. Differs(subscribers, subscribers', 0) /\ Differs(Runs, Runs', 0)
      /\ Differs(cleaned, cleaned', 0) /\ Differs(InCalls, InCalls', 0)
  BY <1>1 DEF Differs
<1>3. refCount' = refCount + (0 + 0 + 0 + 0)
  BY DEF TypeInv, ServiceOK
<1> QED
  BY <1>2, <1>3, Recount

(* A thread that goes on is not idle, and one that ends is.                *)
LEMMA GoesOrEnds ==
    ASSUME TypeInv, NEW t \in Threads
    PROVE  /\ \A l : Go(t, l) => call'[t].at = l
           /\ \A r : End(t, r) => call'[t].at = "idle"
           /\ \A l : MovesTo(t, l) => call'[t].at = l
  BY IdleOK DEF Go, End, MovesTo, TypeInv, CallsOK, Calls

(* What the steps that trade a call for an entry of a table, or back, do.   *)
LEMMA SubscribeMoves ==
    ASSUME TypeInv, NEW t \in Threads \ Apps, SubscribeCollector(t)
    PROVE  \/ ~Taken(EventOf[call[t].x]) /\ subscribers' = subscribers \cup {call[t].x} /\ MovesTo(t, "idle")
           \/ subscribers' = subscribers /\ MovesTo(t, "refused")
<1>1. call[t].at = "counted" /\ (MovesTo(t, "idle") \/ MovesTo(t, "refused"))
  BY ServiceSteps DEF SubscribeCollector, At
<1>2. \/ ~Taken(EventOf[call[t].x]) /\ subscribers' = subscribers \cup {call[t].x} /\ End(t, "ok")
      \/ subscribers' = subscribers /\ Go(t, "refused")
  BY DEF SubscribeCollector
<1> QED
  BY <1>1, <1>2, GoesOrEnds DEF Serving
LEMMA CleanMoves ==
    ASSUME TypeInv, NEW s \in Subscribers, CleanSubscriber(s)
    PROVE  \/ s \in subscribers /\ subscribers' = subscribers \ {s} /\ MovesTo(s, "cleaned")
           \/ subscribers' = subscribers /\ MovesTo(s, "idle")
<1>1. MovesTo(s, "idle") \/ MovesTo(s, "cleaned")
  BY ServiceSteps
<1>2. \/ s \in subscribers /\ subscribers' = subscribers \ {s} /\ Go(s, "cleaned")
      \/ subscribers' = subscribers /\ End(s, "ok")
      \/ subscribers' = subscribers /\ End(s, "fail")
  BY DEF CleanSubscriber, UnsubscribeCollector
<1> QED
  BY <1>1, <1>2, GoesOrEnds, Apart DEF Serving
LEMMA StartMoves ==
    ASSUME TypeInv, NEW a \in Apps, CollectorStart(a)
    PROVE  \/ call[a].x \in Events \ Runs /\ runs' = [runs EXCEPT ![call[a].x] = a] /\ MovesTo(a, "idle")
           \/ runs' = runs /\ MovesTo(a, "refused")
<1>1. MovesTo(a, "idle") \/ MovesTo(a, "refused")
  BY ServiceSteps
<1>2. \/ call[a].x \in Events \ Runs /\ runs' = [runs EXCEPT ![call[a].x] = a] /\ End(a, "ok")
      \/ runs' = runs /\ Go(a, "refused")
  BY CallFacts, Apart DEF CollectorStart, RunEvent, Runs, At
<1> QED
  BY <1>1, <1>2, GoesOrEnds, Apart DEF Serving
LEMMA StopMoves ==
    ASSUME TypeInv, NEW a \in Apps, CollectorStop(a)
    PROVE  \/ /\ call[a].x \in Runs /\ runs' = [runs EXCEPT ![call[a].x] = None]
              /\ MovesTo(a, "stopped") /\ misStops' = misStops
           \/ runs' = runs /\ MovesTo(a, "stopped") /\ misStops' = misStops + 1
           \/ runs' = runs /\ MovesTo(a, "idle") /\ misStops' = misStops
<1>1. MovesTo(a, "idle") \/ MovesTo(a, "stopped")
  BY ServiceSteps
<1>2. \/ /\ call[a].x \in Runs /\ runs' = [runs EXCEPT ![call[a].x] = None]
         /\ Go(a, "stopped") /\ misStops' = misStops
      \/ runs' = runs /\ Go(a, "stopped") /\ misStops' = misStops + 1
      \/ runs' = runs /\ End(a, "fail") /\ misStops' = misStops
  BY CallFacts, Apart DEF CollectorStop, RunEvent, Runs, At
<1> QED
  BY <1>1, <1>2, GoesOrEnds, Apart DEF Serving

LEMMA CountHolds ==
    ASSUME TypeInv, LifeInv, DeathInv, TasksOK, CountInv, [Next]_vars
    PROVE  CountInv'
<1>1. ASSUME NEW s \in Subscribers, Subscribe(s)
      PROVE  CountInv'
  <2>1. UNCHANGED <<refCount, subscribers, runs, cleaned, misStops, up, life>> /\ call[s].at = "idle"
    BY <1>1 DEF Subscribe, At
  <2>2. MovesTo(s, "begin")
    BY <1>1, CallSteps
  <2>3. InCalls' = InCalls
    BY <2>1, <2>2, CallsCounted, Apart DEF Serving
  <2> QED
    BY <2>1, <2>3, SameCount
<1>2. ASSUME NEW s \in Subscribers, Unsubscribe(s)
      PROVE  CountInv'
  <2>1. UNCHANGED <<refCount, subscribers, runs, cleaned, misStops, up, life>> /\ call[s].at = "idle"
    BY <1>2 DEF Unsubscribe, At
  <2>2. MovesTo(s, "begin")
    BY <1>2, CallSteps
  <2>3. InCalls' = InCalls
    BY <2>1, <2>2, CallsCounted, Apart DEF Serving
  <2> QED
    BY <2>1, <2>3, SameCount
<1>3. ASSUME NEW s \in Subscribers, OnRemoteDied(s)
      PROVE  CountInv'
  <2>1. UNCHANGED <<refCount, runs, misStops, up, life, call>> /\ Runs' = Runs /\ InCalls' = InCalls
    BY <1>3 DEF OnRemoteDied, Runs, InCalls, Counted, Dead
  <2>2. subscribers' = subscribers \ {s} /\ cleaned' = cleaned \cup ({s} \cap subscribers) /\ s \notin cleaned
    BY <1>3 DEF OnRemoteDied, UnsubscribeCollector, DeathInv
  <2>3. CASE s \notin subscribers
    <3>1. subscribers' = subscribers /\ cleaned' = cleaned
      BY <2>2, <2>3
    <3> QED
      BY <2>1, <3>1, SameCount
  <2>4. CASE s \in subscribers
    <3>1. cleaned' = cleaned \cup {s}
      BY <2>2, <2>4
    <3>2. Differs(subscribers, subscribers', -1) /\ Differs(cleaned, cleaned', 1)
          /\ Differs(Runs, Runs', 0) /\ Differs(InCalls, InCalls', 0)
      BY <2>1, <2>2, <2>4, <3>1 DEF Differs
    <3>3. misStops' = 0 => misStops = 0 /\ refCount' = refCount + ((-1) + 0 + 1 + 0)
      BY <2>1 DEF TypeInv, ServiceOK
    <3> QED
      BY <3>2, <3>3, Recount
  <2> QED
    BY <2>3, <2>4
<1>4. ASSUME NEW s \in Subscribers, UncountDied(s)
      PROVE  CountInv'
  <2>1. UNCHANGED <<subscribers, runs, misStops, up, life, call>> /\ Runs' = Runs /\ InCalls' = InCalls
    BY <1>4 DEF UncountDied, Runs, InCalls, Counted, Dead
  <2>2. Differs(cleaned, cleaned', -1) /\ Differs(subscribers, subscribers', 0)
        /\ Differs(Runs, Runs', 0) /\ Differs(InCalls, InCalls', 0)
    BY <1>4, <2>1 DEF UncountDied, Differs
  <2>3. /\ Cardinality(cleaned') \in Nat /\ Cardinality(cleaned) = Cardinality(cleaned') + 1
        /\ Cardinality(subscribers) \in Nat /\ Cardinality(Runs) \in Nat /\ Cardinality(InCalls) \in Nat
    <3>1. /\ Cardinality(cleaned') \in Nat /\ Cardinality(cleaned) \in Nat
          /\ Cardinality(cleaned') = Cardinality(cleaned) + (-1)
      BY <2>2, Differing DEF CountInv
    <3> QED
      BY <3>1, FS_CardinalityType DEF CountInv
  <2>4. misStops = 0 => refCount > 0
    BY <2>3 DEF CountInv, Total
  <2>5. misStops' = 0 => misStops = 0 /\ refCount' = refCount + (0 + 0 + (-1) + 0)
    BY <1>4, <2>1, <2>4 DEF UncountDied, TypeInv, ServiceOK
  <2> QED
    BY <2>2, <2>5, Recount
<1>5. ASSUME NEW a \in Apps, NEW e \in Events, NapiStartSecurityEventCollector(a, e) \/ NapiStopSecurityEventCollector(a, e)
      PROVE  CountInv'
  <2>1. UNCHANGED <<refCount, subscribers, runs, cleaned, misStops, up, life>>
    BY <1>5, NapiSteps DEF TypeInv
  <2>2. call[a].at = "idle"
    BY <1>5 DEF NapiStartSecurityEventCollector, NapiStopSecurityEventCollector, At
  <2>3. InCalls' = InCalls
    <3>1. CASE MovesTo(a, "begin")
      BY <2>1, <2>2, <3>1, CallsCounted, Apart DEF Serving
    <3>2. CASE UNCHANGED call
      BY <2>1, <3>2 DEF InCalls, Counted, Dead
    <3> QED
      BY <1>5, <3>1, <3>2, CallSteps
  <2> QED
    BY <2>1, <2>3, SameCount
<1>6. ASSUME NEW a \in Apps, ManagerQuery(a)
      PROVE  CountInv'
  <2>1. UNCHANGED <<refCount, subscribers, runs, cleaned, misStops, up, life>>
    BY <1>6 DEF ManagerQuery
  <2>2. InCalls' = InCalls
    <3>1. call[a].at = "idle" /\ a \in Threads
      BY <1>6, Apart DEF ManagerQuery, At
    <3>2. MovesTo(a, "begin")
      BY <1>6, CallSteps
    <3> QED
      BY <2>1, <3>1, <3>2, CallsCounted DEF Serving
  <2> QED
    BY <2>1, <2>2, SameCount
<1>7. ASSUME NEW t \in Threads \ Apps, SubscribeImpl(t)
      PROVE  CountInv'
  <2>1. UNCHANGED <<refCount, subscribers, runs, cleaned, misStops, life>> /\ (UNCHANGED up \/ LoadOk) /\ t \in Threads
    BY <1>7, Apart DEF SubscribeImpl, LoadFails
  <2>2. call[t].at = "begin" /\ (MovesTo(t, "idle") \/ MovesTo(t, "call"))
    BY <1>7, CallSteps DEF SubscribeImpl, At
  <2>3. CASE UNCHANGED up
    BY <2>1, <2>2, <2>3, CallsCounted, SameCount DEF Serving
  <2>4. CASE LoadOk
    <3>1. \A u \in Threads : \/ call'[u] = call[u]
                             \/ call[u].at \notin Serving /\ call'[u].at \notin Serving
      BY <2>2 DEF MovesTo, Serving
    <3>2. life' = life
      BY <2>1
    <3>3. InCalls' = InCalls
      BY <2>4, <3>1, <3>2, LoadedCalls
    <3> QED
      BY <2>1, <3>3, SameCount
  <2> QED
    BY <2>1, <2>3, <2>4
<1>8. ASSUME NEW t \in Threads \ Apps, CountSubscriber(t)
      PROVE  CountInv'
  <2>1. UNCHANGED <<subscribers, runs, cleaned, misStops, up, life>> /\ Runs' = Runs /\ refCount' = refCount + (1) /\ ~Dead(t)
    BY <1>8 DEF CountSubscriber, Runs, TypeInv, ServiceOK
  <2>2. Differs(InCalls, InCalls', 1)
    BY <1>8, <2>1, ServiceSteps, CallsCounted, Apart DEF CountSubscriber, At, Serving, Differs
  <2>3. Differs(subscribers, subscribers', 0) /\ Differs(Runs, Runs', 0) /\ Differs(cleaned, cleaned', 0)
    BY <2>1 DEF Differs
  <2>4. refCount' = refCount + (0 + 0 + 0 + (1))
    BY <2>1
  <2> QED
    BY <2>1, <2>2, <2>3, <2>4, Recount
<1>9. ASSUME NEW t \in Threads \ Apps, SubscribeCollector(t)
      PROVE  CountInv'
  <2>1. UNCHANGED <<refCount, runs, cleaned, misStops, up, life>> /\ Runs' = Runs /\ ~Dead(t) /\ call[t].at = "counted"
    BY <1>9 DEF SubscribeCollector, Runs, At
  <2>2. CASE ~Taken(EventOf[call[t].x]) /\ subscribers' = subscribers \cup {call[t].x} /\ MovesTo(t, "idle")
    <3>1. Differs(subscribers, subscribers', 1)
      BY <2>2 DEF Differs, Taken
    <3>2. Differs(InCalls, InCalls', -1)
      BY <2>1, <2>2, CallsCounted DEF Differs, Serving
    <3>3. Differs(Runs, Runs', 0) /\ Differs(cleaned, cleaned', 0)
      BY <2>1 DEF Differs
    <3>4. misStops' = 0 => misStops = 0 /\ refCount' = refCount + (1 + 0 + 0 + (-1))
      BY <2>1 DEF TypeInv, ServiceOK
    <3> QED
      BY <3>1, <3>2, <3>3, <3>4, Recount
  <2>3. CASE subscribers' = subscribers /\ MovesTo(t, "refused")
    <3>1. InCalls' = InCalls
      BY <2>1, <2>3, CallsCounted DEF Serving
    <3> QED
      BY <2>1, <2>3, <3>1, SameCount
  <2> QED
    BY <1>9, <2>2, <2>3, SubscribeMoves
<1>10. ASSUME NEW t \in Threads \ Apps, Uncount(t)
      PROVE  CountInv'
  <2>1. UNCHANGED <<subscribers, runs, cleaned, misStops, up, life>> /\ Runs' = Runs /\ refCount' = refCount + (-1) /\ ~Dead(t)
    BY <1>10 DEF Uncount, Runs, TypeInv, ServiceOK
  <2>2. Differs(InCalls, InCalls', -1)
    BY <1>10, <2>1, ServiceSteps, CallsCounted, Apart DEF Uncount, At, Serving, Differs
  <2>3. Differs(subscribers, subscribers', 0) /\ Differs(Runs, Runs', 0) /\ Differs(cleaned, cleaned', 0)
    BY <2>1 DEF Differs
  <2>4. refCount' = refCount + (0 + 0 + 0 + (-1))
    BY <2>1
  <2> QED
    BY <2>1, <2>2, <2>3, <2>4, Recount
<1>11. ASSUME NEW s \in Subscribers, UnsubscribeImpl(s)
      PROVE  CountInv'
  <2>1. UNCHANGED <<refCount, subscribers, runs, cleaned, misStops, life>> /\ (UNCHANGED up \/ LoadOk) /\ s \in Threads
    BY <1>11, Apart DEF UnsubscribeImpl, LoadFails
  <2>2. call[s].at = "begin" /\ (MovesTo(s, "idle") \/ MovesTo(s, "call"))
    BY <1>11, CallSteps DEF UnsubscribeImpl, At
  <2>3. CASE UNCHANGED up
    BY <2>1, <2>2, <2>3, CallsCounted, SameCount DEF Serving
  <2>4. CASE LoadOk
    <3>1. \A u \in Threads : \/ call'[u] = call[u]
                             \/ call[u].at \notin Serving /\ call'[u].at \notin Serving
      BY <2>2 DEF MovesTo, Serving
    <3>2. life' = life
      BY <2>1
    <3>3. InCalls' = InCalls
      BY <2>4, <3>1, <3>2, LoadedCalls
    <3> QED
      BY <2>1, <3>3, SameCount
  <2> QED
    BY <2>1, <2>3, <2>4
<1>12. ASSUME NEW s \in Subscribers, CleanSubscriber(s)
      PROVE  CountInv'
  <2>1. UNCHANGED <<refCount, runs, cleaned, misStops, up, life>> /\ Runs' = Runs /\ ~Dead(s) /\ call[s].at = "call" /\ s \in Threads
    BY <1>12, Apart DEF CleanSubscriber, Runs, At
  <2>2. CASE s \in subscribers /\ subscribers' = subscribers \ {s} /\ MovesTo(s, "cleaned")
    <3>1. Differs(subscribers, subscribers', -1)
      BY <2>2 DEF Differs
    <3>2. Differs(InCalls, InCalls', 1)
      BY <2>1, <2>2, CallsCounted DEF Differs, Serving
    <3>3. Differs(Runs, Runs', 0) /\ Differs(cleaned, cleaned', 0)
      BY <2>1 DEF Differs
    <3>4. misStops' = 0 => misStops = 0 /\ refCount' = refCount + ((-1) + 0 + 0 + 1)
      BY <2>1 DEF TypeInv, ServiceOK
    <3> QED
      BY <3>1, <3>2, <3>3, <3>4, Recount
  <2>3. CASE subscribers' = subscribers /\ MovesTo(s, "idle")
    <3>1. InCalls' = InCalls
      BY <2>1, <2>3, CallsCounted DEF Serving
    <3> QED
      BY <2>1, <2>3, <3>1, SameCount
  <2> QED
    BY <1>12, <2>2, <2>3, CleanMoves
<1>13. ASSUME NEW s \in Subscribers, UnsubscribeDone(s)
      PROVE  CountInv'
  <2>1. UNCHANGED <<subscribers, runs, cleaned, misStops, up, life>> /\ Runs' = Runs /\ refCount' = refCount + (-1) /\ ~Dead(s)
    BY <1>13 DEF UnsubscribeDone, Runs, TypeInv, ServiceOK
  <2>2. Differs(InCalls, InCalls', -1)
    BY <1>13, <2>1, ServiceSteps, CallsCounted, Apart DEF UnsubscribeDone, At, Serving, Differs
  <2>3. Differs(subscribers, subscribers', 0) /\ Differs(Runs, Runs', 0) /\ Differs(cleaned, cleaned', 0)
    BY <2>1 DEF Differs
  <2>4. refCount' = refCount + (0 + 0 + 0 + (-1))
    BY <2>1
  <2> QED
    BY <2>1, <2>2, <2>3, <2>4, Recount
<1>14. ASSUME NEW a \in Apps, CollectorImpl(a)
      PROVE  CountInv'
  <2>1. UNCHANGED <<refCount, subscribers, runs, cleaned, misStops, life>> /\ (UNCHANGED up \/ LoadOk) /\ a \in Threads
    BY <1>14, Apart DEF CollectorImpl, LoadFails
  <2>2. call[a].at = "begin" /\ (MovesTo(a, "idle") \/ MovesTo(a, "call"))
    BY <1>14, CallSteps DEF CollectorImpl, At
  <2>3. CASE UNCHANGED up
    BY <2>1, <2>2, <2>3, CallsCounted, SameCount DEF Serving
  <2>4. CASE LoadOk
    <3>1. \A u \in Threads : \/ call'[u] = call[u]
                             \/ call[u].at \notin Serving /\ call'[u].at \notin Serving
      BY <2>2 DEF MovesTo, Serving
    <3>2. life' = life
      BY <2>1
    <3>3. InCalls' = InCalls
      BY <2>4, <3>1, <3>2, LoadedCalls
    <3> QED
      BY <2>1, <3>3, SameCount
  <2> QED
    BY <2>1, <2>3, <2>4
<1>15. ASSUME NEW a \in Apps, CountRun(a)
      PROVE  CountInv'
  <2>1. UNCHANGED <<subscribers, runs, cleaned, misStops, up, life>> /\ Runs' = Runs /\ refCount' = refCount + (1) /\ ~Dead(a)
    BY <1>15 DEF CountRun, Runs, TypeInv, ServiceOK
  <2>2. Differs(InCalls, InCalls', 1)
    BY <1>15, <2>1, ServiceSteps, CallsCounted, Apart DEF CountRun, At, Serving, Differs
  <2>3. Differs(subscribers, subscribers', 0) /\ Differs(Runs, Runs', 0) /\ Differs(cleaned, cleaned', 0)
    BY <2>1 DEF Differs
  <2>4. refCount' = refCount + (0 + 0 + 0 + (1))
    BY <2>1
  <2> QED
    BY <2>1, <2>2, <2>3, <2>4, Recount
<1>16. ASSUME NEW a \in Apps, CollectorStart(a)
      PROVE  CountInv'
  <2>1. UNCHANGED <<refCount, subscribers, cleaned, misStops, up, life>> /\ ~Dead(a) /\ call[a].at = "counted"
        /\ a \in Threads /\ a # None /\ runs \in [Events -> Apps \cup {None}]
    BY <1>16, Apart DEF CollectorStart, At, TypeInv, ServiceOK
  <2>2. CASE call[a].x \in Events \ Runs /\ runs' = [runs EXCEPT ![call[a].x] = a] /\ MovesTo(a, "idle")
    <3>1. Runs' = Runs \cup {call[a].x}
      BY <2>1, <2>2 DEF Runs
    <3>2. Differs(Runs, Runs', 1)
      BY <2>2, <3>1 DEF Differs
    <3>3. Differs(InCalls, InCalls', -1)
      BY <2>1, <2>2, CallsCounted DEF Differs, Serving
    <3>4. Differs(subscribers, subscribers', 0) /\ Differs(cleaned, cleaned', 0)
      BY <2>1 DEF Differs
    <3>5. misStops' = 0 => misStops = 0 /\ refCount' = refCount + (0 + 1 + 0 + (-1))
      BY <2>1 DEF TypeInv, ServiceOK
    <3> QED
      BY <3>2, <3>3, <3>4, <3>5, Recount
  <2>3. CASE runs' = runs /\ MovesTo(a, "refused")
    <3>1. InCalls' = InCalls
      BY <2>1, <2>3, CallsCounted DEF Serving
    <3> QED
      BY <2>1, <2>3, <3>1, SameCount
  <2> QED
    BY <1>16, <2>2, <2>3, StartMoves
<1>17. ASSUME NEW a \in Apps, UncountRun(a)
      PROVE  CountInv'
  <2>1. UNCHANGED <<subscribers, runs, cleaned, misStops, up, life>> /\ Runs' = Runs /\ refCount' = refCount + (-1) /\ ~Dead(a)
    BY <1>17 DEF UncountRun, Runs, TypeInv, ServiceOK
  <2>2. Differs(InCalls, InCalls', -1)
    BY <1>17, <2>1, ServiceSteps, CallsCounted, Apart DEF UncountRun, At, Serving, Differs
  <2>3. Differs(subscribers, subscribers', 0) /\ Differs(Runs, Runs', 0) /\ Differs(cleaned, cleaned', 0)
    BY <2>1 DEF Differs
  <2>4. refCount' = refCount + (0 + 0 + 0 + (-1))
    BY <2>1
  <2> QED
    BY <2>1, <2>2, <2>3, <2>4, Recount
<1>18. ASSUME NEW a \in Apps, CollectorStop(a)
      PROVE  CountInv'
  <2>1. UNCHANGED <<refCount, subscribers, cleaned, up, life>> /\ ~Dead(a) /\ call[a].at = "call"
        /\ a \in Threads /\ a # None /\ runs \in [Events -> Apps \cup {None}] /\ misStops \in Nat
    BY <1>18, Apart DEF CollectorStop, At, TypeInv, ServiceOK
  <2>2. CASE /\ call[a].x \in Runs /\ runs' = [runs EXCEPT ![call[a].x] = None]
             /\ MovesTo(a, "stopped") /\ misStops' = misStops
    <3>1. Runs' = Runs \ {call[a].x}
      BY <2>1, <2>2 DEF Runs
    <3>2. Differs(Runs, Runs', -1)
      BY <2>2, <3>1 DEF Differs
    <3>3. Differs(InCalls, InCalls', 1)
      BY <2>1, <2>2, CallsCounted DEF Differs, Serving
    <3>4. Differs(subscribers, subscribers', 0) /\ Differs(cleaned, cleaned', 0)
      BY <2>1 DEF Differs
    <3>5. misStops' = 0 => misStops = 0 /\ refCount' = refCount + (0 + (-1) + 0 + 1)
      BY <2>1, <2>2 DEF TypeInv, ServiceOK
    <3> QED
      BY <3>2, <3>3, <3>4, <3>5, Recount
  <2>3. CASE runs' = runs /\ MovesTo(a, "stopped") /\ misStops' = misStops + 1
    <3>1. Runs' = Runs
      BY <2>3 DEF Runs
    <3>2. Differs(InCalls, InCalls', 1)
      BY <2>1, <2>3, CallsCounted DEF Differs, Serving
    <3>3. Differs(subscribers, subscribers', 0) /\ Differs(cleaned, cleaned', 0) /\ Differs(Runs, Runs', 0)
      BY <2>1, <3>1 DEF Differs
    <3>4. misStops' # 0
      BY <2>1, <2>3
    <3> QED
      BY <3>2, <3>3, <3>4, Recount
  <2>4. CASE runs' = runs /\ MovesTo(a, "idle") /\ misStops' = misStops
    <3>1. InCalls' = InCalls
      BY <2>1, <2>4, CallsCounted DEF Serving
    <3> QED
      BY <2>1, <2>4, <3>1, SameCount
  <2> QED
    BY <1>18, <2>2, <2>3, <2>4, StopMoves
<1>19. ASSUME NEW a \in Apps, UncountStop(a)
      PROVE  CountInv'
  <2>1. UNCHANGED <<subscribers, runs, cleaned, misStops, up, life>> /\ Runs' = Runs /\ refCount' = refCount + (-1) /\ ~Dead(a)
    BY <1>19 DEF UncountStop, Runs, TypeInv, ServiceOK
  <2>2. Differs(InCalls, InCalls', -1)
    BY <1>19, <2>1, ServiceSteps, CallsCounted, Apart DEF UncountStop, At, Serving, Differs
  <2>3. Differs(subscribers, subscribers', 0) /\ Differs(Runs, Runs', 0) /\ Differs(cleaned, cleaned', 0)
    BY <2>1 DEF Differs
  <2>4. refCount' = refCount + (0 + 0 + 0 + (-1))
    BY <2>1
  <2> QED
    BY <2>1, <2>2, <2>3, <2>4, Recount
<1>20. ASSUME NEW a \in Apps, CountQuery(a)
      PROVE  CountInv'
  <2>1. UNCHANGED <<subscribers, runs, cleaned, misStops, up, life>> /\ Runs' = Runs /\ refCount' = refCount + (1) /\ ~Dead(a)
    BY <1>20 DEF CountQuery, Runs, TypeInv, ServiceOK
  <2>2. Differs(InCalls, InCalls', 1)
    BY <1>20, <2>1, ServiceSteps, CallsCounted, Apart DEF CountQuery, At, Serving, Differs
  <2>3. Differs(subscribers, subscribers', 0) /\ Differs(Runs, Runs', 0) /\ Differs(cleaned, cleaned', 0)
    BY <2>1 DEF Differs
  <2>4. refCount' = refCount + (0 + 0 + 0 + (1))
    BY <2>1
  <2> QED
    BY <2>1, <2>2, <2>3, <2>4, Recount
<1>21. ASSUME NEW a \in Apps, QueryDone(a)
      PROVE  CountInv'
  <2>1. UNCHANGED <<subscribers, runs, cleaned, misStops, up, life>> /\ Runs' = Runs /\ refCount' = refCount + (-1) /\ ~Dead(a)
    BY <1>21 DEF QueryDone, Runs, TypeInv, ServiceOK
  <2>2. Differs(InCalls, InCalls', -1)
    BY <1>21, <2>1, ServiceSteps, CallsCounted, Apart DEF QueryDone, At, Serving, Differs
  <2>3. Differs(subscribers, subscribers', 0) /\ Differs(Runs, Runs', 0) /\ Differs(cleaned, cleaned', 0)
    BY <2>1 DEF Differs
  <2>4. refCount' = refCount + (0 + 0 + 0 + (-1))
    BY <2>1
  <2> QED
    BY <2>1, <2>2, <2>3, <2>4, Recount
<1>22. ASSUME NEW t \in Threads, DeadReply(t)
      PROVE  CountInv'
  <2>1. UNCHANGED <<refCount, subscribers, runs, cleaned, misStops, up, life>>
    BY <1>22 DEF DeadReply
  <2>2. InCalls' = InCalls
    <3>1. Dead(t) /\ t \notin InCalls
      BY <1>22 DEF DeadReply, InCalls, Counted
    <3>2. MovesTo(t, "idle") \/ MovesTo(t, "begin")
      BY <1>22, CallSteps
    <3> QED
      BY <2>1, <3>1, <3>2, CallsCounted DEF Serving
  <2> QED
    BY <2>1, <2>2, SameCount
<1>23. ASSUME AskUnload
      PROVE  CountInv'
  <2>1. UNCHANGED <<refCount, subscribers, runs, cleaned, misStops, up, life, call>>
    BY <1>23 DEF AskUnload
  <2>2. InCalls' = InCalls
    BY <2>1 DEF InCalls, Counted, Dead
  <2> QED
    BY <2>1, <2>2, SameCount
<1>24. ASSUME up /\ Ends
      PROVE  CountInv'
  <2>1. /\ refCount' = 0 /\ subscribers' = {} /\ cleaned' = {} /\ ~up'
        /\ \A e \in Events : runs'[e] = None
    BY <1>24 DEF Ends
  <2>2. Runs' = {} /\ InCalls' = {}
    BY <2>1 DEF Runs, InCalls, Counted, Dead
  <2>3. Total' = 0
    BY <2>1, <2>2, FS_EmptySet DEF Total
  <2> QED
    BY <2>1, <2>2, <2>3, FS_EmptySet DEF CountInv
<1>25. ASSUME NEW p \in Processes, ProcessDies(p)
      PROVE  CountInv'
  <2>1. UNCHANGED <<refCount, subscribers, runs, cleaned, misStops, up, life>>
    BY <1>25 DEF ProcessDies
  <2>2. \A u \in Threads : u \in InCalls' <=> u \in InCalls
    BY <1>25, <2>1, ProcessDiesCalls DEF InCalls, Counted, Dead, Idle
  <2>3. InCalls' = InCalls
    BY <2>2 DEF InCalls
  <2> QED
    BY <2>1, <2>3, SameCount
<1>26. ASSUME NEW r \in Recoveries, HandleDecipient(r[1], r[2])
      PROVE  CountInv'
  <2>1. UNCHANGED <<refCount, subscribers, runs, cleaned, misStops, up, life, call>>
    BY <1>26 DEF HandleDecipient
  <2>2. InCalls' = InCalls
    BY <2>1 DEF InCalls, Counted, Dead
  <2> QED
    BY <2>1, <2>2, SameCount
<1>27. ASSUME NEW r \in Recoveries, Attempt(r)
      PROVE  CountInv'
  <2>1. UNCHANGED <<refCount, subscribers, runs, cleaned, misStops, life, call>> /\ (UNCHANGED up \/ LoadOk)
    BY <1>27 DEF Attempt, LoadFails
  <2>2. CASE UNCHANGED up
    <3>1. InCalls' = InCalls
      BY <2>1, <2>2 DEF InCalls, Counted, Dead
    <3> QED
      BY <2>1, <3>1, SameCount
  <2>3. CASE LoadOk
    <3>1. life' = life /\ \A u \in Threads : call'[u] = call[u]
      BY <2>1
    <3>2. InCalls' = InCalls
      BY <2>3, <3>1, LoadedCalls
    <3> QED
      BY <2>1, <3>2, SameCount
  <2> QED
    BY <2>1, <2>2, <2>3
<1>28. ASSUME NEW r \in Recoveries, Recovered(r)
      PROVE  CountInv'
  <2>1. UNCHANGED <<refCount, subscribers, runs, cleaned, misStops, up, life, call>>
    BY <1>28 DEF Recovered
  <2>2. InCalls' = InCalls
    BY <2>1 DEF InCalls, Counted, Dead
  <2> QED
    BY <2>1, <2>2, SameCount
<1>29. ASSUME NEW r \in Recoveries, NEW s \in Subscribers, Resubscribe(r, s)
      PROVE  CountInv'
  <2>1. UNCHANGED <<refCount, subscribers, runs, cleaned, misStops, up, life>>
    BY <1>29 DEF Resubscribe
  <2>2. InCalls' = InCalls
    BY <1>29, <2>1, CallSteps, CallsCounted, Apart DEF Resubscribe, At, Serving
  <2> QED
    BY <2>1, <2>2, SameCount
<1>30. ASSUME UNCHANGED vars
      PROVE  CountInv'
  <2>1. UNCHANGED <<refCount, subscribers, runs, cleaned, misStops, up, life, call>>
    BY <1>30 DEF vars
  <2>2. InCalls' = InCalls
    BY <2>1 DEF InCalls, Counted, Dead
  <2> QED
    BY <2>1, <2>2, SameCount
<1> QED
  BY <1>1, <1>2, <1>3, <1>4, <1>5, <1>6, <1>7, <1>8, <1>9, <1>10, <1>11, <1>12, <1>13, <1>14, <1>15, <1>16, <1>17, <1>18, <1>19, <1>20, <1>21, <1>22, <1>23, <1>24, <1>25, <1>26, <1>27, <1>28, <1>29, <1>30 DEF Next, InCall, Recover, Unload, Crashes

-------------------------------------------------------------------------------
(* The kits                                                                *)

(* A step that begins no recovery.                                         *)
LEMMA TasksKept ==
    ASSUME TasksOK, life' = life, obits' \subseteq obits,
           \A q \in Recoveries : /\ task'[q].todo \subseteq task[q].todo
                                 /\ task'[q].at = "none" => task[q].at = "none" \/ task'[q].todo = {}
    PROVE  TasksOK'
  BY Apart DEF TasksOK

LEMMA EndTasks ==
    ASSUME TypeInv, NEW t \in Threads, ~At(t, "idle"), NEW r, End(t, r)
    PROVE  \A q \in Recoveries : /\ task'[q].todo \subseteq task[q].todo
                                 /\ task'[q].at = task[q].at
  BY EndKit

LEMMA TasksHold ==
    ASSUME TypeInv, LifeInv, TasksOK, [Next]_vars
    PROVE  TasksOK'
<1>1. ASSUME NEW s \in Subscribers, Subscribe(s)
      PROVE  TasksOK'
  BY <1>1 DEF TasksOK, Subscribe
<1>2. ASSUME NEW s \in Subscribers, Unsubscribe(s)
      PROVE  TasksOK'
  BY <1>2 DEF TasksOK, Unsubscribe
<1>3. ASSUME NEW s \in Subscribers, OnRemoteDied(s)
      PROVE  TasksOK'
  BY <1>3 DEF TasksOK, OnRemoteDied
<1>4. ASSUME NEW s \in Subscribers, UncountDied(s)
      PROVE  TasksOK'
  BY <1>4 DEF TasksOK, UncountDied
<1>5. ASSUME NEW a \in Apps, NEW e \in Events, NapiStartSecurityEventCollector(a, e) \/ NapiStopSecurityEventCollector(a, e)
      PROVE  TasksOK'
  BY <1>5, NapiSteps DEF TypeInv, TasksOK
<1>6. ASSUME NEW a \in Apps, ManagerQuery(a)
      PROVE  TasksOK'
  BY <1>6 DEF TasksOK, ManagerQuery
<1>7. ASSUME NEW t \in Threads \ Apps, SubscribeImpl(t)
      PROVE  TasksOK'
  <2>1. t \in Threads /\ ~At(t, "idle")
    BY <1>7, Apart DEF SubscribeImpl, At
  <2>2. UNCHANGED task \/ \E r : End(t, r)
    BY <1>7 DEF SubscribeImpl
  <2>3. life' = life /\ obits' = obits
    BY <1>7 DEF SubscribeImpl
  <2> QED
    BY <2>1, <2>2, <2>3, EndTasks, TasksKept
<1>8. ASSUME NEW t \in Threads \ Apps, CountSubscriber(t)
      PROVE  TasksOK'
  BY <1>8 DEF TasksOK, CountSubscriber
<1>9. ASSUME NEW t \in Threads \ Apps, SubscribeCollector(t)
      PROVE  TasksOK'
  <2>1. t \in Threads /\ ~At(t, "idle")
    BY <1>9, Apart DEF SubscribeCollector, At
  <2>2. UNCHANGED task \/ \E r : End(t, r)
    BY <1>9 DEF SubscribeCollector
  <2>3. life' = life /\ obits' = obits
    BY <1>9 DEF SubscribeCollector
  <2> QED
    BY <2>1, <2>2, <2>3, EndTasks, TasksKept
<1>10. ASSUME NEW t \in Threads \ Apps, Uncount(t)
      PROVE  TasksOK'
  <2>1. t \in Threads /\ ~At(t, "idle")
    BY <1>10, Apart DEF Uncount, At
  <2>2. UNCHANGED task \/ \E r : End(t, r)
    BY <1>10 DEF Uncount
  <2>3. life' = life /\ obits' = obits
    BY <1>10 DEF Uncount
  <2> QED
    BY <2>1, <2>2, <2>3, EndTasks, TasksKept
<1>11. ASSUME NEW s \in Subscribers, UnsubscribeImpl(s)
      PROVE  TasksOK'
  <2>1. s \in Threads /\ ~At(s, "idle")
    BY <1>11, Apart DEF UnsubscribeImpl, At
  <2>2. UNCHANGED task \/ \E r : End(s, r)
    BY <1>11 DEF UnsubscribeImpl
  <2>3. life' = life /\ obits' = obits
    BY <1>11 DEF UnsubscribeImpl
  <2> QED
    BY <2>1, <2>2, <2>3, EndTasks, TasksKept
<1>12. ASSUME NEW s \in Subscribers, CleanSubscriber(s)
      PROVE  TasksOK'
  <2>1. s \in Threads /\ ~At(s, "idle")
    BY <1>12, Apart DEF CleanSubscriber, At
  <2>2. UNCHANGED task \/ \E r : End(s, r)
    BY <1>12 DEF CleanSubscriber
  <2>3. life' = life /\ obits' = obits
    BY <1>12 DEF CleanSubscriber
  <2> QED
    BY <2>1, <2>2, <2>3, EndTasks, TasksKept
<1>13. ASSUME NEW s \in Subscribers, UnsubscribeDone(s)
      PROVE  TasksOK'
  <2>1. s \in Threads /\ ~At(s, "idle")
    BY <1>13, Apart DEF UnsubscribeDone, At
  <2>2. UNCHANGED task \/ \E r : End(s, r)
    BY <1>13 DEF UnsubscribeDone
  <2>3. life' = life /\ obits' = obits
    BY <1>13 DEF UnsubscribeDone
  <2> QED
    BY <2>1, <2>2, <2>3, EndTasks, TasksKept
<1>14. ASSUME NEW a \in Apps, CollectorImpl(a)
      PROVE  TasksOK'
  <2>1. a \in Threads /\ ~At(a, "idle")
    BY <1>14, Apart DEF CollectorImpl, At
  <2>2. UNCHANGED task \/ \E r : End(a, r)
    BY <1>14 DEF CollectorImpl
  <2>3. life' = life /\ obits' = obits
    BY <1>14 DEF CollectorImpl
  <2> QED
    BY <2>1, <2>2, <2>3, EndTasks, TasksKept
<1>15. ASSUME NEW a \in Apps, CountRun(a)
      PROVE  TasksOK'
  BY <1>15 DEF TasksOK, CountRun
<1>16. ASSUME NEW a \in Apps, CollectorStart(a)
      PROVE  TasksOK'
  <2>1. a \in Threads /\ ~At(a, "idle")
    BY <1>16, Apart DEF CollectorStart, At
  <2>2. UNCHANGED task \/ \E r : End(a, r)
    BY <1>16 DEF CollectorStart
  <2>3. life' = life /\ obits' = obits
    BY <1>16 DEF CollectorStart
  <2> QED
    BY <2>1, <2>2, <2>3, EndTasks, TasksKept
<1>17. ASSUME NEW a \in Apps, UncountRun(a)
      PROVE  TasksOK'
  <2>1. a \in Threads /\ ~At(a, "idle")
    BY <1>17, Apart DEF UncountRun, At
  <2>2. UNCHANGED task \/ \E r : End(a, r)
    BY <1>17 DEF UncountRun
  <2>3. life' = life /\ obits' = obits
    BY <1>17 DEF UncountRun
  <2> QED
    BY <2>1, <2>2, <2>3, EndTasks, TasksKept
<1>18. ASSUME NEW a \in Apps, CollectorStop(a)
      PROVE  TasksOK'
  <2>1. a \in Threads /\ ~At(a, "idle")
    BY <1>18, Apart DEF CollectorStop, At
  <2>2. UNCHANGED task \/ \E r : End(a, r)
    BY <1>18 DEF CollectorStop
  <2>3. life' = life /\ obits' = obits
    BY <1>18 DEF CollectorStop
  <2> QED
    BY <2>1, <2>2, <2>3, EndTasks, TasksKept
<1>19. ASSUME NEW a \in Apps, UncountStop(a)
      PROVE  TasksOK'
  <2>1. a \in Threads /\ ~At(a, "idle")
    BY <1>19, Apart DEF UncountStop, At
  <2>2. UNCHANGED task \/ \E r : End(a, r)
    BY <1>19 DEF UncountStop
  <2>3. life' = life /\ obits' = obits
    BY <1>19 DEF UncountStop
  <2> QED
    BY <2>1, <2>2, <2>3, EndTasks, TasksKept
<1>20. ASSUME NEW a \in Apps, CountQuery(a)
      PROVE  TasksOK'
  BY <1>20 DEF TasksOK, CountQuery
<1>21. ASSUME NEW a \in Apps, QueryDone(a)
      PROVE  TasksOK'
  <2>1. a \in Threads /\ ~At(a, "idle")
    BY <1>21, Apart DEF QueryDone, At
  <2>2. UNCHANGED task \/ \E r : End(a, r)
    BY <1>21 DEF QueryDone
  <2>3. life' = life /\ obits' = obits
    BY <1>21 DEF QueryDone
  <2> QED
    BY <2>1, <2>2, <2>3, EndTasks, TasksKept
<1>22. ASSUME NEW t \in Threads, DeadReply(t)
      PROVE  TasksOK'
  <2>1. t \in Threads /\ ~At(t, "idle")
    BY <1>22, Apart DEF DeadReply, At
  <2>2. UNCHANGED task \/ \E r : End(t, r)
    BY <1>22 DEF DeadReply
  <2>3. life' = life /\ obits' = obits
    BY <1>22 DEF DeadReply
  <2> QED
    BY <2>1, <2>2, <2>3, EndTasks, TasksKept
<1>23. ASSUME AskUnload
      PROVE  TasksOK'
  BY <1>23 DEF TasksOK, AskUnload
<1>24. ASSUME up /\ Ends
      PROVE  TasksOK'
  <2>1. /\ life \in Nat /\ life' = life + 1 /\ task' = task
        /\ obits' = obits \cup (watching \X {life + 1})
    BY <1>24 DEF Ends, TypeInv, ServiceOK
  <2>2. ASSUME NEW q \in Processes, NEW l \in 1 .. MaxDeaths
        PROVE  /\ task[<<q, l>>].at = "none" => task[<<q, l>>].todo = {}
               /\ \A s \in task[<<q, l>>].todo : KitOf[s] = q
               /\ <<q, l>> \in obits => l <= life + 1 /\ task[<<q, l>>].todo = {}
               /\ task[<<q, l>>].todo # {} => l <= life + 1
               /\ l = life + 1 => task[<<q, l>>].todo = {}
    BY <2>1 DEF TasksOK
  <2>3. \A q, l : <<q, l>> \in obits' => <<q, l>> \in obits \/ l = life + 1
    BY <2>1
  <2> QED
    <3>1. ASSUME NEW q \in Processes, NEW l \in 1 .. MaxDeaths
          PROVE  <<q, l>> \in obits' => l <= life' /\ task'[<<q, l>>].todo = {}
      BY <2>1, <2>2, <2>3
    <3>2. ASSUME NEW q \in Processes, NEW l \in 1 .. MaxDeaths, task'[<<q, l>>].todo # {} PROVE l <= life'
      BY <2>1, <2>2, <3>2
    <3> QED
      BY <2>1, <2>2, <3>1, <3>2 DEF TasksOK
<1>25. ASSUME NEW p \in Processes, ProcessDies(p)
      PROVE  TasksOK'
  <2>1. life' = life /\ obits' \subseteq obits
    BY <1>25 DEF ProcessDies
  <2>2. \A q \in Recoveries : task'[q] = Asleep \/ task'[q] = task[q]
    BY <1>25 DEF ProcessDies
  <2> QED
    BY <2>1, <2>2, TasksKept DEF Asleep
<1>26. ASSUME NEW r \in Recoveries, HandleDecipient(r[1], r[2])
      PROVE  TasksOK'
  <2> DEFINE tmp == {s \in listeners : KitOf[s] = r[1]}
  <2>1. /\ <<r[1], r[2]>> \in obits /\ r = <<r[1], r[2]>> /\ life' = life
        /\ obits' = obits \ {r} /\ task \in [Recoveries -> Tasks]
    BY <1>26, Apart DEF HandleDecipient, TypeInv, KitOK
  <2>2. \A q \in Recoveries \ {r} : task'[q] = task[q]
    BY <1>26, <2>1 DEF HandleDecipient
  <2>3. task'[r] = task[r] \/ (task'[r].todo = tmp /\ task'[r].at = "wait")
    BY <1>26, <2>1 DEF HandleDecipient
  <2>4. r[2] <= life /\ task[r].todo = {}
    BY <2>1, Apart DEF TasksOK
  <2>5. ASSUME NEW q \in Processes, NEW l \in 1 .. MaxDeaths
        PROVE  /\ task'[<<q, l>>].at = "none" => task'[<<q, l>>].todo = {}
               /\ \A s \in task'[<<q, l>>].todo : KitOf[s] = q
               /\ <<q, l>> \in obits' => l <= life' /\ task'[<<q, l>>].todo = {}
               /\ task'[<<q, l>>].todo # {} => l <= life'
    <3>1. CASE <<q, l>> = r
      BY <2>1, <2>3, <2>4, <3>1 DEF TasksOK
    <3>2. CASE <<q, l>> # r
      <4>1. task'[<<q, l>>] = task[<<q, l>>] /\ (<<q, l>> \in obits' => <<q, l>> \in obits)
        BY <2>1, <2>2, <3>2, Apart
      <4> QED
        BY <2>1, <4>1 DEF TasksOK
    <3> QED
      BY <3>1, <3>2
  <2> QED
    BY <2>5 DEF TasksOK
<1>27. ASSUME NEW r \in Recoveries, Attempt(r)
      PROVE  TasksOK'
  <2>1. life' = life /\ obits' = obits /\ task \in [Recoveries -> Tasks]
    BY <1>27 DEF Attempt, TypeInv, KitOK
  <2>2. \A q \in Recoveries : /\ task'[q].todo \subseteq task[q].todo
                              /\ task'[q].at = "none" => task[q].at = "none" \/ task'[q].todo = {}
    BY <1>27, <2>1 DEF Attempt, Asleep, Tasks
  <2> QED
    BY <2>1, <2>2, TasksKept
<1>28. ASSUME NEW r \in Recoveries, Recovered(r)
      PROVE  TasksOK'
  <2>1. life' = life /\ obits' = obits /\ task \in [Recoveries -> Tasks]
    BY <1>28 DEF Recovered, TypeInv, KitOK
  <2>2. \A q \in Recoveries : /\ task'[q].todo \subseteq task[q].todo
                              /\ task'[q].at = "none" => task[q].at = "none" \/ task'[q].todo = {}
    BY <1>28, <2>1 DEF Recovered, Asleep, Tasks
  <2> QED
    BY <2>1, <2>2, TasksKept
<1>29. ASSUME NEW r \in Recoveries, NEW s \in Subscribers, Resubscribe(r, s)
      PROVE  TasksOK'
  BY <1>29 DEF TasksOK, Resubscribe
<1>30. ASSUME UNCHANGED vars
      PROVE  TasksOK'
  BY <1>30 DEF TasksOK, vars
<1> QED
  BY <1>1, <1>2, <1>3, <1>4, <1>5, <1>6, <1>7, <1>8, <1>9, <1>10, <1>11, <1>12, <1>13, <1>14, <1>15, <1>16, <1>17, <1>18, <1>19, <1>20, <1>21, <1>22, <1>23, <1>24, <1>25, <1>26, <1>27, <1>28, <1>29, <1>30 DEF Next, InCall, Recover, Unload, Crashes

(* A call that the service has is of a kit that watches the service.       *)
InTouch == {"call", "counted", "refused"}

LEMMA WatchedKept ==
    ASSUME TypeInv, LifeInv, WatchedCalls, life' = life, up' = up \/ LoadOk,
           alive' \subseteq alive, watching \cap alive' \subseteq watching',
           \A u \in Threads :
              \/ call'[u] = call[u] \/ call'[u].at \notin InTouch \/ call'[u].op # "sub"
              \/ KitOf[call'[u].x] \in watching'
              \/ /\ call[u].at \in InTouch /\ call'[u].op = call[u].op
                 /\ call'[u].x = call[u].x /\ call'[u].life = call[u].life
    PROVE  WatchedCalls'
<1> SUFFICES ASSUME NEW u \in Threads, call'[u].at \in InTouch, call'[u].op = "sub", ~Dead(u)',
                    KitOf[call'[u].x] \in alive', KitOf[call'[u].x] \notin watching'
             PROVE  FALSE
  BY DEF WatchedCalls, InTouch
<1>1. call[u].at \in InTouch /\ call[u].op = "sub" /\ call'[u].x = call[u].x /\ call'[u].life = call[u].life
  OBVIOUS
<1>2. life \in Nat /\ call[u].life \in Nat
  BY DEF TypeInv, ServiceOK, CallsOK, Calls
<1>3. ~Dead(u)
  BY <1>1, <1>2 DEF Dead, LifeInv, Active, InTouch
<1> QED
  BY <1>1, <1>3 DEF WatchedCalls, InTouch


LEMMA WatchedHolds ==
    ASSUME TypeInv, LifeInv, TasksOK, WatchedCalls, [Next]_vars
    PROVE  WatchedCalls'
<1>1. ASSUME NEW s \in Subscribers, Subscribe(s)
      PROVE  WatchedCalls'
  <2>0. s \in Threads
    BY <1>1, Apart DEF At
  <2>1. life' = life /\ (up' = up \/ LoadOk) /\ alive' = alive /\ watching \subseteq watching'
    BY <1>1, <2>0 DEF Subscribe, LoadFails, At
  <2>2. \E l : MovesTo(s, l) /\ (l \in InTouch => FALSE)
    BY <1>1, <2>0, <2>1, CallSteps DEF InTouch
  <2>3. PICK l : MovesTo(s, l) /\ (l \in InTouch => FALSE)
    BY <2>2
  <2> QED
    BY <2>0, <2>1, <2>3, WatchedKept DEF MovesTo, InTouch, Active, Serving
<1>2. ASSUME NEW s \in Subscribers, Unsubscribe(s)
      PROVE  WatchedCalls'
  <2>0. s \in Threads
    BY <1>2, Apart DEF At
  <2>1. life' = life /\ (up' = up \/ LoadOk) /\ alive' = alive /\ watching \subseteq watching'
    BY <1>2, <2>0 DEF Unsubscribe, LoadFails, At
  <2>2. \E l : MovesTo(s, l) /\ (l \in InTouch => FALSE)
    BY <1>2, <2>0, <2>1, CallSteps DEF InTouch
  <2>3. PICK l : MovesTo(s, l) /\ (l \in InTouch => FALSE)
    BY <2>2
  <2> QED
    BY <2>0, <2>1, <2>3, WatchedKept DEF MovesTo, InTouch, Active, Serving
<1>3. ASSUME NEW s \in Subscribers, OnRemoteDied(s)
      PROVE  WatchedCalls'
  <2>1. life' = life /\ (up' = up \/ LoadOk) /\ alive' = alive /\ watching \subseteq watching' /\ call' = call
    BY <1>3 DEF OnRemoteDied, LoadFails
  <2> QED
    BY <2>1, WatchedKept
<1>4. ASSUME NEW s \in Subscribers, UncountDied(s)
      PROVE  WatchedCalls'
  <2>1. life' = life /\ (up' = up \/ LoadOk) /\ alive' = alive /\ watching \subseteq watching' /\ call' = call
    BY <1>4 DEF UncountDied, LoadFails
  <2> QED
    BY <2>1, WatchedKept
<1>5. ASSUME NEW a \in Apps, NEW e \in Events, NapiStartSecurityEventCollector(a, e) \/ NapiStopSecurityEventCollector(a, e)
      PROVE  WatchedCalls'
  <2>1. life' = life /\ up' = up /\ alive' = alive /\ watching' = watching /\ a \in Threads
    BY <1>5, NapiSteps, Apart DEF TypeInv
  <2>2. CASE MovesTo(a, "begin")
    BY <2>1, <2>2, WatchedKept DEF MovesTo, InTouch
  <2>3. CASE UNCHANGED call
    BY <2>1, <2>3, WatchedKept
  <2> QED
    BY <1>5, <2>2, <2>3, CallSteps
<1>6. ASSUME NEW a \in Apps, ManagerQuery(a)
      PROVE  WatchedCalls'
  <2>0. a \in Threads
    BY <1>6, Apart DEF At
  <2>1. life' = life /\ (up' = up \/ LoadOk) /\ alive' = alive /\ watching \subseteq watching'
    BY <1>6, <2>0 DEF ManagerQuery, LoadFails, At
  <2>2. \E l : MovesTo(a, l) /\ (l \in InTouch => FALSE)
    BY <1>6, <2>0, <2>1, CallSteps DEF InTouch
  <2>3. PICK l : MovesTo(a, l) /\ (l \in InTouch => FALSE)
    BY <2>2
  <2> QED
    BY <2>0, <2>1, <2>3, WatchedKept DEF MovesTo, InTouch, Active, Serving
<1>7. ASSUME NEW t \in Threads \ Apps, SubscribeImpl(t)
      PROVE  WatchedCalls'
  <2>1. life' = life /\ (up' = up \/ LoadOk) /\ alive' = alive /\ watching \subseteq watching' /\ call[t].at = "begin"
    BY <1>7 DEF SubscribeImpl, LoadFails, At
  <2>2. CASE MovesTo(t, "idle")
    BY <2>1, <2>2, WatchedKept DEF MovesTo, InTouch
  <2>3. CASE MovesTo(t, "call") /\ watching' = watching \cup {KitOfThread(t)}
    <3>1. call'[t].x = call[t].x /\ KitOf[call[t].x] = KitOfThread(t)
      BY <2>1, <2>3, CallFacts DEF MovesTo, At, Active
    <3>2. KitOf[call'[t].x] \in watching'
      BY <2>3, <3>1
    <3> QED
      BY <2>1, <2>3, <3>2, WatchedKept DEF MovesTo
  <2> QED
    BY <1>7, <2>2, <2>3, CallSteps
<1>8. ASSUME NEW t \in Threads \ Apps, CountSubscriber(t)
      PROVE  WatchedCalls'
  <2>0. t \in Threads
    BY <1>8, Apart DEF At
  <2>1. life' = life /\ (up' = up \/ LoadOk) /\ alive' = alive /\ watching \subseteq watching' /\ call[t].at = "call"
    BY <1>8, <2>0 DEF CountSubscriber, LoadFails, At
  <2>2. \E l : MovesTo(t, l) /\ (l \in InTouch => call[t].at \in InTouch /\ l # "call")
    BY <1>8, <2>0, <2>1, ServiceSteps DEF InTouch
  <2>3. PICK l : MovesTo(t, l) /\ (l \in InTouch => call[t].at \in InTouch /\ l # "call")
    BY <2>2
  <2> QED
    BY <2>0, <2>1, <2>3, WatchedKept DEF MovesTo, InTouch, Active, Serving
<1>9. ASSUME NEW t \in Threads \ Apps, SubscribeCollector(t)
      PROVE  WatchedCalls'
  <2>0. t \in Threads
    BY <1>9, Apart DEF At
  <2>1. life' = life /\ (up' = up \/ LoadOk) /\ alive' = alive /\ watching \subseteq watching' /\ call[t].at = "counted"
    BY <1>9, <2>0 DEF SubscribeCollector, LoadFails, At
  <2>2. \E l : MovesTo(t, l) /\ (l \in InTouch => call[t].at \in InTouch /\ l # "call")
    BY <1>9, <2>0, <2>1, ServiceSteps DEF InTouch
  <2>3. PICK l : MovesTo(t, l) /\ (l \in InTouch => call[t].at \in InTouch /\ l # "call")
    BY <2>2
  <2> QED
    BY <2>0, <2>1, <2>3, WatchedKept DEF MovesTo, InTouch, Active, Serving
<1>10. ASSUME NEW t \in Threads \ Apps, Uncount(t)
      PROVE  WatchedCalls'
  <2>0. t \in Threads
    BY <1>10, Apart DEF At
  <2>1. life' = life /\ (up' = up \/ LoadOk) /\ alive' = alive /\ watching \subseteq watching'
    BY <1>10, <2>0 DEF Uncount, LoadFails, At
  <2>2. \E l : MovesTo(t, l) /\ (l \in InTouch => FALSE)
    BY <1>10, <2>0, <2>1, ServiceSteps DEF InTouch
  <2>3. PICK l : MovesTo(t, l) /\ (l \in InTouch => FALSE)
    BY <2>2
  <2> QED
    BY <2>0, <2>1, <2>3, WatchedKept DEF MovesTo, InTouch, Active, Serving
<1>11. ASSUME NEW s \in Subscribers, UnsubscribeImpl(s)
      PROVE  WatchedCalls'
  <2>0. s \in Threads
    BY <1>11, Apart DEF At
  <2>1. life' = life /\ (up' = up \/ LoadOk) /\ alive' = alive /\ watching \subseteq watching' /\ call[s].op = "unsub"
    BY <1>11, <2>0, CallFacts, Apart DEF UnsubscribeImpl, LoadFails, At
  <2>2. \E l : MovesTo(s, l) /\ (l \in InTouch => call[s].op # "sub")
    BY <1>11, <2>0, <2>1, CallSteps DEF InTouch
  <2>3. PICK l : MovesTo(s, l) /\ (l \in InTouch => call[s].op # "sub")
    BY <2>2
  <2> QED
    BY <2>0, <2>1, <2>3, WatchedKept DEF MovesTo, InTouch, Active, Serving
<1>12. ASSUME NEW s \in Subscribers, CleanSubscriber(s)
      PROVE  WatchedCalls'
  <2>0. s \in Threads
    BY <1>12, Apart DEF At
  <2>1. life' = life /\ (up' = up \/ LoadOk) /\ alive' = alive /\ watching \subseteq watching'
    BY <1>12, <2>0 DEF CleanSubscriber, LoadFails, At
  <2>2. \E l : MovesTo(s, l) /\ (l \in InTouch => FALSE)
    BY <1>12, <2>0, <2>1, ServiceSteps DEF InTouch
  <2>3. PICK l : MovesTo(s, l) /\ (l \in InTouch => FALSE)
    BY <2>2
  <2> QED
    BY <2>0, <2>1, <2>3, WatchedKept DEF MovesTo, InTouch, Active, Serving
<1>13. ASSUME NEW s \in Subscribers, UnsubscribeDone(s)
      PROVE  WatchedCalls'
  <2>0. s \in Threads
    BY <1>13, Apart DEF At
  <2>1. life' = life /\ (up' = up \/ LoadOk) /\ alive' = alive /\ watching \subseteq watching'
    BY <1>13, <2>0 DEF UnsubscribeDone, LoadFails, At
  <2>2. \E l : MovesTo(s, l) /\ (l \in InTouch => FALSE)
    BY <1>13, <2>0, <2>1, ServiceSteps DEF InTouch
  <2>3. PICK l : MovesTo(s, l) /\ (l \in InTouch => FALSE)
    BY <2>2
  <2> QED
    BY <2>0, <2>1, <2>3, WatchedKept DEF MovesTo, InTouch, Active, Serving
<1>14. ASSUME NEW a \in Apps, CollectorImpl(a)
      PROVE  WatchedCalls'
  <2>0. a \in Threads /\ call[a].at # "idle"
    BY <1>14, Apart DEF At, CollectorImpl
  <2>1. life' = life /\ (up' = up \/ LoadOk) /\ alive' = alive /\ watching \subseteq watching' /\ call[a].op # "sub"
    BY <1>14, <2>0, CallFacts, Apart DEF CollectorImpl, LoadFails, At
  <2>2. \E l : MovesTo(a, l) /\ (l \in InTouch => call[a].op # "sub")
    BY <1>14, <2>0, <2>1, CallSteps DEF InTouch
  <2>3. PICK l : MovesTo(a, l) /\ (l \in InTouch => call[a].op # "sub")
    BY <2>2
  <2> QED
    BY <2>0, <2>1, <2>3, WatchedKept DEF MovesTo, InTouch, Active, Serving
<1>15. ASSUME NEW a \in Apps, CountRun(a)
      PROVE  WatchedCalls'
  <2>0. a \in Threads
    BY <1>15, Apart DEF At
  <2>1. life' = life /\ (up' = up \/ LoadOk) /\ alive' = alive /\ watching \subseteq watching' /\ call[a].op # "sub"
    BY <1>15, <2>0, CallFacts, Apart DEF CountRun, LoadFails, At
  <2>2. \E l : MovesTo(a, l) /\ (l \in InTouch => call[a].op # "sub")
    BY <1>15, <2>0, <2>1, ServiceSteps DEF InTouch
  <2>3. PICK l : MovesTo(a, l) /\ (l \in InTouch => call[a].op # "sub")
    BY <2>2
  <2> QED
    BY <2>0, <2>1, <2>3, WatchedKept DEF MovesTo, InTouch, Active, Serving
<1>16. ASSUME NEW a \in Apps, CollectorStart(a)
      PROVE  WatchedCalls'
  <2>0. a \in Threads
    BY <1>16, Apart DEF At
  <2>1. life' = life /\ (up' = up \/ LoadOk) /\ alive' = alive /\ watching \subseteq watching' /\ call[a].op # "sub"
    BY <1>16, <2>0, CallFacts, Apart DEF CollectorStart, LoadFails, At
  <2>2. \E l : MovesTo(a, l) /\ (l \in InTouch => call[a].op # "sub")
    BY <1>16, <2>0, <2>1, ServiceSteps DEF InTouch
  <2>3. PICK l : MovesTo(a, l) /\ (l \in InTouch => call[a].op # "sub")
    BY <2>2
  <2> QED
    BY <2>0, <2>1, <2>3, WatchedKept DEF MovesTo, InTouch, Active, Serving
<1>17. ASSUME NEW a \in Apps, UncountRun(a)
      PROVE  WatchedCalls'
  <2>0. a \in Threads
    BY <1>17, Apart DEF At
  <2>1. life' = life /\ (up' = up \/ LoadOk) /\ alive' = alive /\ watching \subseteq watching'
    BY <1>17, <2>0 DEF UncountRun, LoadFails, At
  <2>2. \E l : MovesTo(a, l) /\ (l \in InTouch => FALSE)
    BY <1>17, <2>0, <2>1, ServiceSteps DEF InTouch
  <2>3. PICK l : MovesTo(a, l) /\ (l \in InTouch => FALSE)
    BY <2>2
  <2> QED
    BY <2>0, <2>1, <2>3, WatchedKept DEF MovesTo, InTouch, Active, Serving
<1>18. ASSUME NEW a \in Apps, CollectorStop(a)
      PROVE  WatchedCalls'
  <2>0. a \in Threads
    BY <1>18, Apart DEF At
  <2>1. life' = life /\ (up' = up \/ LoadOk) /\ alive' = alive /\ watching \subseteq watching'
    BY <1>18, <2>0 DEF CollectorStop, LoadFails, At
  <2>2. \E l : MovesTo(a, l) /\ (l \in InTouch => FALSE)
    BY <1>18, <2>0, <2>1, ServiceSteps DEF InTouch
  <2>3. PICK l : MovesTo(a, l) /\ (l \in InTouch => FALSE)
    BY <2>2
  <2> QED
    BY <2>0, <2>1, <2>3, WatchedKept DEF MovesTo, InTouch, Active, Serving
<1>19. ASSUME NEW a \in Apps, UncountStop(a)
      PROVE  WatchedCalls'
  <2>0. a \in Threads
    BY <1>19, Apart DEF At
  <2>1. life' = life /\ (up' = up \/ LoadOk) /\ alive' = alive /\ watching \subseteq watching'
    BY <1>19, <2>0 DEF UncountStop, LoadFails, At
  <2>2. \E l : MovesTo(a, l) /\ (l \in InTouch => FALSE)
    BY <1>19, <2>0, <2>1, ServiceSteps DEF InTouch
  <2>3. PICK l : MovesTo(a, l) /\ (l \in InTouch => FALSE)
    BY <2>2
  <2> QED
    BY <2>0, <2>1, <2>3, WatchedKept DEF MovesTo, InTouch, Active, Serving
<1>20. ASSUME NEW a \in Apps, CountQuery(a)
      PROVE  WatchedCalls'
  <2>0. a \in Threads
    BY <1>20, Apart DEF At
  <2>1. life' = life /\ (up' = up \/ LoadOk) /\ alive' = alive /\ watching \subseteq watching' /\ call[a].op # "sub"
    BY <1>20, <2>0, CallFacts, Apart DEF CountQuery, LoadFails, At
  <2>2. \E l : MovesTo(a, l) /\ (l \in InTouch => call[a].op # "sub")
    BY <1>20, <2>0, <2>1, ServiceSteps DEF InTouch
  <2>3. PICK l : MovesTo(a, l) /\ (l \in InTouch => call[a].op # "sub")
    BY <2>2
  <2> QED
    BY <2>0, <2>1, <2>3, WatchedKept DEF MovesTo, InTouch, Active, Serving
<1>21. ASSUME NEW a \in Apps, QueryDone(a)
      PROVE  WatchedCalls'
  <2>0. a \in Threads
    BY <1>21, Apart DEF At
  <2>1. life' = life /\ (up' = up \/ LoadOk) /\ alive' = alive /\ watching \subseteq watching'
    BY <1>21, <2>0 DEF QueryDone, LoadFails, At
  <2>2. \E l : MovesTo(a, l) /\ (l \in InTouch => FALSE)
    BY <1>21, <2>0, <2>1, ServiceSteps DEF InTouch
  <2>3. PICK l : MovesTo(a, l) /\ (l \in InTouch => FALSE)
    BY <2>2
  <2> QED
    BY <2>0, <2>1, <2>3, WatchedKept DEF MovesTo, InTouch, Active, Serving
<1>22. ASSUME NEW t \in Threads, DeadReply(t)
      PROVE  WatchedCalls'
  <2>0. t \in Threads
    BY <1>22, Apart DEF At
  <2>1. life' = life /\ (up' = up \/ LoadOk) /\ alive' = alive /\ watching \subseteq watching'
    BY <1>22, <2>0 DEF DeadReply, LoadFails, At
  <2>2. \E l : MovesTo(t, l) /\ (l \in InTouch => FALSE)
    BY <1>22, <2>0, <2>1, CallSteps DEF InTouch
  <2>3. PICK l : MovesTo(t, l) /\ (l \in InTouch => FALSE)
    BY <2>2
  <2> QED
    BY <2>0, <2>1, <2>3, WatchedKept DEF MovesTo, InTouch, Active, Serving
<1>23. ASSUME AskUnload
      PROVE  WatchedCalls'
  <2>1. life' = life /\ (up' = up \/ LoadOk) /\ alive' = alive /\ watching \subseteq watching' /\ call' = call
    BY <1>23 DEF AskUnload, LoadFails
  <2> QED
    BY <2>1, WatchedKept
<1>24. ASSUME up /\ Ends
      PROVE  WatchedCalls'
  BY <1>24 DEF Ends, WatchedCalls, Dead
<1>25. ASSUME NEW p \in Processes, ProcessDies(p)
      PROVE  WatchedCalls'
  <2>1. life' = life /\ up' = up /\ alive' \subseteq alive /\ watching \cap alive' \subseteq watching'
    BY <1>25 DEF ProcessDies
  <2>2. \A u \in Threads : call'[u] = call[u] \/ call'[u].at \notin InTouch
    BY <1>25, ProcessDiesCalls DEF Idle, InTouch
  <2> QED
    BY <2>1, <2>2, WatchedKept
<1>26. ASSUME NEW r \in Recoveries, HandleDecipient(r[1], r[2])
      PROVE  WatchedCalls'
  <2>1. life' = life /\ (up' = up \/ LoadOk) /\ alive' = alive /\ watching \subseteq watching' /\ call' = call
    BY <1>26 DEF HandleDecipient, LoadFails
  <2> QED
    BY <2>1, WatchedKept
<1>27. ASSUME NEW r \in Recoveries, Attempt(r)
      PROVE  WatchedCalls'
  <2>1. life' = life /\ (up' = up \/ LoadOk) /\ alive' = alive /\ watching \subseteq watching' /\ call' = call
    BY <1>27 DEF Attempt, LoadFails
  <2> QED
    BY <2>1, WatchedKept
<1>28. ASSUME NEW r \in Recoveries, Recovered(r)
      PROVE  WatchedCalls'
  <2>1. life' = life /\ (up' = up \/ LoadOk) /\ alive' = alive /\ watching \subseteq watching' /\ call' = call
    BY <1>28 DEF Recovered, LoadFails
  <2> QED
    BY <2>1, WatchedKept
<1>29. ASSUME NEW r \in Recoveries, NEW s \in Subscribers, Resubscribe(r, s)
      PROVE  WatchedCalls'
  <2>0. r \in Threads
    BY <1>29, Apart DEF At
  <2>1. life' = life /\ (up' = up \/ LoadOk) /\ alive' = alive /\ watching \subseteq watching'
    BY <1>29, <2>0 DEF Resubscribe, LoadFails, At
  <2>2. \E l : MovesTo(r, l) /\ (l \in InTouch => FALSE)
    BY <1>29, <2>0, <2>1, CallSteps DEF InTouch
  <2>3. PICK l : MovesTo(r, l) /\ (l \in InTouch => FALSE)
    BY <2>2
  <2> QED
    BY <2>0, <2>1, <2>3, WatchedKept DEF MovesTo, InTouch, Active, Serving
<1>30. ASSUME UNCHANGED vars
      PROVE  WatchedCalls'
  <2>1. life' = life /\ (up' = up \/ LoadOk) /\ alive' = alive /\ watching \subseteq watching' /\ call' = call
    BY <1>30 DEF vars, LoadFails
  <2> QED
    BY <2>1, WatchedKept
<1> QED
  BY <1>1, <1>2, <1>3, <1>4, <1>5, <1>6, <1>7, <1>8, <1>9, <1>10, <1>11, <1>12, <1>13, <1>14, <1>15, <1>16, <1>17, <1>18, <1>19, <1>20, <1>21, <1>22, <1>23, <1>24, <1>25, <1>26, <1>27, <1>28, <1>29, <1>30 DEF Next, InCall, Recover, Unload, Crashes

(* What backs a listener is not taken from it by a step of another.        *)
LEMMA BackedKept ==
    ASSUME NEW s, Backed(s), life' = life, up => up', obits \subseteq obits',
           s \in subscribers => s \in subscribers',
           KitOf[s] \in watching => KitOf[s] \in watching',
           call[s].at = "cleaned" /\ ~Dead(s) => call'[s].at = "cleaned" /\ call'[s].life = call[s].life
    PROVE  Backed(s)'
  BY DEF Backed, Dead

(* A step of thread t, which is not in the midst of an unsubscription that *)
(* the service has done.                                                   *)
LEMMA ListenersKept ==
    ASSUME TypeInv, NEW t \in Threads, NEW l, MovesTo(t, l), call[t].at = "cleaned" => Dead(t),
           \A s \in listeners : Backed(s), listeners' = listeners,
           life' = life, up => up', obits \subseteq obits', subscribers \subseteq subscribers', watching \subseteq watching'
    PROVE  \A s \in listeners' : Backed(s)'
<1> SUFFICES ASSUME NEW s \in listeners PROVE Backed(s)'
  OBVIOUS
<1>1. CASE s = t
  BY <1>1, BackedKept
<1>2. CASE s # t
  BY <1>2, BackedKept, Apart DEF MovesTo, TypeInv, KitOK
<1> QED
  BY <1>1, <1>2

LEMMA ListenersBacked ==
    ASSUME TypeInv, LifeInv, DeathInv, KitInv, [Next]_vars
    PROVE  \A o \in listeners' : Backed(o)'
<1> USE DEF KitInv
<1>1. ASSUME NEW s \in Subscribers, Subscribe(s)
      PROVE  \A o \in listeners' : Backed(o)'
  <2>1. s \in Threads /\ life' = life /\ (up => up') /\ obits' = obits /\ subscribers' = subscribers /\ watching \subseteq watching' /\ listeners' = listeners
        /\ call[s].at # "cleaned"
    BY <1>1, Apart DEF Subscribe, At, LoadOk, LoadFails
  <2>2. \E l : MovesTo(s, l)
    BY <1>1, <2>1, CallSteps
  <2> QED
    BY <2>1, <2>2, ListenersKept
<1>2. ASSUME NEW s \in Subscribers, Unsubscribe(s)
      PROVE  \A o \in listeners' : Backed(o)'
  <2>1. s \in Threads /\ life' = life /\ (up => up') /\ obits' = obits /\ subscribers' = subscribers /\ watching \subseteq watching' /\ listeners' = listeners
        /\ call[s].at # "cleaned"
    BY <1>2, Apart DEF Unsubscribe, At, LoadOk, LoadFails
  <2>2. \E l : MovesTo(s, l)
    BY <1>2, <2>1, CallSteps
  <2> QED
    BY <2>1, <2>2, ListenersKept
<1>3. ASSUME NEW s \in Subscribers, OnRemoteDied(s)
      PROVE  \A o \in listeners' : Backed(o)'
  <2>1. /\ UNCHANGED <<life, up, obits, watching, listeners, call>> /\ s \notin listeners
        /\ subscribers' = subscribers \ {s}
    BY <1>3 DEF OnRemoteDied, UnsubscribeCollector, DeathInv
  <2> QED
    BY <2>1, BackedKept
<1>4. ASSUME NEW s \in Subscribers, UncountDied(s)
      PROVE  \A o \in listeners' : Backed(o)'
  <2>1. life' = life /\ (up => up') /\ obits' = obits /\ subscribers' = subscribers /\ watching \subseteq watching' /\ listeners' = listeners /\ call' = call
    BY <1>4 DEF UncountDied, LoadOk, LoadFails
  <2> QED
    BY <2>1, BackedKept
<1>5. ASSUME NEW a \in Apps, NEW e \in Events, NapiStartSecurityEventCollector(a, e) \/ NapiStopSecurityEventCollector(a, e)
      PROVE  \A o \in listeners' : Backed(o)'
  <2>1. UNCHANGED <<service, kit>> /\ call[a].at = "idle" /\ a \in Threads
    BY <1>5, NapiSteps, Apart DEF NapiStartSecurityEventCollector, NapiStopSecurityEventCollector, TypeInv, At
  <2>2. CASE MovesTo(a, "begin")
    BY <2>1, <2>2, ListenersKept
  <2>3. CASE UNCHANGED call
    BY <2>1, <2>3, BackedKept
  <2> QED
    BY <1>5, <2>2, <2>3, CallSteps
<1>6. ASSUME NEW a \in Apps, ManagerQuery(a)
      PROVE  \A o \in listeners' : Backed(o)'
  <2>1. a \in Threads /\ life' = life /\ (up => up') /\ obits' = obits /\ subscribers' = subscribers /\ watching \subseteq watching' /\ listeners' = listeners
        /\ call[a].at # "cleaned"
    BY <1>6, Apart DEF ManagerQuery, At, LoadOk, LoadFails
  <2>2. \E l : MovesTo(a, l)
    BY <1>6, <2>1, CallSteps
  <2> QED
    BY <2>1, <2>2, ListenersKept
<1>7. ASSUME NEW t \in Threads \ Apps, SubscribeImpl(t)
      PROVE  \A o \in listeners' : Backed(o)'
  <2>1. t \in Threads /\ life' = life /\ (up => up') /\ obits' = obits /\ subscribers' = subscribers /\ watching \subseteq watching' /\ listeners' = listeners
        /\ call[t].at # "cleaned"
    BY <1>7, Apart DEF SubscribeImpl, At, LoadOk, LoadFails
  <2>2. \E l : MovesTo(t, l)
    BY <1>7, <2>1, CallSteps
  <2> QED
    BY <2>1, <2>2, ListenersKept
<1>8. ASSUME NEW t \in Threads \ Apps, CountSubscriber(t)
      PROVE  \A o \in listeners' : Backed(o)'
  <2>1. t \in Threads /\ life' = life /\ (up => up') /\ obits' = obits /\ subscribers' = subscribers /\ watching \subseteq watching' /\ listeners' = listeners
        /\ call[t].at # "cleaned"
    BY <1>8, Apart DEF CountSubscriber, At, LoadOk, LoadFails
  <2>2. \E l : MovesTo(t, l)
    BY <1>8, <2>1, ServiceSteps
  <2> QED
    BY <2>1, <2>2, ListenersKept
<1>9. ASSUME NEW t \in Threads \ Apps, SubscribeCollector(t)
      PROVE  \A o \in listeners' : Backed(o)'
  <2>1. /\ UNCHANGED <<life, up, obits, watching, alive>> /\ call[t].at = "counted" /\ call[t].op = "sub" /\ ~Dead(t)
        /\ subscribers \subseteq subscribers' /\ subscribers' \subseteq Subscribers
        /\ \/ listeners' = listeners
           \/ listeners' = listeners \cup Living({call[t].x}) /\ call[t].x \in subscribers'
    <3>1. /\ UNCHANGED <<life, up, obits, watching, alive>>
          /\ call[t].at = "counted" /\ call[t].op = "sub" /\ ~Dead(t)
      BY <1>9 DEF SubscribeCollector, At
    <3>2. call[t].x \in Subscribers /\ subscribers \subseteq Subscribers
      <4>1. t \in Threads /\ ~At(t, "idle")
        BY <1>9 DEF SubscribeCollector, At
      <4>2. call[t].x \in Subscribers
        BY <3>1, <4>1, CallFacts
      <4> QED
        BY <4>2 DEF TypeInv, ServiceOK
    <3>3. \/ UNCHANGED <<subscribers, listeners>>
          \/ /\ subscribers' = subscribers \cup {call[t].x}
             /\ listeners' = listeners \cup Living({call[t].x})
      BY <1>9 DEF SubscribeCollector
    <3> QED
      BY <3>1, <3>2, <3>3
  <2>2. PICK l : MovesTo(t, l)
    BY <1>9, ServiceSteps
  <2>3. ASSUME NEW s \in listeners PROVE Backed(s)'
    <3>1. call[s].at = "cleaned" => call'[s] = call[s]
      BY <2>1, <2>2, Apart DEF MovesTo, TypeInv, KitOK
    <3> QED
      BY <2>1, <3>1, BackedKept
  <2>4. ASSUME NEW s \in listeners', s \notin listeners PROVE Backed(s)'
    <3>1. s = call[t].x /\ KitOf[s] \in alive /\ s \in subscribers'
      BY <2>1, <2>4 DEF Living
    <3>2. KitOf[s] \in watching'
      BY <2>1, <3>1 DEF WatchedCalls
    <3> QED
      BY <3>1, <3>2 DEF Backed
  <2> QED
    BY <2>3, <2>4
<1>10. ASSUME NEW t \in Threads \ Apps, Uncount(t)
      PROVE  \A o \in listeners' : Backed(o)'
  <2>1. t \in Threads /\ life' = life /\ (up => up') /\ obits' = obits /\ subscribers' = subscribers /\ watching \subseteq watching' /\ listeners' = listeners
        /\ call[t].at # "cleaned"
    BY <1>10, Apart DEF Uncount, At, LoadOk, LoadFails
  <2>2. \E l : MovesTo(t, l)
    BY <1>10, <2>1, ServiceSteps
  <2> QED
    BY <2>1, <2>2, ListenersKept
<1>11. ASSUME NEW s \in Subscribers, UnsubscribeImpl(s)
      PROVE  \A o \in listeners' : Backed(o)'
  <2>1. s \in Threads /\ life' = life /\ (up => up') /\ obits' = obits /\ subscribers' = subscribers /\ watching \subseteq watching' /\ listeners' = listeners
        /\ call[s].at # "cleaned"
    BY <1>11, Apart DEF UnsubscribeImpl, At, LoadOk, LoadFails
  <2>2. \E l : MovesTo(s, l)
    BY <1>11, <2>1, CallSteps
  <2> QED
    BY <2>1, <2>2, ListenersKept
<1>12. ASSUME NEW s \in Subscribers, CleanSubscriber(s)
      PROVE  \A o \in listeners' : Backed(o)'
  <2>1. UNCHANGED <<life, up, obits, watching>> /\ call[s].at = "call" /\ ~Dead(s) /\ s \in Threads
    BY <1>12, Apart DEF CleanSubscriber, At
  <2>2. PICK l : MovesTo(s, l)
    BY <1>12, ServiceSteps
  <2>3. /\ subscribers \ {s} \subseteq subscribers' /\ listeners' \subseteq listeners
        /\ s \in listeners' => subscribers' = subscribers \/ (s \in subscribers /\ call'[s].at = "cleaned" /\ call'[s].life = call[s].life)
    <3>1. ~At(s, "idle") /\ DOMAIN call = Threads /\ call[s] \in Calls
      BY <1>12, Apart DEF CleanSubscriber, At, TypeInv, CallsOK
    <3>2. \/ subscribers' = subscribers /\ listeners' \subseteq listeners
          \/ s \notin listeners' /\ subscribers' = subscribers \ {s} /\ listeners' \subseteq listeners
          \/ s \in subscribers /\ subscribers' = subscribers \ {s} /\ listeners' = listeners /\ Go(s, "cleaned")
      BY <1>12 DEF CleanSubscriber, UnsubscribeCollector
    <3> QED
      BY <3>1, <3>2, Apart DEF Go, Calls, TypeInv, CallsOK
  <2>4. ASSUME NEW o \in listeners', o # s PROVE Backed(o)'
    <3>1. o \in Threads /\ o \in listeners
      BY <2>3, Apart DEF TypeInv, KitOK
    <3>2. call'[o] = call[o]
      BY <2>2, <2>4, <3>1 DEF MovesTo
    <3> QED
      BY <2>1, <2>3, <2>4, <3>1, <3>2, BackedKept
  <2>5. ASSUME s \in listeners' PROVE Backed(s)'
    <3>1. Backed(s)
      BY <2>3, <2>5
    <3>2. CASE subscribers' = subscribers
      BY <2>1, <3>1, <3>2, BackedKept
    <3>3. CASE s \in subscribers /\ call'[s].at = "cleaned" /\ call'[s].life = call[s].life
      BY <2>1, <3>1, <3>3 DEF Backed, Dead
    <3> QED
      BY <2>3, <2>5, <3>2, <3>3
  <2> QED
    BY <2>4, <2>5
<1>13. ASSUME NEW s \in Subscribers, UnsubscribeDone(s)
      PROVE  \A o \in listeners' : Backed(o)'
  <2>1. UNCHANGED <<life, up, obits, watching, subscribers>> /\ listeners' = listeners \ {s} /\ s \in Threads
    BY <1>13, Apart DEF UnsubscribeDone
  <2>2. MovesTo(s, "idle")
    BY <1>13, ServiceSteps
  <2>3. ASSUME NEW o \in listeners' PROVE Backed(o)'
    <3>1. o \in Threads \ {s} /\ o \in listeners
      BY <2>1, Apart DEF TypeInv, KitOK
    <3>2. call'[o] = call[o]
      BY <2>2, <3>1 DEF MovesTo
    <3> QED
      BY <2>1, <3>1, <3>2, BackedKept
  <2> QED
    BY <2>3
<1>14. ASSUME NEW a \in Apps, CollectorImpl(a)
      PROVE  \A o \in listeners' : Backed(o)'
  <2>1. a \in Threads /\ life' = life /\ (up => up') /\ obits' = obits /\ subscribers' = subscribers /\ watching \subseteq watching' /\ listeners' = listeners
        /\ call[a].at # "cleaned"
    BY <1>14, Apart DEF CollectorImpl, At, LoadOk, LoadFails
  <2>2. \E l : MovesTo(a, l)
    BY <1>14, <2>1, CallSteps
  <2> QED
    BY <2>1, <2>2, ListenersKept
<1>15. ASSUME NEW a \in Apps, CountRun(a)
      PROVE  \A o \in listeners' : Backed(o)'
  <2>1. a \in Threads /\ life' = life /\ (up => up') /\ obits' = obits /\ subscribers' = subscribers /\ watching \subseteq watching' /\ listeners' = listeners
        /\ call[a].at # "cleaned"
    BY <1>15, Apart DEF CountRun, At, LoadOk, LoadFails
  <2>2. \E l : MovesTo(a, l)
    BY <1>15, <2>1, ServiceSteps
  <2> QED
    BY <2>1, <2>2, ListenersKept
<1>16. ASSUME NEW a \in Apps, CollectorStart(a)
      PROVE  \A o \in listeners' : Backed(o)'
  <2>1. a \in Threads /\ life' = life /\ (up => up') /\ obits' = obits /\ subscribers' = subscribers /\ watching \subseteq watching' /\ listeners' = listeners
        /\ call[a].at # "cleaned"
    BY <1>16, Apart DEF CollectorStart, At, LoadOk, LoadFails
  <2>2. \E l : MovesTo(a, l)
    BY <1>16, <2>1, ServiceSteps
  <2> QED
    BY <2>1, <2>2, ListenersKept
<1>17. ASSUME NEW a \in Apps, UncountRun(a)
      PROVE  \A o \in listeners' : Backed(o)'
  <2>1. a \in Threads /\ life' = life /\ (up => up') /\ obits' = obits /\ subscribers' = subscribers /\ watching \subseteq watching' /\ listeners' = listeners
        /\ call[a].at # "cleaned"
    BY <1>17, Apart DEF UncountRun, At, LoadOk, LoadFails
  <2>2. \E l : MovesTo(a, l)
    BY <1>17, <2>1, ServiceSteps
  <2> QED
    BY <2>1, <2>2, ListenersKept
<1>18. ASSUME NEW a \in Apps, CollectorStop(a)
      PROVE  \A o \in listeners' : Backed(o)'
  <2>1. a \in Threads /\ life' = life /\ (up => up') /\ obits' = obits /\ subscribers' = subscribers /\ watching \subseteq watching' /\ listeners' = listeners
        /\ call[a].at # "cleaned"
    BY <1>18, Apart DEF CollectorStop, At, LoadOk, LoadFails
  <2>2. \E l : MovesTo(a, l)
    BY <1>18, <2>1, ServiceSteps
  <2> QED
    BY <2>1, <2>2, ListenersKept
<1>19. ASSUME NEW a \in Apps, UncountStop(a)
      PROVE  \A o \in listeners' : Backed(o)'
  <2>1. a \in Threads /\ life' = life /\ (up => up') /\ obits' = obits /\ subscribers' = subscribers /\ watching \subseteq watching' /\ listeners' = listeners
        /\ call[a].at # "cleaned"
    BY <1>19, Apart DEF UncountStop, At, LoadOk, LoadFails
  <2>2. \E l : MovesTo(a, l)
    BY <1>19, <2>1, ServiceSteps
  <2> QED
    BY <2>1, <2>2, ListenersKept
<1>20. ASSUME NEW a \in Apps, CountQuery(a)
      PROVE  \A o \in listeners' : Backed(o)'
  <2>1. a \in Threads /\ life' = life /\ (up => up') /\ obits' = obits /\ subscribers' = subscribers /\ watching \subseteq watching' /\ listeners' = listeners
        /\ call[a].at # "cleaned"
    BY <1>20, Apart DEF CountQuery, At, LoadOk, LoadFails
  <2>2. \E l : MovesTo(a, l)
    BY <1>20, <2>1, ServiceSteps
  <2> QED
    BY <2>1, <2>2, ListenersKept
<1>21. ASSUME NEW a \in Apps, QueryDone(a)
      PROVE  \A o \in listeners' : Backed(o)'
  <2>1. a \in Threads /\ life' = life /\ (up => up') /\ obits' = obits /\ subscribers' = subscribers /\ watching \subseteq watching' /\ listeners' = listeners
        /\ call[a].at # "cleaned"
    BY <1>21, Apart DEF QueryDone, At, LoadOk, LoadFails
  <2>2. \E l : MovesTo(a, l)
    BY <1>21, <2>1, ServiceSteps
  <2> QED
    BY <2>1, <2>2, ListenersKept
<1>22. ASSUME NEW t \in Threads, DeadReply(t)
      PROVE  \A o \in listeners' : Backed(o)'
  <2>1. t \in Threads /\ life' = life /\ (up => up') /\ obits' = obits /\ subscribers' = subscribers /\ watching \subseteq watching' /\ listeners' = listeners
        /\ Dead(t)
    BY <1>22, Apart DEF DeadReply, At, LoadOk, LoadFails
  <2>2. \E l : MovesTo(t, l)
    BY <1>22, <2>1, CallSteps
  <2> QED
    BY <2>1, <2>2, ListenersKept
<1>23. ASSUME AskUnload
      PROVE  \A o \in listeners' : Backed(o)'
  <2>1. life' = life /\ (up => up') /\ obits' = obits /\ subscribers' = subscribers /\ watching \subseteq watching' /\ listeners' = listeners /\ call' = call
    BY <1>23 DEF AskUnload, LoadOk, LoadFails
  <2> QED
    BY <2>1, BackedKept
<1>24. ASSUME up /\ Ends
      PROVE  \A o \in listeners' : Backed(o)'
  <2>1. /\ up /\ ~up' /\ life \in Nat /\ life < MaxDeaths /\ MaxDeaths \in Nat /\ listeners' = listeners
        /\ obits' = obits \cup (watching \X {life + 1})
    BY <1>24, ServiceAssumption DEF Ends, LifeInv, TypeInv, ServiceOK
  <2>2. ASSUME NEW s \in listeners PROVE Backed(s)'
    <3>1. CASE KitOf[s] \in watching
      <4>1. <<KitOf[s], life + 1>> \in obits' /\ life + 1 \in 1 .. MaxDeaths
        BY <2>1, <3>1
      <4> QED
        BY <4>1 DEF Backed
    <3>2. CASE \E l \in 1 .. MaxDeaths : <<KitOf[s], l>> \in obits
      BY <2>1, <3>2 DEF Backed
    <3> QED
      BY <3>1, <3>2 DEF Backed
  <2> QED
    BY <2>1, <2>2
<1>25. ASSUME NEW p \in Processes, ProcessDies(p)
      PROVE  \A o \in listeners' : Backed(o)'
  <2>1. /\ UNCHANGED <<life, up, subscribers>> /\ listeners' = {s \in listeners : KitOf[s] # p}
        /\ watching' = watching \ {p} /\ obits' = {o \in obits : o[1] # p}
    BY <1>25 DEF ProcessDies
  <2>2. ASSUME NEW s \in listeners' PROVE Backed(s)'
    <3>1. s \in listeners /\ s \in Subscribers /\ s \in Threads /\ KitOf[s] # p /\ KitOfThread(s) = KitOf[s]
      BY <2>1, Apart DEF TypeInv, KitOK
    <3>2. call'[s] = call[s]
      BY <1>25, <3>1, ProcessDiesCalls
    <3>3. \A l : <<KitOf[s], l>> \in obits => <<KitOf[s], l>> \in obits'
      BY <2>1, <3>1
    <3> QED
      BY <2>1, <3>1, <3>2, <3>3 DEF Backed, Dead
  <2> QED
    BY <2>2
<1>26. ASSUME NEW r \in Recoveries, HandleDecipient(r[1], r[2])
      PROVE  \A o \in listeners' : Backed(o)'
  <2>1. /\ UNCHANGED <<life, up, subscribers, watching, call>> /\ listeners' = listeners \ {s \in listeners : KitOf[s] = r[1]}
        /\ obits' = obits \ {<<r[1], r[2]>>}
    BY <1>26 DEF HandleDecipient
  <2>2. ASSUME NEW s \in listeners' PROVE Backed(s)'
    <3>1. s \in listeners /\ KitOf[s] # r[1]
      BY <2>1
    <3>2. \A l : <<KitOf[s], l>> \in obits => <<KitOf[s], l>> \in obits'
      BY <2>1, <3>1
    <3> QED
      BY <2>1, <3>1, <3>2 DEF Backed, Dead
  <2> QED
    BY <2>2
<1>27. ASSUME NEW r \in Recoveries, Attempt(r)
      PROVE  \A o \in listeners' : Backed(o)'
  <2>1. life' = life /\ (up => up') /\ obits' = obits /\ subscribers' = subscribers /\ watching \subseteq watching' /\ listeners' = listeners /\ call' = call
    BY <1>27 DEF Attempt, LoadOk, LoadFails
  <2> QED
    BY <2>1, BackedKept
<1>28. ASSUME NEW r \in Recoveries, Recovered(r)
      PROVE  \A o \in listeners' : Backed(o)'
  <2>1. life' = life /\ (up => up') /\ obits' = obits /\ subscribers' = subscribers /\ watching \subseteq watching' /\ listeners' = listeners /\ call' = call
    BY <1>28 DEF Recovered, LoadOk, LoadFails
  <2> QED
    BY <2>1, BackedKept
<1>29. ASSUME NEW r \in Recoveries, NEW s \in Subscribers, Resubscribe(r, s)
      PROVE  \A o \in listeners' : Backed(o)'
  <2>1. r \in Threads /\ life' = life /\ (up => up') /\ obits' = obits /\ subscribers' = subscribers /\ watching \subseteq watching' /\ listeners' = listeners
        /\ call[r].at # "cleaned"
    BY <1>29, Apart DEF Resubscribe, At, LoadOk, LoadFails
  <2>2. \E l : MovesTo(r, l)
    BY <1>29, <2>1, CallSteps
  <2> QED
    BY <2>1, <2>2, ListenersKept
<1>30. ASSUME UNCHANGED vars
      PROVE  \A o \in listeners' : Backed(o)'
  <2>1. life' = life /\ (up => up') /\ obits' = obits /\ subscribers' = subscribers /\ watching \subseteq watching' /\ listeners' = listeners /\ call' = call
    BY <1>30 DEF vars, LoadOk, LoadFails
  <2> QED
    BY <2>1, BackedKept
<1> QED
  BY <1>1, <1>2, <1>3, <1>4, <1>5, <1>6, <1>7, <1>8, <1>9, <1>10, <1>11, <1>12, <1>13, <1>14, <1>15, <1>16, <1>17, <1>18, <1>19, <1>20, <1>21, <1>22, <1>23, <1>24, <1>25, <1>26, <1>27, <1>28, <1>29, <1>30 DEF Next, InCall, Recover, Unload, Crashes

(* A confirmed subscription is not forgotten.                              *)
LEMMA RememberedKept ==
    ASSUME TypeInv, \A s \in wanted : Remembered(s), gaveUp \subseteq gaveUp',
           wanted' \subseteq wanted \cup listeners', listeners \cap wanted' \subseteq listeners',
           \A q \in Recoveries, s \in wanted' :
              s \in task[q].todo => s \in task'[q].todo \/ s \in listeners' \/ q[1] \in gaveUp'
    PROVE  \A s \in wanted' : Remembered(s)'
<1> SUFFICES ASSUME NEW s \in wanted', s \notin listeners' PROVE Remembered(s)'
  BY DEF Remembered
<1>1. s \in wanted /\ s \notin listeners /\ KitOf[s] \in Processes
  BY ServiceAssumption DEF TypeInv, KitOK
<1>2. CASE KitOf[s] \in gaveUp
  BY <1>2 DEF Remembered
<1>3. ASSUME NEW l \in 1 .. MaxDeaths, s \in task[<<KitOf[s], l>>].todo
      PROVE  Remembered(s)'
  <2>1. <<KitOf[s], l>> \in Recoveries /\ <<KitOf[s], l>>[1] = KitOf[s]
    BY <1>1, Apart
  <2> QED
    BY <1>3, <2>1 DEF Remembered
<1> QED
  BY <1>1, <1>2, <1>3 DEF Remembered

(* A call that ends: a recovery leaves its subscriber only subscribed, or  *)
(* with a failure logged.                                                  *)
LEMMA EndRemembers ==
    ASSUME TypeInv, DeathInv, \A s \in wanted : Remembered(s),
           NEW t \in Threads, ~At(t, "idle"), NEW r, End(t, r),
           listeners \cap wanted' \subseteq listeners',
           call[t].op = "sub" /\ (r = "ok" \/ (t \in Recoveries /\ r # "fail")) =>
              (KitOf[call[t].x] \in alive => call[t].x \in listeners')
    PROVE  \A s \in wanted' : Remembered(s)'
<1>1. /\ \A q \in Recoveries : task'[q].todo = IF q = t THEN task[q].todo \ {call[t].x} ELSE task[q].todo
      /\ gaveUp \subseteq gaveUp' /\ (t \in Recoveries /\ r = "fail" => t[1] \in gaveUp')
      /\ wanted' \subseteq wanted \cup {s \in Subscribers : /\ s = call[t].x /\ KitOf[s] \in alive
                                                           /\ r = "ok" /\ call[t].op = "sub"}
  BY EndKit
<1>2. \A s \in wanted' : s \in wanted \/ s \in listeners'
  BY <1>1
<1>3. \A s \in wanted' : KitOf[s] \in alive
  BY <1>1 DEF DeathInv
<1>4. t \in Recoveries => call[t].op = "sub"
  BY CallFacts
<1>5. ASSUME NEW q \in Recoveries, NEW s \in wanted', s \in task[q].todo
      PROVE  s \in task'[q].todo \/ s \in listeners' \/ q[1] \in gaveUp'
  BY <1>1, <1>3, <1>4, <1>5
<1> QED
  BY <1>1, <1>2, <1>5, RememberedKept

LEMMA WantedRemembered ==
    ASSUME TypeInv, LifeInv, DeathInv, KitInv, [Next]_vars
    PROVE  \A o \in wanted' : Remembered(o)'
<1> USE DEF KitInv
<1>1. ASSUME NEW s \in Subscribers, Subscribe(s)
      PROVE  \A o \in wanted' : Remembered(o)'
  <2>1. wanted' = wanted /\ gaveUp' = gaveUp /\ task' = task /\ listeners' = listeners
    BY <1>1 DEF Subscribe
  <2> QED
    BY <2>1, RememberedKept
<1>2. ASSUME NEW s \in Subscribers, Unsubscribe(s)
      PROVE  \A o \in wanted' : Remembered(o)'
  <2>1. wanted' = wanted /\ gaveUp' = gaveUp /\ task' = task /\ listeners' = listeners
    BY <1>2 DEF Unsubscribe
  <2> QED
    BY <2>1, RememberedKept
<1>3. ASSUME NEW s \in Subscribers, OnRemoteDied(s)
      PROVE  \A o \in wanted' : Remembered(o)'
  <2>1. wanted' = wanted /\ gaveUp' = gaveUp /\ task' = task /\ listeners' = listeners
    BY <1>3 DEF OnRemoteDied
  <2> QED
    BY <2>1, RememberedKept
<1>4. ASSUME NEW s \in Subscribers, UncountDied(s)
      PROVE  \A o \in wanted' : Remembered(o)'
  <2>1. wanted' = wanted /\ gaveUp' = gaveUp /\ task' = task /\ listeners' = listeners
    BY <1>4 DEF UncountDied
  <2> QED
    BY <2>1, RememberedKept
<1>5. ASSUME NEW a \in Apps, NEW e \in Events, NapiStartSecurityEventCollector(a, e) \/ NapiStopSecurityEventCollector(a, e)
      PROVE  \A o \in wanted' : Remembered(o)'
  <2>1. wanted' = wanted /\ gaveUp' = gaveUp /\ task' = task /\ listeners' = listeners
    BY <1>5, NapiSteps DEF TypeInv
  <2> QED
    BY <2>1, RememberedKept
<1>6. ASSUME NEW a \in Apps, ManagerQuery(a)
      PROVE  \A o \in wanted' : Remembered(o)'
  <2>1. wanted' = wanted /\ gaveUp' = gaveUp /\ task' = task /\ listeners' = listeners
    BY <1>6 DEF ManagerQuery
  <2> QED
    BY <2>1, RememberedKept
<1>7. ASSUME NEW t \in Threads \ Apps, SubscribeImpl(t)
      PROVE  \A o \in wanted' : Remembered(o)'
  <2>1. t \in Threads /\ ~At(t, "idle") /\ listeners' = listeners
    BY <1>7, Apart DEF SubscribeImpl, At
  <2>2. CASE \E r : End(t, r) /\ (r = "fail" \/ (r = "already" /\ call[t].x \in listeners))
    BY <2>1, <2>2, EndRemembers
  <2>3. CASE wanted' = wanted /\ gaveUp' = gaveUp /\ task' = task
    BY <2>1, <2>3, RememberedKept
  <2> QED
    BY <1>7, <2>1, <2>2, <2>3 DEF SubscribeImpl
<1>8. ASSUME NEW t \in Threads \ Apps, CountSubscriber(t)
      PROVE  \A o \in wanted' : Remembered(o)'
  <2>1. wanted' = wanted /\ gaveUp' = gaveUp /\ task' = task /\ listeners' = listeners
    BY <1>8 DEF CountSubscriber
  <2> QED
    BY <2>1, RememberedKept
<1>9. ASSUME NEW t \in Threads \ Apps, SubscribeCollector(t)
      PROVE  \A o \in wanted' : Remembered(o)'
  <2>1. t \in Threads /\ ~At(t, "idle")
    BY <1>9 DEF SubscribeCollector, At
  <2>2. CASE End(t, "ok") /\ listeners' = listeners \cup Living({call[t].x})
    <3>1. KitOf[call[t].x] \in alive => call[t].x \in listeners'
      BY <2>2 DEF Living
    <3> QED
      BY <2>1, <2>2, <3>1, EndRemembers
  <2>3. CASE wanted' = wanted /\ gaveUp' = gaveUp /\ task' = task /\ listeners' = listeners
    BY <2>3, RememberedKept
  <2> QED
    BY <1>9, <2>2, <2>3 DEF SubscribeCollector
<1>10. ASSUME NEW t \in Threads \ Apps, Uncount(t)
      PROVE  \A o \in wanted' : Remembered(o)'
  <2>1. t \in Threads /\ ~At(t, "idle") /\ listeners' = listeners
    BY <1>10, Apart DEF Uncount, At
  <2>2. CASE \E r : End(t, r) /\ (r = "fail")
    BY <2>1, <2>2, EndRemembers
  <2>3. CASE wanted' = wanted /\ gaveUp' = gaveUp /\ task' = task
    BY <2>1, <2>3, RememberedKept
  <2> QED
    BY <1>10, <2>1, <2>2, <2>3 DEF Uncount
<1>11. ASSUME NEW s \in Subscribers, UnsubscribeImpl(s)
      PROVE  \A o \in wanted' : Remembered(o)'
  <2>1. s \in Threads /\ ~At(s, "idle") /\ listeners' = listeners
    BY <1>11, Apart DEF UnsubscribeImpl, At
  <2>2. CASE \E r : End(s, r) /\ (r = "fail")
    BY <2>1, <2>2, EndRemembers
  <2>3. CASE wanted' = wanted /\ gaveUp' = gaveUp /\ task' = task
    BY <2>1, <2>3, RememberedKept
  <2> QED
    BY <1>11, <2>1, <2>2, <2>3 DEF UnsubscribeImpl
<1>12. ASSUME NEW s \in Subscribers, CleanSubscriber(s)
      PROVE  \A o \in wanted' : Remembered(o)'
  <2>1. s \in Threads /\ ~At(s, "idle") /\ s \notin Recoveries /\ call[s].op = "unsub" /\ call[s].x = s
    BY <1>12, Apart, CallFacts DEF CleanSubscriber, At
  <2>2. CASE End(s, "ok") /\ listeners' = listeners \ {s}
    <3>1. s \notin wanted'
      BY <2>1, <2>2, EndKit
    <3>2. listeners \cap wanted' \subseteq listeners'
      BY <2>2, <3>1
    <3> QED
      BY <2>1, <2>2, <3>2, EndRemembers
  <2>3. CASE End(s, "fail") /\ listeners' = listeners
    BY <2>1, <2>3, EndRemembers
  <2>4. CASE wanted' = wanted /\ gaveUp' = gaveUp /\ task' = task /\ listeners' = listeners
    BY <2>4, RememberedKept
  <2> QED
    BY <1>12, <2>2, <2>3, <2>4 DEF CleanSubscriber
<1>13. ASSUME NEW s \in Subscribers, UnsubscribeDone(s)
      PROVE  \A o \in wanted' : Remembered(o)'
  <2>1. s \in Threads /\ ~At(s, "idle") /\ s \notin Recoveries /\ call[s].op = "unsub" /\ call[s].x = s
    BY <1>13, Apart DEF UnsubscribeDone, At, TypeInv, CallsOK, CallOK
  <2>2. CASE End(s, "ok") /\ listeners' = listeners \ {s}
    <3>1. s \notin wanted'
      BY <2>1, <2>2, EndKit
    <3>2. listeners \cap wanted' \subseteq listeners'
      BY <2>2, <3>1
    <3> QED
      BY <2>1, <2>2, <3>2, EndRemembers
  <2> QED
    BY <1>13, <2>2 DEF UnsubscribeDone
<1>14. ASSUME NEW a \in Apps, CollectorImpl(a)
      PROVE  \A o \in wanted' : Remembered(o)'
  <2>1. a \in Threads /\ ~At(a, "idle") /\ listeners' = listeners
    BY <1>14, Apart DEF CollectorImpl, At
  <2>2. CASE \E r : End(a, r) /\ (r = "fail")
    BY <2>1, <2>2, EndRemembers
  <2>3. CASE wanted' = wanted /\ gaveUp' = gaveUp /\ task' = task
    BY <2>1, <2>3, RememberedKept
  <2> QED
    BY <1>14, <2>1, <2>2, <2>3 DEF CollectorImpl
<1>15. ASSUME NEW a \in Apps, CountRun(a)
      PROVE  \A o \in wanted' : Remembered(o)'
  <2>1. wanted' = wanted /\ gaveUp' = gaveUp /\ task' = task /\ listeners' = listeners
    BY <1>15 DEF CountRun
  <2> QED
    BY <2>1, RememberedKept
<1>16. ASSUME NEW a \in Apps, CollectorStart(a)
      PROVE  \A o \in wanted' : Remembered(o)'
  <2>1. a \in Threads /\ ~At(a, "idle") /\ listeners' = listeners
    BY <1>16, Apart DEF CollectorStart, At
  <2>2. CASE \E r : End(a, r) /\ (call[a].op # "sub")
    BY <2>1, <2>2, EndRemembers
  <2>3. CASE wanted' = wanted /\ gaveUp' = gaveUp /\ task' = task
    BY <2>1, <2>3, RememberedKept
  <2> QED
    BY <1>16, <2>1, <2>2, <2>3, CallFacts DEF CollectorStart
<1>17. ASSUME NEW a \in Apps, UncountRun(a)
      PROVE  \A o \in wanted' : Remembered(o)'
  <2>1. a \in Threads /\ ~At(a, "idle") /\ listeners' = listeners
    BY <1>17, Apart DEF UncountRun, At
  <2>2. CASE \E r : End(a, r) /\ (r = "fail")
    BY <2>1, <2>2, EndRemembers
  <2>3. CASE wanted' = wanted /\ gaveUp' = gaveUp /\ task' = task
    BY <2>1, <2>3, RememberedKept
  <2> QED
    BY <1>17, <2>1, <2>2, <2>3 DEF UncountRun
<1>18. ASSUME NEW a \in Apps, CollectorStop(a)
      PROVE  \A o \in wanted' : Remembered(o)'
  <2>1. a \in Threads /\ ~At(a, "idle") /\ listeners' = listeners
    BY <1>18, Apart DEF CollectorStop, At
  <2>2. CASE \E r : End(a, r) /\ (call[a].op # "sub")
    BY <2>1, <2>2, EndRemembers
  <2>3. CASE wanted' = wanted /\ gaveUp' = gaveUp /\ task' = task
    BY <2>1, <2>3, RememberedKept
  <2> QED
    BY <1>18, <2>1, <2>2, <2>3, CallFacts DEF CollectorStop
<1>19. ASSUME NEW a \in Apps, UncountStop(a)
      PROVE  \A o \in wanted' : Remembered(o)'
  <2>1. a \in Threads /\ ~At(a, "idle") /\ listeners' = listeners
    BY <1>19, Apart DEF UncountStop, At
  <2>2. CASE \E r : End(a, r) /\ (call[a].op # "sub")
    BY <2>1, <2>2, EndRemembers
  <2>3. CASE wanted' = wanted /\ gaveUp' = gaveUp /\ task' = task
    BY <2>1, <2>3, RememberedKept
  <2> QED
    BY <1>19, <2>1, <2>2, <2>3, CallFacts DEF UncountStop
<1>20. ASSUME NEW a \in Apps, CountQuery(a)
      PROVE  \A o \in wanted' : Remembered(o)'
  <2>1. wanted' = wanted /\ gaveUp' = gaveUp /\ task' = task /\ listeners' = listeners
    BY <1>20 DEF CountQuery
  <2> QED
    BY <2>1, RememberedKept
<1>21. ASSUME NEW a \in Apps, QueryDone(a)
      PROVE  \A o \in wanted' : Remembered(o)'
  <2>1. a \in Threads /\ ~At(a, "idle") /\ listeners' = listeners
    BY <1>21, Apart DEF QueryDone, At
  <2>2. CASE \E r : End(a, r) /\ (call[a].op # "sub")
    BY <2>1, <2>2, EndRemembers
  <2>3. CASE wanted' = wanted /\ gaveUp' = gaveUp /\ task' = task
    BY <2>1, <2>3, RememberedKept
  <2> QED
    BY <1>21, <2>1, <2>2, <2>3, CallFacts DEF QueryDone
<1>22. ASSUME NEW t \in Threads, DeadReply(t)
      PROVE  \A o \in wanted' : Remembered(o)'
  <2>1. t \in Threads /\ ~At(t, "idle") /\ listeners' = listeners
    BY <1>22, Apart DEF DeadReply, At
  <2>2. CASE \E r : End(t, r) /\ (r = "fail")
    BY <2>1, <2>2, EndRemembers
  <2>3. CASE wanted' = wanted /\ gaveUp' = gaveUp /\ task' = task
    BY <2>1, <2>3, RememberedKept
  <2> QED
    BY <1>22, <2>1, <2>2, <2>3 DEF DeadReply
<1>23. ASSUME AskUnload
      PROVE  \A o \in wanted' : Remembered(o)'
  <2>1. wanted' = wanted /\ gaveUp' = gaveUp /\ task' = task /\ listeners' = listeners
    BY <1>23 DEF AskUnload
  <2> QED
    BY <2>1, RememberedKept
<1>24. ASSUME up /\ Ends
      PROVE  \A o \in wanted' : Remembered(o)'
  <2>1. wanted' = wanted /\ gaveUp' = gaveUp /\ task' = task /\ listeners' = listeners
    BY <1>24 DEF Ends
  <2> QED
    BY <2>1, RememberedKept
<1>25. ASSUME NEW p \in Processes, ProcessDies(p)
      PROVE  \A o \in wanted' : Remembered(o)'
  <2>1. /\ gaveUp' = gaveUp /\ listeners' = {s \in listeners : KitOf[s] # p} /\ wanted' = {s \in wanted : KitOf[s] # p}
        /\ \A q \in Recoveries : q[1] # p => task'[q] = task[q]
    BY <1>25 DEF ProcessDies
  <2>2. ASSUME NEW s \in wanted' PROVE Remembered(s)'
    <3>1. s \in wanted /\ KitOf[s] # p /\ KitOf[s] \in Processes
      BY <2>1, ServiceAssumption DEF TypeInv, KitOK
    <3>2. \A l \in 1 .. MaxDeaths : task'[<<KitOf[s], l>>] = task[<<KitOf[s], l>>]
      BY <2>1, <3>1, Apart
    <3> QED
      BY <2>1, <3>1, <3>2 DEF Remembered
  <2> QED
    BY <2>2
<1>26. ASSUME NEW r \in Recoveries, HandleDecipient(r[1], r[2])
      PROVE  \A o \in wanted' : Remembered(o)'
  <2> DEFINE tmp == {s \in listeners : KitOf[s] = r[1]}
  <2>1. /\ UNCHANGED <<gaveUp, wanted>> /\ r = <<r[1], r[2]>> /\ r[1] \in Processes /\ r[2] \in 1 .. MaxDeaths
        /\ <<r[1], r[2]>> \in obits /\ listeners' = listeners \ tmp /\ task \in [Recoveries -> Tasks]
    BY <1>26, Apart DEF HandleDecipient, TypeInv, KitOK
  <2>2. /\ \A q \in Recoveries \ {r} : task'[q] = task[q]
        /\ tmp = {} \/ task'[r].todo = tmp
    BY <1>26, <2>1 DEF HandleDecipient
  <2>3. task[r].todo = {}
    BY <2>1 DEF TasksOK
  <2>4. ASSUME NEW s \in wanted' PROVE Remembered(s)'
    <3>1. CASE s \in listeners /\ KitOf[s] = r[1]
      <4>1. s \in task'[<<KitOf[s], r[2]>>].todo
        BY <2>1, <2>2, <3>1
      <4> QED
        BY <2>1, <4>1 DEF Remembered
    <3>2. CASE s \in listeners /\ KitOf[s] # r[1]
      BY <2>1, <3>2 DEF Remembered
    <3>3. CASE KitOf[s] \in gaveUp
      BY <2>1, <3>3 DEF Remembered
    <3>4. CASE \E l \in 1 .. MaxDeaths : s \in task[<<KitOf[s], l>>].todo
      <4>1. PICK l \in 1 .. MaxDeaths : s \in task[<<KitOf[s], l>>].todo
        BY <3>4
      <4>2. <<KitOf[s], l>> \in Recoveries /\ <<KitOf[s], l>> # r
        BY <2>1, <2>3, <4>1, ServiceAssumption, Apart DEF TypeInv, KitOK
      <4> QED
        BY <2>2, <4>1, <4>2 DEF Remembered
    <3> QED
      BY <2>1, <3>1, <3>2, <3>3, <3>4 DEF Remembered
  <2> QED
    BY <2>4
<1>27. ASSUME NEW r \in Recoveries, Attempt(r)
      PROVE  \A o \in wanted' : Remembered(o)'
  <2>1. UNCHANGED <<wanted, listeners>> /\ gaveUp \subseteq gaveUp' /\ task \in [Recoveries -> Tasks]
    BY <1>27 DEF Attempt, TypeInv, KitOK
  <2>2. \A q \in Recoveries : task'[q].todo = task[q].todo \/ q[1] \in gaveUp'
    BY <1>27, <2>1 DEF Attempt, Tasks
  <2> QED
    BY <2>1, <2>2, RememberedKept
<1>28. ASSUME NEW r \in Recoveries, Recovered(r)
      PROVE  \A o \in wanted' : Remembered(o)'
  <2>1. UNCHANGED <<wanted, listeners, gaveUp>> /\ task \in [Recoveries -> Tasks]
    BY <1>28 DEF Recovered, TypeInv, KitOK
  <2>2. \A q \in Recoveries : task'[q].todo = task[q].todo \/ task[q].todo = {}
    BY <1>28, <2>1 DEF Recovered
  <2> QED
    BY <2>1, <2>2, RememberedKept
<1>29. ASSUME NEW r \in Recoveries, NEW s \in Subscribers, Resubscribe(r, s)
      PROVE  \A o \in wanted' : Remembered(o)'
  <2>1. wanted' = wanted /\ gaveUp' = gaveUp /\ task' = task /\ listeners' = listeners
    BY <1>29 DEF Resubscribe
  <2> QED
    BY <2>1, RememberedKept
<1>30. ASSUME UNCHANGED vars
      PROVE  \A o \in wanted' : Remembered(o)'
  <2>1. wanted' = wanted /\ gaveUp' = gaveUp /\ task' = task /\ listeners' = listeners
    BY <1>30 DEF vars
  <2> QED
    BY <2>1, RememberedKept
<1> QED
  BY <1>1, <1>2, <1>3, <1>4, <1>5, <1>6, <1>7, <1>8, <1>9, <1>10, <1>11, <1>12, <1>13, <1>14, <1>15, <1>16, <1>17, <1>18, <1>19, <1>20, <1>21, <1>22, <1>23, <1>24, <1>25, <1>26, <1>27, <1>28, <1>29, <1>30 DEF Next, InCall, Recover, Unload, Crashes

-------------------------------------------------------------------------------
(* The theorems                                                            *)

Inv == TypeInv /\ LifeInv /\ DeathInv /\ CountInv /\ ServedInv /\ KitInv

LEMMA Initially == Init => Inv
<1> SUFFICES ASSUME Init PROVE Inv
  OBVIOUS
<1> USE DEF Init
<1>1. TypeInv
  <2>1. call = [t \in Threads |-> Idle] /\ CallsOK
    BY IdleOK DEF CallsOK
  <2>2. Asleep \in Tasks
    BY DEF Asleep, Tasks
  <2>3. PoolOK
    BY DEF PoolOK, PoolInit, PoolTypeOK
  <2>4. ServiceOK
    <3>1. up \in BOOLEAN
      OBVIOUS
    <3>2. life \in Nat /\ refCount \in Int /\ misStops \in Nat
      OBVIOUS
    <3>3. runs \in [Events -> Apps \cup {None}]
      OBVIOUS
    <3> QED
      BY <3>1, <3>2, <3>3 DEF ServiceOK
  <2>5. KitOK
    BY <2>2 DEF KitOK
  <2> QED
    BY <2>1, <2>3, <2>4, <2>5 DEF TypeInv
<1>2. LifeInv
  BY ServiceAssumption DEF LifeInv, Idle, Active
<1>3. DeathInv
  BY DEF DeathInv
<1>4. CountInv
  <2>1. Runs = {} /\ InCalls = {}
    BY DEF Runs, InCalls, Counted, Dead
  <2>2. Total = 0
    BY <2>1, FS_EmptySet DEF Total
  <2> QED
    BY <2>1, <2>2, FS_EmptySet DEF CountInv
<1>5. ServedInv
  <2>1. subscribers = {} /\ localRuns \ localStuck = {} /\ \A e \in Events : runs[e] = None
    OBVIOUS
  <2> QED
    BY <2>1 DEF ServedInv, Served, Taken
<1>6. KitInv
  BY Apart DEF KitInv, TasksOK, Asleep, WatchedCalls, Idle
<1> QED
  BY <1>1, <1>2, <1>3, <1>4, <1>5, <1>6 DEF Inv

LEMMA Preserved == Inv /\ [Next]_vars => Inv'
<1> SUFFICES ASSUME Inv, [Next]_vars PROVE Inv'
  OBVIOUS
<1>1. TypeInv /\ LifeInv /\ DeathInv /\ CountInv /\ ServedInv /\ KitInv /\ TasksOK /\ WatchedCalls
  BY DEF Inv, KitInv
<1>2. TypeInv'
  BY <1>1, DataTyped, CallsTyped DEF DataOK, TypeInv
<1>3. LifeInv' /\ DeathInv'
  BY <1>1, LifeHolds, DeathHolds
<1>4. CountInv' /\ ServedInv'
  BY <1>1, CountHolds, ServedHolds
<1>5. KitInv'
  BY <1>1, TasksHold, WatchedHolds, ListenersBacked, WantedRemembered DEF KitInv
<1> QED
  BY <1>2, <1>3, <1>4, <1>5 DEF Inv

LEMMA Always == Spec => []Inv
BY Initially, Preserved, PTL DEF Spec

(* g_refCount is the number of subscriptions, runs, dead callbacks still   *)
(* to be taken from it, and calls under way that are counted, as long as   *)
(* no CollectorStop has failed in this life of the service.                *)
THEOREM UsersCounted == Spec => []RefExact
<1>1. Inv => RefExact
  BY DEF Inv, CountInv, Total, Runs, InCalls, RefExact
<1> QED
  BY <1>1, Always, PTL

(* An event that is subscribed or has a run has its collector started,     *)
(* except one whose collector was stopped for one of its users, or by a    *)
(* stop that failed, while another remained, and not started since.  Local *)
(* runs have theirs unless a stop that failed has kept them.               *)
THEOREM UsersServed == Spec => []Served
<1>1. Inv => Served
  BY DEF Inv, ServedInv
<1> QED
  BY <1>1, Always, PTL

(* Whatever has died and recovered meanwhile, a subscription that was      *)
(* confirmed is known to the kit and to the service once nothing is under  *)
(* way, or its recovery has logged that it failed.                         *)
THEOREM SubscriptionsRecovered == Spec => []KitAgrees
<1>1. Inv => KitAgrees
  <2> SUFFICES ASSUME Inv, NEW s \in wanted, AtRest(KitOf[s]), KitOf[s] \notin gaveUp
               PROVE  s \in listeners \cap subscribers
    BY DEF KitAgrees
  <2>1. s \in Subscribers /\ KitOfThread(s) = KitOf[s]
    BY Apart DEF Inv, TypeInv, KitOK
  <2>2. \A l \in 1 .. MaxDeaths : <<KitOf[s], l>> \notin obits /\ task[<<KitOf[s], l>>].todo = {}
    BY DEF AtRest, Asleep
  <2>3. s \in listeners
    BY <2>2 DEF Inv, KitInv, Remembered
  <2>4. call[s].at = "idle"
    BY <2>1 DEF AtRest, At
  <2> QED
    BY <2>2, <2>3, <2>4 DEF Inv, KitInv, Backed
<1> QED
  BY <1>1, Always, PTL
=============================================================================

---------------------------- MODULE DataCollection ----------------------------
(***************************************************************************)
(* The collector pool of services/collector_manager: which collector       *)
(* plugins are loaded and started (eventIdToLoaderMap_) and how many        *)
(* subscriptions each one counts (eventIdToSubscribeCount_).                *)
(*                                                                         *)
(* Every public operation holds opMutex_ from beginning to end, so each is  *)
(* one action.  The operations take a batch of events; a batch is a set,    *)
(* and the order the vector lists it in is left open: an operation that     *)
(* fails part of the way has done any part of the batch before the event    *)
(* that fails.  Whether the path lookup, the dlopen, the start or the stop  *)
(* of a collector fails is the environment's choice, limited by Faults.     *)
(***************************************************************************)
EXTENDS Naturals, FiniteSets

CONSTANTS
    Events,     \* the event ids that have a collector
    Faults      \* the kinds of external call that may fail

VARIABLES
    subscribeCount, \* eventIdToSubscribeCount_, 0 where the map has no entry
    loaderMap       \* the keys of eventIdToLoaderMap_

poolVars == <<subscribeCount, loaderMap>>

(* The calls out of the service that can fail: starting and stopping a      *)
(* collector, the SecurityCollector service, and the filter plugin.         *)
FaultKinds == {"load", "stop", "scSubscribe", "scUnsubscribe", "filter"}

ASSUME FaultsAssumption == Faults \subseteq FaultKinds

PoolTypeOK ==
    /\ subscribeCount \in [Events -> Nat]
    /\ loaderMap \subseteq Events

PoolInit ==
    /\ subscribeCount = [e \in Events |-> 0]
    /\ loaderMap = {}

IsCollectorStarted(e) == e \in loaderMap

-----------------------------------------------------------------------------
(* SubscribeCollectors(batch) returning SUCCESS: each event is counted, and *)
(* those that were not started are loaded.                                  *)
SubscribeCollectorsOk(batch) ==
    /\ subscribeCount' = [e \in Events |-> IF e \in batch THEN subscribeCount[e] + 1
                                                          ELSE subscribeCount[e]]
    /\ loaderMap' = loaderMap \cup batch

(* The load of bad fails after the events of done: bad has been counted and *)
(* stays counted, so do the events of done that were already started; those *)
(* that this call loaded are unsubscribed again, which stops a collector    *)
(* whose count falls to zero.                                               *)
SubscribeCollectorsFail(batch) ==
    /\ "load" \in Faults
    /\ \E bad \in batch \ loaderMap : \E done \in SUBSET (batch \ {bad}) :
          /\ subscribeCount' =
                [e \in Events |-> IF e = bad \/ e \in done \cap loaderMap
                                  THEN subscribeCount[e] + 1
                                  ELSE subscribeCount[e]]
          /\ loaderMap' = loaderMap \cup {e \in done : subscribeCount[e] > 0}

(* UnsubscribeCollectors(batch): an event that is not loaded is skipped and *)
(* its count kept; a count above one is only decremented; otherwise the     *)
(* collector is stopped and forgotten, even when its stop reports an error. *)
Stopping(batch) == {e \in batch \cap loaderMap : subscribeCount[e] <= 1}

UnsubscribeCollectors(batch) ==
    /\ subscribeCount' =
          [e \in Events |-> IF e \in batch \cap loaderMap /\ subscribeCount[e] > 0
                            THEN subscribeCount[e] - 1
                            ELSE subscribeCount[e]]
    /\ loaderMap' = loaderMap \ Stopping(batch)

(* Whether UnsubscribeCollectors may return an error: the stop of one of    *)
(* the collectors it stops has failed.                                      *)
UnsubscribeMayFail(batch) == "stop" \in Faults /\ Stopping(batch) # {}

(* StartCollectors and StopCollectors share the loader map and never count. *)
StartCollectorsOk(batch) ==
    /\ loaderMap' = loaderMap \cup batch
    /\ UNCHANGED subscribeCount

StartCollectorsFail(batch) ==
    /\ "load" \in Faults
    /\ batch \ loaderMap # {}
    /\ UNCHANGED poolVars

StopCollectors(batch) ==
    /\ loaderMap' = loaderMap \ batch
    /\ UNCHANGED subscribeCount

StopMayFail(batch) == "stop" \in Faults /\ batch \cap loaderMap # {}
=============================================================================

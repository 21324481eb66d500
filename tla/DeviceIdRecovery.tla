--------------------------- MODULE DeviceIdRecovery ---------------------------
(***************************************************************************)
(* How AcquireDataSubscribeManager keeps the id of the device.  The id is  *)
(* fetched from the device manager, another service, which may die: its    *)
(* death makes the id invalid and starts a thread that registers again and *)
(* fetches the id, with pauses, until it succeeds or the service stops.    *)
(* Every subscription asks for a recovery too when the id is not valid.    *)
(*                                                                         *)
(* The callers are the threads of subscriptions, the death callback of the *)
(* device manager and the stop of the service; each atomic flag is read or *)
(* written in a step of its own, as the code does.                         *)
(***************************************************************************)
EXTENDS Naturals

CONSTANTS Subscribers,   \* threads that subscribe
          MaxDeaths,     \* bound on the deaths of the device manager
          MaxCalls       \* bound on the subscriptions

NoOne == "no one"

ASSUME SubscriberAssumption ==
    /\ Subscribers \intersect {"dm", "stop", NoOne} = {}
    /\ MaxDeaths \in Nat /\ MaxCalls \in Nat

Callers == Subscribers \union {"dm", "stop"}

VARIABLES
    dmUp, registered,     \* the device manager: alive, and knows this client
    died,                 \* death callbacks not yet delivered
    deaths, calls,        \* how often the bounded events have happened
    deviceId,             \* whether deviceId_ holds an id
    valid,                \* deviceIdValid_
    initFlag,             \* isDeviceManagerInit_
    inFlight,             \* deviceIdRefreshInFlight_
    stopFlag,             \* isStopDeviceIdRecovery_
    holder,               \* who holds deviceIdRecoveryMutex_
    pc,                   \* where each caller is
    recovery              \* where deviceIdRecoveryThread_ is

dm    == <<dmUp, registered, died, deaths>>
cache == <<deviceId, valid, initFlag>>
flags == <<inFlight, stopFlag, holder>>
vars  == <<dm, calls, cache, flags, pc, recovery>>

Goto(c, l) == pc' = [pc EXCEPT ![c] = l]
Turn(l) == recovery' = l

Init ==
    /\ dmUp \in BOOLEAN /\ registered = FALSE /\ died = 0 /\ deaths = 0 /\ calls = 0
    /\ deviceId = FALSE /\ valid = FALSE /\ initFlag = FALSE
    /\ inFlight = FALSE /\ stopFlag = FALSE /\ holder = NoOne
    /\ pc = [c \in Callers |-> "idle"] /\ recovery = "none"

-----------------------------------------------------------------------------
(* The device manager *)

DmDies ==
    /\ dmUp /\ deaths < MaxDeaths
    /\ dmUp' = FALSE /\ registered' = FALSE /\ deaths' = deaths + 1
    /\ died' = IF registered THEN died + 1 ELSE died
    /\ UNCHANGED <<calls, cache, flags, pc, recovery>>

DmStarts ==
    /\ ~dmUp /\ dmUp' = TRUE
    /\ UNCHANGED <<registered, died, deaths, calls, cache, flags, pc, recovery>>

-----------------------------------------------------------------------------
(* The callers *)

RefreshDeviceIdAsync(c) ==
    /\ c \in Subscribers /\ pc[c] = "idle" /\ calls < MaxCalls
    /\ calls' = calls + 1
    /\ Goto(c, "start")
    /\ UNCHANGED <<dm, cache, flags, recovery>>

(* The death callback, RecoverDeviceId. *)
OnRemoteDied ==
    /\ died > 0 /\ pc["dm"] = "idle"
    /\ died' = died - 1
    /\ Goto("dm", "invalidate")
    /\ UNCHANGED <<dmUp, registered, deaths, calls, cache, flags, recovery>>

DeInitDeviceId ==
    /\ pc["stop"] = "idle"
    /\ Goto("stop", "stopping")
    /\ UNCHANGED <<dm, calls, cache, flags, recovery>>

(* Mutant: the registration is still believed in after the death. *)
InvalidateInit_Keeps(c) ==
    /\ pc[c] = "invalidate" /\ initFlag' = initFlag
    /\ Goto(c, "invalidateMark")
    /\ UNCHANGED <<dm, calls, deviceId, valid, flags, recovery>>

(* InvalidateDeviceId, three stores one after the other. *)
InvalidateInit(c) ==
    /\ pc[c] = "invalidate" /\ initFlag' = FALSE
    /\ Goto(c, "invalidateMark")
    /\ UNCHANGED <<dm, calls, deviceId, valid, flags, recovery>>
InvalidateMark(c) ==
    /\ pc[c] = "invalidateMark" /\ valid' = FALSE
    /\ Goto(c, "invalidateId")
    /\ UNCHANGED <<dm, calls, deviceId, initFlag, flags, recovery>>
InvalidateId(c) ==
    /\ pc[c] = "invalidateId" /\ deviceId' = FALSE
    /\ Goto(c, IF c = "dm" THEN "start" ELSE "deregister")
    /\ UNCHANGED <<dm, calls, valid, initFlag, flags, recovery>>

(* StartDeviceIdRecovery: nothing to do, or somebody recovers already, or  *)
(* the mark is taken and a thread is started in place of the last one.     *)
TestValid(c) ==
    /\ pc[c] = "start"
    /\ Goto(c, IF valid THEN "idle" ELSE "mark")
    /\ UNCHANGED <<dm, calls, cache, flags, recovery>>
(* Mutant: the mark is set without a look at its value. *)
MarkInFlight_Untested(c) ==
    /\ pc[c] = "mark"
    /\ Goto(c, "lock")
    /\ inFlight' = TRUE
    /\ UNCHANGED <<dm, calls, cache, stopFlag, holder, recovery>>

MarkInFlight(c) ==
    /\ pc[c] = "mark"
    /\ Goto(c, IF inFlight THEN "idle" ELSE "lock")
    /\ inFlight' = TRUE
    /\ UNCHANGED <<dm, calls, cache, stopFlag, holder, recovery>>
(* Mutant: the stop waits for the thread without telling it. *)
LockRecovery_NoFlag(c) ==
    /\ pc[c] \in {"lock", "stopping"} /\ holder = NoOne
    /\ holder' = c
    /\ stopFlag' = stopFlag
    /\ Goto(c, "join")
    /\ UNCHANGED <<dm, calls, cache, inFlight, recovery>>

LockRecovery(c) ==
    /\ pc[c] \in {"lock", "stopping"} /\ holder = NoOne
    /\ holder' = c
    /\ stopFlag' = IF c = "stop" THEN TRUE ELSE stopFlag
    /\ Goto(c, "join")
    /\ UNCHANGED <<dm, calls, cache, inFlight, recovery>>
JoinRecovery(c) ==
    /\ pc[c] = "join" /\ recovery \in {"none", "ended"}
    /\ Turn("none")
    /\ IF c = "stop" THEN holder' = NoOne /\ Goto(c, "invalidate")
                     ELSE holder' = holder /\ Goto(c, "spawn")
    /\ UNCHANGED <<dm, calls, cache, inFlight, stopFlag>>
SpawnRecovery(c) ==
    /\ pc[c] = "spawn"
    /\ stopFlag' = FALSE /\ Turn("test")
    /\ holder' = NoOne /\ Goto(c, "idle")
    /\ UNCHANGED <<dm, calls, cache, inFlight>>

UnInitDeviceManager ==
    /\ pc["stop"] = "deregister"
    /\ registered' = FALSE
    /\ Goto("stop", "stopped")
    /\ UNCHANGED <<dmUp, died, deaths, calls, cache, flags, recovery>>

-----------------------------------------------------------------------------
(* The recovery thread, DeviceIdRecoveryLoop and InitDeviceId *)

LoopTest ==
    /\ recovery = "test"
    /\ Turn(IF stopFlag \/ valid THEN "leave" ELSE "init")
    /\ UNCHANGED <<dm, calls, cache, flags, pc>>
InitOnce ==
    /\ recovery = "init"
    /\ initFlag' = TRUE
    /\ Turn(IF initFlag THEN "fetch" ELSE "register")
    /\ UNCHANGED <<dm, calls, deviceId, valid, flags, pc>>
InitDeviceManager ==
    /\ recovery = "register"
    /\ IF dmUp THEN registered' = TRUE /\ initFlag' = initFlag /\ Turn("fetch")
               ELSE registered' = registered /\ initFlag' = FALSE /\ Turn("look")
    /\ UNCHANGED <<dmUp, died, deaths, calls, deviceId, valid, flags, pc>>
GetLocalDeviceInfo ==
    /\ recovery = "fetch"
    /\ Turn(IF dmUp /\ registered THEN "store" ELSE "look")
    /\ UNCHANGED <<dm, calls, cache, flags, pc>>
StoreDeviceId ==
    /\ recovery = "store" /\ deviceId' = TRUE
    /\ Turn("setValid")
    /\ UNCHANGED <<dm, calls, valid, initFlag, flags, pc>>
SetValid ==
    /\ recovery = "setValid" /\ valid' = TRUE
    /\ Turn("look")
    /\ UNCHANGED <<dm, calls, deviceId, initFlag, flags, pc>>
(* The pause between two attempts is the step from "look" to "test". *)
LookValid ==
    /\ recovery = "look"
    /\ Turn(IF valid THEN "leave" ELSE "test")
    /\ UNCHANGED <<dm, calls, cache, flags, pc>>
ClearInFlight ==
    /\ recovery = "leave" /\ inFlight' = FALSE
    /\ Turn("ended")
    /\ UNCHANGED <<dm, calls, cache, stopFlag, holder, pc>>

-----------------------------------------------------------------------------
Recover == LoopTest \/ InitOnce \/ InitDeviceManager \/ GetLocalDeviceInfo \/ StoreDeviceId
             \/ SetValid \/ LookValid \/ ClearInFlight
Proceed(c) == InvalidateInit(c) \/ InvalidateMark(c) \/ InvalidateId(c) \/ TestValid(c)
                \/ MarkInFlight(c) \/ LockRecovery(c) \/ JoinRecovery(c) \/ SpawnRecovery(c)

Next ==
    \/ DmDies \/ DmStarts \/ OnRemoteDied \/ DeInitDeviceId \/ UnInitDeviceManager \/ Recover
    \/ \E c \in Callers : RefreshDeviceIdAsync(c) \/ Proceed(c)

Spec == Init /\ [][Next]_vars
(* Threads run and a mutex that is free is given in the end to each that   *)
(* waits; the device manager, the subscriptions and the stop are free.     *)
FairSpec ==
    /\ Spec /\ WF_vars(Recover) /\ WF_vars(OnRemoteDied) /\ WF_vars(UnInitDeviceManager)
    /\ \A c \in Callers : WF_vars(Proceed(c)) /\ SF_vars(LockRecovery(c))

-----------------------------------------------------------------------------
(* Properties *)

Starting == {c \in Callers : pc[c] \in {"lock", "spawn"} \/ (pc[c] = "join" /\ c # "stop")}
InLoop == recovery \notin {"none", "ended"}

(* The in-flight mark keeps everybody else from recovering, so it is on    *)
(* only while somebody recovers: a thread in its loop, or a caller on the  *)
(* way to start one; and never are there two of them.                      *)
OneRecovery ==
    /\ inFlight <=> (InLoop \/ Starting # {})
    /\ \A c \in Starting : ~InLoop /\ Starting = {c}

(* The stop joins the thread while it holds the mutex that starting one    *)
(* needs: it comes to an end, whatever the device manager does.            *)
StopEnds == (pc["stop"] = "stopping") ~> (pc["stop"] = "stopped")

(* When the device manager is there for good, a thread that has begun an   *)
(* attempt succeeds, though the manager has died and forgotten the         *)
(* registration while it ran; only the stop of the service ends it before. *)
RecoveryConverges ==
    <>[]dmUp => ((recovery = "init" /\ ~valid) ~> (valid \/ pc["stop"] # "idle"))

=============================================================================

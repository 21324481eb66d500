---------------------------- MODULE DeviceIdProofs ----------------------------
(***************************************************************************)
(* That the in-flight mark, the mutex and the join together admit one      *)
(* recovery of the device id at a time, for any number of subscribers and  *)
(* any number of deaths of the device manager (DeviceIdRecovery).          *)
(***************************************************************************)
EXTENDS DeviceIdRecovery, TLAPS

CallerPlaces == {"idle", "start", "mark", "lock", "join", "spawn", "invalidate",
                 "invalidateMark", "invalidateId", "stopping", "deregister", "stopped"}
ThreadPlaces == {"none", "test", "init", "register", "fetch", "store", "setValid",
                 "look", "leave", "ended"}

(* What the proof needs to know of the types: the places of the callers    *)
(* and of the thread, and the two flags they decide by.                    *)
Typed ==
    /\ inFlight \in BOOLEAN /\ valid \in BOOLEAN
    /\ holder \in Callers \union {NoOne}
    /\ pc \in [Callers -> CallerPlaces]
    /\ recovery \in ThreadPlaces

(* The stop never starts a recovery, and only the stop stops; a subscriber *)
(* never invalidates the id.                                               *)
OwnPlaces ==
    /\ pc["stop"] \notin {"start", "mark", "lock", "spawn"}
    /\ \A c \in Callers : c # "stop" => pc[c] \notin {"stopping", "deregister", "stopped"}
    /\ \A c \in Subscribers : pc[c] \notin {"invalidate", "invalidateMark", "invalidateId"}

(* deviceIdRecoveryMutex_ is held exactly from the test of the old thread  *)
(* to the start of the new one.                                            *)
MutexHeld == \A c \in Callers : holder = c <=> pc[c] \in {"join", "spawn"}

IInv == Typed /\ OwnPlaces /\ MutexHeld /\ OneRecovery

-----------------------------------------------------------------------------
(* The two names that are not subscribers are callers, and none of the     *)
(* callers is the mark of a free mutex.                                    *)
LEMMA TheCallers ==
    /\ "dm" \in Callers /\ "stop" \in Callers /\ NoOne \notin Callers
    /\ Subscribers \subseteq Callers
    /\ \A c \in Callers : c \in Subscribers \/ c = "dm" \/ c = "stop"
    /\ "dm" \notin Subscribers /\ "stop" \notin Subscribers
  BY SubscriberAssumption DEF Callers, NoOne

(* The service starts with nobody recovering and the mutex free.           *)
LEMMA InitIInv == Init => IInv
<1> SUFFICES ASSUME Init PROVE IInv
  OBVIOUS
<1>1. Typed
  BY DEF Init, Typed, CallerPlaces, ThreadPlaces
<1>2. OwnPlaces /\ MutexHeld
  BY TheCallers DEF Init, OwnPlaces, MutexHeld
<1>3. OneRecovery
  BY DEF Init, OneRecovery, InLoop, Starting
<1> QED
  BY <1>1, <1>2, <1>3 DEF IInv

(* A step of the recovery thread.  It moves no caller and leaves the mutex *)
(* alone; it takes back the mark in the step in which it leaves its loop.  *)
LEMMA RecoverIInv ==
    ASSUME IInv, Recover
    PROVE  IInv'
<1> USE DEF IInv
<1>1. pc' = pc /\ holder' = holder /\ Starting' = Starting
  BY DEF Recover, LoopTest, InitOnce, InitDeviceManager, GetLocalDeviceInfo, StoreDeviceId,
         SetValid, LookValid, ClearInFlight, flags, Starting
<1>2. Typed'
  BY <1>1 DEF Typed, ThreadPlaces, Recover, LoopTest, InitOnce, InitDeviceManager,
              GetLocalDeviceInfo, StoreDeviceId, SetValid, LookValid, ClearInFlight, flags,
              cache, Turn
<1>3. OwnPlaces' /\ MutexHeld'
  BY <1>1 DEF OwnPlaces, MutexHeld
<1>4. OneRecovery'
  <2>1. InLoop
    BY DEF Recover, LoopTest, InitOnce, InitDeviceManager, GetLocalDeviceInfo, StoreDeviceId,
           SetValid, LookValid, ClearInFlight, InLoop
  <2>2. inFlight /\ Starting = {}
    BY <2>1, SMT DEF OneRecovery
  <2>3. CASE ClearInFlight
    BY <2>2, <2>3, <1>1 DEF ClearInFlight, Turn, OneRecovery, InLoop
  <2>4. CASE ~ClearInFlight
    <3>1. inFlight' = inFlight /\ InLoop'
      BY <2>4 DEF Recover, LoopTest, InitOnce, InitDeviceManager, GetLocalDeviceInfo,
                  StoreDeviceId, SetValid, LookValid, flags, InLoop, Turn
    <3> QED
      BY <3>1, <2>2, <1>1 DEF OneRecovery
  <2> QED
    BY <2>3, <2>4
<1> QED
  BY <1>2, <1>3, <1>4

(* A caller that is in none of the places that matter to the mutex and to  *)
(* the mark, and goes to none, disturbs nothing, whatever else it stores.  *)
LEMMA QuietMove ==
    ASSUME IInv, NEW c \in Callers, NEW l \in CallerPlaces,
           pc[c] \notin {"lock", "join", "spawn"}, l \notin {"lock", "join", "spawn"},
           Goto(c, l), UNCHANGED <<inFlight, holder, recovery>>, valid' \in BOOLEAN
    PROVE  /\ Typed' /\ MutexHeld' /\ OneRecovery'
           /\ pc'[c] = l /\ \A d \in Callers : d # c => pc'[d] = pc[d]
<1> USE DEF IInv
<1>1. /\ pc' \in [Callers -> CallerPlaces] /\ pc'[c] = l
      /\ \A d \in Callers : d # c => pc'[d] = pc[d]
  BY DEF Typed, Goto
<1>2. Typed'
  BY <1>1 DEF Typed
<1>3. MutexHeld'
  BY <1>1 DEF MutexHeld
<1>4. Starting' = Starting
  BY <1>1 DEF Starting
<1>5. OneRecovery'
  BY <1>4 DEF OneRecovery, InLoop
<1> QED
  BY <1>1, <1>2, <1>3, <1>5

(* The caller that finds the mark off sets it: nobody recovered, and now   *)
(* it is the only one that does.                                           *)
LEMMA MarkIInv ==
    ASSUME IInv, NEW c \in Callers, MarkInFlight(c)
    PROVE  IInv'
<1> USE DEF IInv
<1>1. pc[c] = "mark" /\ c # "stop"
  BY DEF MarkInFlight, OwnPlaces
<1>2. CASE inFlight
  <2>1. Goto(c, "idle") /\ UNCHANGED <<inFlight, holder, recovery, valid>>
    BY <1>2 DEF MarkInFlight, cache, Typed
  <2>2. /\ Typed' /\ MutexHeld' /\ OneRecovery'
        /\ pc'[c] = "idle" /\ \A d \in Callers : d # c => pc'[d] = pc[d]
    BY <2>1, <1>1, QuietMove DEF CallerPlaces, Typed
  <2>3. OwnPlaces'
    BY <2>2, TheCallers DEF OwnPlaces
  <2> QED
    BY <2>2, <2>3
<1>3. CASE ~inFlight
  <2>1. /\ pc' \in [Callers -> CallerPlaces] /\ pc'[c] = "lock"
        /\ \A d \in Callers : d # c => pc'[d] = pc[d]
        /\ inFlight' = TRUE /\ UNCHANGED <<holder, recovery, valid>>
    BY <1>3 DEF MarkInFlight, cache, Typed, Goto, CallerPlaces
  <2>2. Typed' /\ MutexHeld'
    BY <2>1, <1>1 DEF Typed, MutexHeld
  <2>3. OwnPlaces'
    BY <2>1, <1>1, TheCallers DEF OwnPlaces
  <2>4. ~InLoop /\ Starting = {}
    BY <1>3 DEF OneRecovery
  <2>5. Starting' = {c}
    BY <2>1, <2>4, <1>1 DEF Starting
  <2>6. OneRecovery'
    BY <2>1, <2>4, <2>5 DEF OneRecovery, InLoop
  <2> QED
    BY <2>2, <2>3, <2>6
<1> QED
  BY <1>2, <1>3

(* Taking the mutex, by a starter or by the stop.                          *)
LEMMA LockIInv ==
    ASSUME IInv, NEW c \in Callers, LockRecovery(c)
    PROVE  IInv'
<1> USE DEF IInv
<1>1. /\ pc' \in [Callers -> CallerPlaces] /\ pc'[c] = "join"
      /\ \A d \in Callers : d # c => pc'[d] = pc[d]
      /\ holder = NoOne /\ holder' = c /\ UNCHANGED <<inFlight, recovery, valid>>
  BY DEF LockRecovery, cache, Typed, Goto, CallerPlaces
<1>2. Typed'
  BY <1>1 DEF Typed
<1>3. OwnPlaces'
  BY <1>1, TheCallers DEF OwnPlaces
<1>4. MutexHeld'
  BY <1>1, TheCallers DEF MutexHeld
<1>5. pc[c] = "lock" => c # "stop"
  BY TheCallers DEF OwnPlaces
<1>6. pc[c] = "stopping" => c = "stop"
  BY DEF OwnPlaces
<1>7. pc[c] \in {"lock", "stopping"}
  BY DEF LockRecovery
<1>8. Starting' = Starting
  BY <1>1, <1>5, <1>6, <1>7 DEF Starting
<1>9. OneRecovery'
  BY <1>1, <1>8 DEF OneRecovery, InLoop
<1> QED
  BY <1>2, <1>3, <1>4, <1>9

(* The join of the thread that was there: it has left its loop.            *)
LEMMA JoinIInv ==
    ASSUME IInv, NEW c \in Callers, JoinRecovery(c)
    PROVE  IInv'
<1> USE DEF IInv
<1>1. /\ pc[c] = "join" /\ holder = c
      /\ pc' \in [Callers -> CallerPlaces]
      /\ pc'[c] = IF c = "stop" THEN "invalidate" ELSE "spawn"
      /\ \A d \in Callers : d # c => pc'[d] = pc[d]
      /\ holder' = IF c = "stop" THEN NoOne ELSE c
      /\ UNCHANGED <<inFlight, valid>> /\ ~InLoop /\ ~InLoop' /\ recovery' = "none"
  BY DEF JoinRecovery, cache, Typed, Goto, Turn, CallerPlaces, MutexHeld, InLoop
<1>2. Typed'
  BY <1>1 DEF Typed, ThreadPlaces
<1>3. OwnPlaces'
  BY <1>1, TheCallers DEF OwnPlaces
<1>4. MutexHeld'
  BY <1>1, TheCallers DEF MutexHeld
<1>5. Starting' = Starting
  BY <1>1 DEF Starting
<1>6. OneRecovery'
  BY <1>1, <1>5 DEF OneRecovery
<1> QED
  BY <1>2, <1>3, <1>4, <1>6

(* The start of the thread: the starter hands the mark over to it.         *)
LEMMA SpawnIInv ==
    ASSUME IInv, NEW c \in Callers, SpawnRecovery(c)
    PROVE  IInv'
<1> USE DEF IInv
<1>1. /\ pc[c] = "spawn" /\ holder = c /\ holder' = NoOne
      /\ pc' \in [Callers -> CallerPlaces] /\ pc'[c] = "idle"
      /\ \A d \in Callers : d # c => pc'[d] = pc[d]
      /\ UNCHANGED <<inFlight, valid>> /\ recovery' = "test" /\ InLoop'
  BY DEF SpawnRecovery, cache, Typed, Goto, Turn, CallerPlaces, MutexHeld, InLoop
<1>2. Typed'
  BY <1>1 DEF Typed, ThreadPlaces
<1>3. OwnPlaces'
  BY <1>1, TheCallers DEF OwnPlaces
<1>4. MutexHeld'
  BY <1>1, TheCallers DEF MutexHeld
<1>5. c \in Starting
  BY <1>1 DEF Starting
<1>6. inFlight /\ Starting = {c}
  BY <1>5 DEF OneRecovery
<1>7. Starting' = {}
  BY <1>1, <1>6 DEF Starting
<1>8. OneRecovery'
  BY <1>1, <1>6, <1>7 DEF OneRecovery
<1> QED
  BY <1>2, <1>3, <1>4, <1>8

(* The moves that touch neither the mutex nor the mark: the beginning of a *)
(* subscription, of a death callback and of the stop, the three stores of  *)
(* InvalidateDeviceId, the test of the validity, the last step of a stop.  *)
LEMMA QuietIInv ==
    ASSUME IInv, NEW c \in Callers,
           \/ RefreshDeviceIdAsync(c) \/ InvalidateInit(c) \/ InvalidateMark(c)
           \/ InvalidateId(c) \/ TestValid(c)
           \/ c = "dm" /\ OnRemoteDied
           \/ c = "stop" /\ (DeInitDeviceId \/ UnInitDeviceManager)
    PROVE  IInv'
<1> USE DEF IInv
<1>1. \E l \in CallerPlaces :
        /\ Goto(c, l) /\ pc[c] \notin {"lock", "join", "spawn"}
        /\ UNCHANGED <<inFlight, holder, recovery>> /\ valid' \in BOOLEAN
        /\ l \in {"start", "mark"} => c # "stop"
        /\ l \in {"stopping", "deregister", "stopped"} => c = "stop"
        /\ l \in {"invalidate", "invalidateMark", "invalidateId"} => c \notin Subscribers
        /\ l \notin {"lock", "join", "spawn"}
  <2>1. CASE RefreshDeviceIdAsync(c)
    <3> DEFINE l == "start"
    <3>1. /\ l \in CallerPlaces /\ Goto(c, l) /\ pc[c] \notin {"lock", "join", "spawn"}
          /\ UNCHANGED <<inFlight, holder, recovery>> /\ valid' \in BOOLEAN
      BY <2>1 DEF RefreshDeviceIdAsync, CallerPlaces, Typed, cache, flags
    <3>2. /\ l \in {"start", "mark"} => c # "stop"
          /\ l \in {"stopping", "deregister", "stopped"} => c = "stop"
          /\ l \in {"invalidate", "invalidateMark", "invalidateId"} => c \notin Subscribers
          /\ l \notin {"lock", "join", "spawn"}
      BY <2>1, TheCallers DEF RefreshDeviceIdAsync, OwnPlaces
    <3> QED
      BY <3>1, <3>2
  <2>2. CASE InvalidateInit(c)
    <3> DEFINE l == "invalidateMark"
    <3>1. /\ l \in CallerPlaces /\ Goto(c, l) /\ pc[c] \notin {"lock", "join", "spawn"}
          /\ UNCHANGED <<inFlight, holder, recovery>> /\ valid' \in BOOLEAN
      BY <2>2 DEF InvalidateInit, CallerPlaces, Typed, cache, flags
    <3>2. /\ l \in {"start", "mark"} => c # "stop"
          /\ l \in {"stopping", "deregister", "stopped"} => c = "stop"
          /\ l \in {"invalidate", "invalidateMark", "invalidateId"} => c \notin Subscribers
          /\ l \notin {"lock", "join", "spawn"}
      BY <2>2, TheCallers DEF InvalidateInit, OwnPlaces
    <3> QED
      BY <3>1, <3>2
  <2>3. CASE InvalidateMark(c)
    <3> DEFINE l == "invalidateId"
    <3>1. /\ l \in CallerPlaces /\ Goto(c, l) /\ pc[c] \notin {"lock", "join", "spawn"}
          /\ UNCHANGED <<inFlight, holder, recovery>> /\ valid' \in BOOLEAN
      BY <2>3 DEF InvalidateMark, CallerPlaces, Typed, cache, flags
    <3>2. /\ l \in {"start", "mark"} => c # "stop"
          /\ l \in {"stopping", "deregister", "stopped"} => c = "stop"
          /\ l \in {"invalidate", "invalidateMark", "invalidateId"} => c \notin Subscribers
          /\ l \notin {"lock", "join", "spawn"}
      BY <2>3, TheCallers DEF InvalidateMark, OwnPlaces
    <3> QED
      BY <3>1, <3>2
  <2>4. CASE InvalidateId(c)
    <3> DEFINE l == IF c = "dm" THEN "start" ELSE "deregister"
    <3>1. /\ l \in CallerPlaces /\ Goto(c, l) /\ pc[c] \notin {"lock", "join", "spawn"}
          /\ UNCHANGED <<inFlight, holder, recovery>> /\ valid' \in BOOLEAN
      BY <2>4 DEF InvalidateId, CallerPlaces, Typed, cache, flags
    <3>2. /\ l \in {"start", "mark"} => c # "stop"
          /\ l \in {"stopping", "deregister", "stopped"} => c = "stop"
          /\ l \in {"invalidate", "invalidateMark", "invalidateId"} => c \notin Subscribers
          /\ l \notin {"lock", "join", "spawn"}
      BY <2>4, TheCallers DEF InvalidateId, OwnPlaces
    <3> QED
      BY <3>1, <3>2
  <2>5. CASE TestValid(c)
    <3> DEFINE l == IF valid THEN "idle" ELSE "mark"
    <3>1. /\ l \in CallerPlaces /\ Goto(c, l) /\ pc[c] \notin {"lock", "join", "spawn"}
          /\ UNCHANGED <<inFlight, holder, recovery>> /\ valid' \in BOOLEAN
      BY <2>5 DEF TestValid, CallerPlaces, Typed, cache, flags
    <3>2. /\ l \in {"start", "mark"} => c # "stop"
          /\ l \in {"stopping", "deregister", "stopped"} => c = "stop"
          /\ l \in {"invalidate", "invalidateMark", "invalidateId"} => c \notin Subscribers
          /\ l \notin {"lock", "join", "spawn"}
      BY <2>5, TheCallers DEF TestValid, OwnPlaces
    <3> QED
      BY <3>1, <3>2
  <2>6. CASE c = "dm" /\ OnRemoteDied
    <3> DEFINE l == "invalidate"
    <3>1. /\ l \in CallerPlaces /\ Goto(c, l) /\ pc[c] \notin {"lock", "join", "spawn"}
          /\ UNCHANGED <<inFlight, holder, recovery>> /\ valid' \in BOOLEAN
      BY <2>6 DEF OnRemoteDied, CallerPlaces, Typed, cache, flags
    <3>2. /\ l \in {"start", "mark"} => c # "stop"
          /\ l \in {"stopping", "deregister", "stopped"} => c = "stop"
          /\ l \in {"invalidate", "invalidateMark", "invalidateId"} => c \notin Subscribers
          /\ l \notin {"lock", "join", "spawn"}
      BY <2>6, TheCallers DEF OnRemoteDied, OwnPlaces
    <3> QED
      BY <3>1, <3>2
  <2>7. CASE c = "stop" /\ DeInitDeviceId
    <3> DEFINE l == "stopping"
    <3>1. /\ l \in CallerPlaces /\ Goto(c, l) /\ pc[c] \notin {"lock", "join", "spawn"}
          /\ UNCHANGED <<inFlight, holder, recovery>> /\ valid' \in BOOLEAN
      BY <2>7 DEF DeInitDeviceId, CallerPlaces, Typed, cache, flags
    <3>2. /\ l \in {"start", "mark"} => c # "stop"
          /\ l \in {"stopping", "deregister", "stopped"} => c = "stop"
          /\ l \in {"invalidate", "invalidateMark", "invalidateId"} => c \notin Subscribers
          /\ l \notin {"lock", "join", "spawn"}
      BY <2>7, TheCallers DEF DeInitDeviceId, OwnPlaces
    <3> QED
      BY <3>1, <3>2
  <2>8. CASE c = "stop" /\ UnInitDeviceManager
    <3> DEFINE l == "stopped"
    <3>1. /\ l \in CallerPlaces /\ Goto(c, l) /\ pc[c] \notin {"lock", "join", "spawn"}
          /\ UNCHANGED <<inFlight, holder, recovery>> /\ valid' \in BOOLEAN
      BY <2>8 DEF UnInitDeviceManager, CallerPlaces, Typed, cache, flags
    <3>2. /\ l \in {"start", "mark"} => c # "stop"
          /\ l \in {"stopping", "deregister", "stopped"} => c = "stop"
          /\ l \in {"invalidate", "invalidateMark", "invalidateId"} => c \notin Subscribers
          /\ l \notin {"lock", "join", "spawn"}
      BY <2>8, TheCallers DEF UnInitDeviceManager, OwnPlaces
    <3> QED
      BY <3>1, <3>2
  <2> QED
    BY <2>1, <2>2, <2>3, <2>4, <2>5, <2>6, <2>7, <2>8
<1>2. PICK l \in CallerPlaces :
        /\ Goto(c, l) /\ pc[c] \notin {"lock", "join", "spawn"}
        /\ UNCHANGED <<inFlight, holder, recovery>> /\ valid' \in BOOLEAN
        /\ l \in {"start", "mark"} => c # "stop"
        /\ l \in {"stopping", "deregister", "stopped"} => c = "stop"
        /\ l \in {"invalidate", "invalidateMark", "invalidateId"} => c \notin Subscribers
        /\ l \notin {"lock", "join", "spawn"}
  BY <1>1
<1>3. /\ Typed' /\ MutexHeld' /\ OneRecovery'
      /\ pc'[c] = l /\ \A d \in Callers : d # c => pc'[d] = pc[d]
  BY <1>2, QuietMove
<1>4. OwnPlaces'
  BY <1>2, <1>3, TheCallers DEF OwnPlaces
<1> QED
  BY <1>3, <1>4

-----------------------------------------------------------------------------
(* The in-flight mark is on exactly while a thread recovers the device id  *)
(* or a caller is on the way to start one, and never do two of them: for   *)
(* any number of subscribers, of deaths and of subscriptions.              *)
THEOREM SingleRecovery == Spec => []OneRecovery
<1>1. Init => IInv
  BY InitIInv
<1>2. IInv /\ [Next]_vars => IInv'
  <2> SUFFICES ASSUME IInv, [Next]_vars PROVE IInv'
    OBVIOUS
  <2>1. CASE DmDies \/ DmStarts \/ UNCHANGED vars
    BY <2>1 DEF DmDies, DmStarts, vars, cache, flags, IInv, Typed, OwnPlaces, MutexHeld,
                OneRecovery, InLoop, Starting
  <2>2. CASE OnRemoteDied \/ DeInitDeviceId \/ UnInitDeviceManager
    BY <2>2, QuietIInv, TheCallers
  <2>3. CASE Recover
    BY <2>3, RecoverIInv
  <2>4. CASE \E c \in Callers : RefreshDeviceIdAsync(c) \/ Proceed(c)
    BY <2>4, QuietIInv, MarkIInv, LockIInv, JoinIInv, SpawnIInv DEF Proceed
  <2> QED
    BY <2>1, <2>2, <2>3, <2>4 DEF Next
<1>3. IInv => OneRecovery
  BY DEF IInv
<1> QED
  BY <1>1, <1>2, <1>3, PTL DEF Spec

=============================================================================

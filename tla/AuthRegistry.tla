----------------------------- MODULE AuthRegistry -----------------------------
(***************************************************************************)
(* The two tables of the event-authorization service and the notices it    *)
(* sends about them: AuthCoordinator's providerSessions_ and               *)
(* AuthEventSubscribeManager's sessions_, each under a mutex of its own,   *)
(* filled by IPC calls, emptied by calls and by notices of death, and      *)
(* reported to the providers by NotifyClientStatusChanged.                 *)
(*                                                                         *)
(* A provider or client here is one session object, made by one call of a  *)
(* Create operation; its identity is never used again.  An action is one   *)
(* critical section, or what a call does between two of them.  MarkInvalid *)
(* always goes with the removal from the table, so IsValid is membership.  *)
(***************************************************************************)
EXTENDS Naturals, FiniteSets

CONSTANTS
    Providers,              \* provider session objects
    Clients,                \* client session objects
    Events,                 \* event ids configured with a serviceId
    Service,                \* each provider's serviceId
    ServiceOf,              \* the serviceId in each event's configuration
    ProcessOf,              \* the process of each provider and client
    MaxProviders,           \* MAX_AUTH_PROVIDER_SIZE
    MaxProviderOneProcess,  \* MAX_AUTH_PROVIDER_SIZE_ONE_PROCESS
    MaxClients,             \* MAX_AUTH_EVENT_CLIENT_SIZE
    MaxClientOneProcess,    \* MAX_AUTH_EVENT_CLIENT_SIZE_ONE_PROCESS
    MaxSubscribe,           \* MAX_AUTH_EVENT_SUBSCRIBE_SIZE
    Notifiers               \* the threads that may run NotifyClientStatusChanged

Processes == {ProcessOf[x] : x \in Providers \cup Clients}

Services == {Service[p] : p \in Providers} \cup {ServiceOf[e] : e \in Events}

ASSUME RegistryAssumption ==
    /\ Providers \cap Clients = {}
    /\ ProcessOf \in [Providers \cup Clients -> Processes]
    /\ Service \in [Providers -> Services]
    /\ ServiceOf \in [Events -> Services]
    /\ {MaxProviders, MaxProviderOneProcess, MaxClients, MaxClientOneProcess,
        MaxSubscribe} \subseteq Nat

VARIABLES
    providerSessions,   \* providerSessions_
    sessions,           \* sessions_
    eventIds,           \* eventIds_ of each client session
    stage,              \* each session object: "none", not created; "watch", in the
                        \* table and its death not watched yet; "live", in use
    dead,               \* processes that have died
    notice,             \* whether a run of NotifyClientStatusChanged is due that
                        \* has not begun; several that are due see the same tables
    notifier,           \* the notice each thread is sending
    heard               \* history: the providers that have been sent the clients of
                        \* their service as they are now

tableVars == <<providerSessions, sessions, eventIds, stage, dead>>
noticeVars == <<notice, notifier, heard>>
registryVars == <<tableVars, noticeVars>>

Idle == [to |-> {}, collected |-> {}, list |-> {}]

RegistryInit ==
    /\ providerSessions = {}
    /\ sessions = {}
    /\ eventIds = [c \in Clients |-> {}]
    /\ stage = [x \in Providers \cup Clients |-> "none"]
    /\ dead = {}
    /\ notice = FALSE
    /\ notifier = [n \in Notifiers |-> Idle]
    /\ heard = {}

Alive(x) == ProcessOf[x] \notin dead

(* The owner of a live session object calls it: GetCallingPid() = pid_. *)
Calls(x) == stage[x] = "live" /\ Alive(x)

SameProcess(table, x) == {y \in table : ProcessOf[y] = ProcessOf[x]}

(* The clients and their subscriptions to events of a provider's service.  *)
CollectClientInfos(p) ==
    {info \in sessions \X Events :
        info[2] \in eventIds[info[1]] /\ ServiceOf[info[2]] = Service[p]}

(* What was sent before is out of date where the step changes the list.    *)
Outdates ==
    heard' = {p \in heard : CollectClientInfos(p)' = CollectClientInfos(p)}

-----------------------------------------------------------------------------
(* CreateAuthProvider: quota and insertion under mutex_, then the death     *)
(* recipient outside it, with a rollback.  (A callback object is used by    *)
(* one session object of the model, so its check for a repeated callback    *)
(* never applies.)                                                          *)

CheckProviderQuotaLocked(p) ==
    /\ Cardinality(providerSessions) < MaxProviders
    /\ Cardinality(SameProcess(providerSessions, p)) < MaxProviderOneProcess

CreateAuthProvider(p) ==
    /\ stage[p] = "none" /\ Alive(p)
    /\ CheckProviderQuotaLocked(p)
    /\ providerSessions' = providerSessions \cup {p}
    /\ stage' = [stage EXCEPT ![p] = "watch"]
    /\ UNCHANGED <<sessions, eventIds, dead, noticeVars>>

(* AddDeathRecipient fails for an object whose process is dead. *)
WatchProvider(p) ==
    /\ stage[p] = "watch"
    /\ stage' = [stage EXCEPT ![p] = "live"]
    /\ IF Alive(p)
       THEN notice' = TRUE /\ UNCHANGED providerSessions
       ELSE providerSessions' = providerSessions \ {p} /\ UNCHANGED notice
    /\ UNCHANGED <<sessions, eventIds, dead, notifier, heard>>

DestroyAuthProvider(p) ==
    /\ Calls(p) /\ p \in providerSessions
    /\ providerSessions' = providerSessions \ {p}
    /\ notice' = TRUE
    /\ UNCHANGED <<sessions, eventIds, stage, dead, notifier, heard>>

(* AuthProviderSessionDeathRecipient::OnRemoteDied *)
RemoveProvider(p) ==
    /\ stage[p] = "live" /\ ~Alive(p) /\ p \in providerSessions
    /\ providerSessions' = providerSessions \ {p}
    /\ notice' = TRUE
    /\ UNCHANGED <<sessions, eventIds, stage, dead, notifier, heard>>

-----------------------------------------------------------------------------
(* CreatAuthEventClient, the same way. *)

CheckQuotaLocked(c) ==
    /\ Cardinality(sessions) < MaxClients
    /\ Cardinality(SameProcess(sessions, c)) < MaxClientOneProcess

CreatAuthEventClient(c) ==
    /\ stage[c] = "none" /\ Alive(c)
    /\ CheckQuotaLocked(c)
    /\ sessions' = sessions \cup {c}
    /\ stage' = [stage EXCEPT ![c] = "watch"]
    /\ UNCHANGED <<providerSessions, eventIds, dead, noticeVars>>

WatchClient(c) ==
    /\ stage[c] = "watch"
    /\ stage' = [stage EXCEPT ![c] = "live"]
    /\ sessions' = IF Alive(c) THEN sessions ELSE sessions \ {c}
    /\ UNCHANGED <<providerSessions, eventIds, dead, noticeVars>>

(* Mistake: the providers are not told. *)
UnsubscribeAuthEvent_Silent(c, e) ==
    /\ Calls(c) /\ c \in sessions /\ e \in eventIds[c]
    /\ eventIds' = [eventIds EXCEPT ![c] = @ \ {e}]
    /\ UNCHANGED <<providerSessions, sessions, stage, dead, notice, notifier>>
    /\ Outdates

SubscribeAuthEvent(c, e) ==
    /\ Calls(c) /\ c \in sessions
    /\ Cardinality(eventIds[c]) < MaxSubscribe
    /\ eventIds' = [eventIds EXCEPT ![c] = @ \cup {e}]
    /\ notice' = TRUE
    /\ UNCHANGED <<providerSessions, sessions, stage, dead, notifier>>
    /\ Outdates

UnsubscribeAuthEvent(c, e) ==
    /\ Calls(c) /\ c \in sessions
    /\ eventIds' = [eventIds EXCEPT ![c] = @ \ {e}]
    /\ notice' = TRUE
    /\ UNCHANGED <<providerSessions, sessions, stage, dead, notifier>>
    /\ Outdates

(* Destroy answers SUCCESS, and tells the providers, a second time as well. *)
DestroyAuthEventClient(c) ==
    /\ Calls(c)
    /\ sessions' = sessions \ {c}
    /\ notice' = TRUE
    /\ UNCHANGED <<providerSessions, eventIds, stage, dead, notifier>>
    /\ Outdates

(* Mistake: the session of a dead client stays. *)
RemoveSession_Keeps(c) ==
    /\ stage[c] = "live" /\ ~Alive(c) /\ c \in sessions
    /\ notice' = TRUE
    /\ UNCHANGED <<providerSessions, sessions, eventIds, stage, dead, notifier, heard>>

(* AuthEventSessionDeathRecipient::OnRemoteDied *)
RemoveSession(c) ==
    /\ stage[c] = "live" /\ ~Alive(c) /\ c \in sessions
    /\ sessions' = sessions \ {c}
    /\ notice' = TRUE
    /\ UNCHANGED <<providerSessions, eventIds, stage, dead, notifier>>
    /\ Outdates

Die(x) ==
    /\ Alive(x)
    /\ dead' = dead \cup {ProcessOf[x]}
    /\ UNCHANGED <<providerSessions, sessions, eventIds, stage, noticeVars>>

-----------------------------------------------------------------------------
(* NotifyClientStatusChanged: the providers are listed under mutex_; then,  *)
(* for one after the other, the clients' subscriptions to events of its     *)
(* service are collected and sent.                                          *)

NotifyClientStatusChanged(n) ==
    /\ notice /\ notifier[n] = Idle
    /\ notice' = FALSE
    /\ notifier' = [notifier EXCEPT ![n].to = providerSessions]
    /\ UNCHANGED <<tableVars, heard>>

Collect(n, p) ==
    /\ p \in notifier[n].to /\ notifier[n].collected = {}
    /\ notifier' = [notifier EXCEPT ![n].to = @ \ {p},
                                    ![n].collected = {p},
                                    ![n].list = CollectClientInfos(p)]
    /\ UNCHANGED <<tableVars, notice, heard>>

(* OnClientStatusChanged reaches the provider while its process lives, the  *)
(* list being then what it was when it was collected.                       *)
Send(n, p) ==
    /\ p \in notifier[n].collected
    /\ heard' = IF Alive(p) /\ notifier[n].list = CollectClientInfos(p)
                THEN heard \cup {p}
                ELSE heard
    /\ notifier' = [notifier EXCEPT ![n].collected = {}, ![n].list = {}]
    /\ UNCHANGED <<tableVars, notice>>

-----------------------------------------------------------------------------
(* What the service does of itself, and what its users do. *)
ProviderStep(p) == WatchProvider(p) \/ RemoveProvider(p)

ClientStep(c) == WatchClient(c) \/ RemoveSession(c)

NotifierStep(n) ==
    NotifyClientStatusChanged(n) \/ \E p \in Providers : Collect(n, p) \/ Send(n, p)

RegistryCall ==
    \/ \E p \in Providers : CreateAuthProvider(p) \/ DestroyAuthProvider(p)
    \/ \E c \in Clients : \/ CreatAuthEventClient(c) \/ DestroyAuthEventClient(c)
                          \/ \E e \in Events : SubscribeAuthEvent(c, e) \/ UnsubscribeAuthEvent(c, e)
    \/ \E x \in Providers \cup Clients : Die(x)

RegistryNext ==
    \/ \E p \in Providers : ProviderStep(p)
    \/ \E c \in Clients : ClientStep(c)
    \/ \E n \in Notifiers : NotifierStep(n)
    \/ RegistryCall
=============================================================================

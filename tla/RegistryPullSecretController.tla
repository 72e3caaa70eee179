-------------------- MODULE RegistryPullSecretController --------------------
(* The RegistryPullSecret reconciler (internal/controller/
   registrypullsecret_controller.go) with the cluster it runs in: the API
   server's objects, the manager's informer caches, the workqueue with its
   rate-limited retries, users who edit every object, failing API calls and
   restarts of the operator.  One worker runs (MaxConcurrentReconciles is 1).

   Operators called "Slip: ..." are not part of the system: each is a version of
   the definition after it with a plausible bug, kept to show that a property
   notices the bug. *)
EXTENDS Validation, WatchStream, FiniteSets

CONSTANTS
    Specs,              \* the specs users give RegistryPullSecrets
    PolicySettings,     \* the excludedNamespaces lists users give the policy "cluster"
    UserWrites,         \* the Secrets users write: set of [key, object]
    UserDeletes,        \* the keys of Secrets users delete
    ShortLived,         \* the namespaces users create and delete
    ValidLabelValues,   \* the strings the API server takes as a label value
    InitialRegistries, InitialPolicy, InitialNamespaces, InitialSecrets,
    Budget,             \* bound: how often each kind of disturbance happens, and
                        \* how many disturbances there are in all
    MaxPending,         \* bound: undelivered events of one kind
    ReadLag             \* bound: undelivered events the worker may read past;
                        \* 0 is a cache that is up to date at every read

Disturbances ==
    {"spec", "policy", "createNamespace", "terminate", "secret", "fault", "list", "restart",
     "total"}

RegistryPullSecret == [spec : Specs, generation : Nat \ {0}]

(* What a reconcile reads *)
Inputs == [object : RegistryPullSecret, source : Secret \cup {NoObject},
           excluded : Seq(Namespaces), inventory : SUBSET Namespaces]

(* What a RegistryPullSecret calls for: its spec, carried out with the contents of
   the credentials Secret it refers to *)
Duties == [object : RegistryPullSecret, source : Secret \cup {NoObject}]

NamespacePhases == {"absent", "active", "terminating"}

ASSUME ControllerAssumption ==
    /\ IsFiniteSet(Keys)
    /\ NoObject \notin RegistryPullSecret \cup Secret \cup Inputs \cup Duties
    /\ NoCredentials \notin Credentials
    /\ NoRef \notin Keys
    /\ NoName \notin SecretNames
    /\ \A server \in Servers : DefaultTargetSecretName(server) \in SecretNames \cup {NoName}
    /\ \A spec \in Specs :
         /\ spec.credentials \in Credentials \cup {NoCredentials}
         /\ spec.credentialsSecretRef \in Keys \cup {NoRef}
         /\ spec.namespaces \in NamespaceSelection
    /\ PolicySettings \subseteq Seq(Namespaces)
    /\ NoObject \notin PolicySettings
    /\ InitialPolicy \in PolicySettings \cup {NoObject}
    /\ \A write \in UserWrites : write.key \in Keys /\ write.object \in Secret
    /\ UserDeletes \subseteq Keys
    /\ ShortLived \subseteq Namespaces
    /\ InitialRegistries \in [Registries -> RegistryPullSecret \cup {NoObject}]
    /\ InitialNamespaces \in [Namespaces -> NamespacePhases]
    /\ InitialSecrets \in [Keys -> Secret \cup {NoObject}]
    /\ Budget \in [Disturbances -> Nat]

VARIABLES
    \* the API server
    registryPullSecrets,    \* per name: spec and generation, or NoObject
    status,                 \* per name: the status subresource
    policy,                 \* excludedNamespaces of "cluster", or NoObject
    namespaces,             \* per name: its phase
    secrets,                \* per key: labels, type and data, or NoObject
    \* the manager's caches and the events on their way to them
    cachedRegistries, registryEvents,
    cachedSecrets, secretEvents,
    cachedPolicy, cachedNamespaces,
    \* the controller
    queue,                  \* names due for a reconcile
    backoff,                \* names waiting for a rate-limited retry
    worker,                 \* the reconcile in progress
    \* bookkeeping of the model
    synced,                 \* per name: what its last successful reconcile had read
    missed,                 \* names whose source change a failing List swallowed
    budget                  \* disturbances left

apiVars == <<registryPullSecrets, status, policy, namespaces, secrets>>
cacheVars == <<cachedRegistries, registryEvents, cachedSecrets, secretEvents,
               cachedPolicy, cachedNamespaces>>
queueVars == <<queue, backoff>>
vars == <<apiVars, cacheVars, queueVars, worker, synced, missed, budget>>

-----------------------------------------------------------------------------
Reasons == {"None", "Synced", "SyncFailed", "ValidationFailed"}

Status == [observedGeneration : Nat, desired : Nat, applied : Nat, deleted : Nat,
           reason : Reasons]

(* lastSyncTime is kept out: see UpdateStatus *)
NoStatus == [observedGeneration |-> 0, desired |-> 0, applied |-> 0, deleted |-> 0,
             reason |-> "None"]

Idle == [step |-> "idle"]

Job == [step        : {"plan", "sync", "status"},
        registry    : Registries,
        object      : RegistryPullSecret,       \* as read from the cache
        fresh       : BOOLEAN,                  \* its resourceVersion is the current one
        source      : Secret \cup {NoObject},   \* the credentials Secret as read
        credentials : Credentials \cup {NoCredentials},
        excluded    : Seq(Namespaces),          \* the exclusions as read
        inventory   : SUBSET Namespaces,        \* the namespaces as listed
        foreign     : SUBSET Keys,              \* the Secrets as listed that are not its own
        toApply     : SUBSET Keys,
        toDelete    : SUBSET Keys,
        desired     : Nat,
        applied     : Nat,
        deleted     : Nat,
        result      : Reasons \ {"None"}]

Exists(r) == registryPullSecrets[r] # NoObject

Busy(r) == worker # Idle /\ worker.registry = r

(* Slip: a missing policy is not read as an empty one *)
ExcludedAsStored(setting) == setting

(* getPullSecretPolicy *)
ExcludedNamespaces(setting) == IF setting = NoObject THEN << >> ELSE setting

SourceIn(store, spec) ==
    IF spec.credentialsSecretRef = NoRef THEN NoObject ELSE store[spec.credentialsSecretRef]

Room(stream) == Len(stream) < MaxPending

CachesRecent ==
    /\ Len(registryEvents) <= ReadLag
    /\ Len(secretEvents) <= ReadLag
    /\ ReadLag = 0 => cachedPolicy = policy /\ cachedNamespaces = namespaces

Spend(kind) ==
    /\ budget[kind] > 0 /\ budget["total"] > 0
    /\ budget' = [budget EXCEPT ![kind] = @ - 1, !["total"] = @ - 1]

(* An accepted write that changes nothing produces no event *)
WriteSecret(key, object) ==
    /\ secrets' = [secrets EXCEPT ![key] = object]
    /\ secretEvents' = IF secrets[key] = object THEN secretEvents
                                                ELSE Emit(secretEvents, key, object)

(* The manager starts: caches filled, every existing object announced *)
Init ==
    /\ registryPullSecrets = InitialRegistries
    /\ status = [r \in Registries |-> NoStatus]
    /\ policy = InitialPolicy
    /\ namespaces = InitialNamespaces
    /\ secrets = InitialSecrets
    /\ cachedRegistries = registryPullSecrets /\ registryEvents = << >>
    /\ cachedSecrets = secrets /\ secretEvents = << >>
    /\ cachedPolicy = policy
    /\ cachedNamespaces = namespaces
    /\ queue = {r \in Registries : Exists(r)}
    /\ backoff = {}
    /\ worker = Idle
    /\ synced = [r \in Registries |-> NoObject]
    /\ missed = {}
    /\ budget = Budget

-----------------------------------------------------------------------------
(* Reconcile of a name taken from the workqueue: the object is gone *)
ForgetDeleted(r) ==
    /\ worker = Idle /\ r \in queue /\ CachesRecent
    /\ cachedRegistries[r] = NoObject
    /\ queue' = queue \ {r}
    /\ UNCHANGED <<apiVars, cacheVars, backoff, worker, synced, missed, budget>>

(* Reconcile reads the object, the policy and the credentials.  Credentials that
   do not resolve end it there, with an error that is no validation error. *)
StartReconcile(r) ==
    /\ worker = Idle /\ r \in queue /\ CachesRecent
    /\ cachedRegistries[r] # NoObject
    /\ LET object == cachedRegistries[r]
           source == SourceIn(cachedSecrets, object.spec)
           credentials == ResolveRegistryCredentials(object.spec, source)
           resolved == credentials # NoCredentials
       IN  worker' = [step        |-> IF resolved THEN "plan" ELSE "status",
                      registry    |-> r,
                      object      |-> object,
                      fresh       |-> ~Stale(registryEvents, r),
                      source      |-> source,
                      credentials |-> credentials,
                      excluded    |-> ExcludedNamespaces(cachedPolicy),
                      inventory   |-> {}, foreign |-> {}, toApply |-> {}, toDelete |-> {},
                      desired     |-> 0, applied |-> 0, deleted |-> 0,
                      result      |-> IF resolved THEN "Synced" ELSE "SyncFailed"]
    /\ queue' = queue \ {r}
    /\ missed' = missed \ {r}
    /\ UNCHANGED <<apiVars, cacheVars, backoff, synced, budget>>

(* Slip: a failing Get is taken for a missing object *)
GetFailsSilently(r) ==
    /\ worker = Idle /\ r \in queue
    /\ Spend("fault")
    /\ queue' = queue \ {r}
    /\ UNCHANGED <<apiVars, cacheVars, backoff, worker, synced, missed>>

(* The Get of the object itself fails: no status is written *)
GetFails(r) ==
    /\ worker = Idle /\ r \in queue
    /\ Spend("fault")
    /\ queue' = queue \ {r}
    /\ backoff' = backoff \cup {r}
    /\ UNCHANGED <<apiVars, cacheVars, worker, synced, missed>>

Failed == [worker EXCEPT !.step = "status", !.result = "SyncFailed"]

(* A Get or List after that fails *)
ReadFails ==
    /\ worker.step = "plan"
    /\ Spend("fault")
    /\ worker' = Failed
    /\ UNCHANGED <<apiVars, cacheVars, queueVars, synced, missed>>

(* Namespaces (whatever their phase) and Secrets are listed, DesiredSecrets and
   ObsoleteSecrets say what to write and what to delete. *)
Plan ==
    /\ worker.step = "plan" /\ CachesRecent
    /\ LET r == worker.registry
           spec == worker.object.spec
           result == DesiredSecretsResult(r, spec, worker.credentials, worker.excluded, cachedSecrets)
           inventory == {n \in Namespaces : cachedNamespaces[n] # "absent"}
           desired == EffectiveTargets(spec.namespaces, worker.credentials.server,
                                       worker.excluded, inventory)
           needed == {key \in desired :
                        SecretNeedsApply(cachedSecrets[key], BuildPullSecret(r, worker.credentials))}
       IN  worker' = IF result # "Synced"
                     THEN [worker EXCEPT !.step = "status", !.result = result]
                     ELSE [worker EXCEPT !.step = "sync",
                                         !.inventory = inventory,
                                         !.foreign = {key \in Keys :
                                             /\ cachedSecrets[key] # NoObject
                                             /\ ~OwnedBy(cachedSecrets[key], r)},
                                         !.toApply = needed,
                                         !.toDelete = ObsoleteSecrets(r, cachedSecrets, desired),
                                         !.desired = Cardinality(desired)]
    /\ UNCHANGED <<apiVars, cacheVars, queueVars, synced, missed, budget>>

(* Does the API server accept what applySecret sends?  With nothing in the cache
   that is a Create; otherwise an Update of the cached copy, whose
   resourceVersion has to be current and whose type cannot change. *)
Accepted(key, object) ==
    /\ object.labels.server \in ValidLabelValues
    /\ IF cachedSecrets[key] = NoObject
       THEN secrets[key] = NoObject /\ namespaces[key[1]] = "active"
       ELSE ~Stale(secretEvents, key) /\ cachedSecrets[key].type = object.type

(* One round of the apply loop, in the order the cache listed the namespaces,
   which is any order; the first error ends the reconcile. *)
ApplySecret(key) ==
    /\ worker.step = "sync" /\ key \in worker.toApply
    /\ CachesRecent /\ Room(secretEvents)
    /\ LET object == BuildPullSecret(worker.registry, worker.credentials)
       IN  \/ /\ Accepted(key, object)
              /\ WriteSecret(key, object)
              /\ worker' = [worker EXCEPT !.toApply = @ \ {key}, !.applied = @ + 1]
              /\ UNCHANGED budget
           \/ /\ ~Accepted(key, object)
              /\ worker' = Failed
              /\ UNCHANGED <<secrets, secretEvents, budget>>
           \/ /\ Spend("fault")         \* the call is lost, or only its answer
              /\ worker' = Failed
              /\ \/ UNCHANGED <<secrets, secretEvents>>
                 \/ Accepted(key, object) /\ WriteSecret(key, object)
    /\ UNCHANGED <<registryPullSecrets, status, policy, namespaces, cachedRegistries,
                   registryEvents, cachedSecrets, cachedPolicy, cachedNamespaces,
                   queueVars, synced, missed>>

(* Slip: the delete loop runs beside the apply loop *)
DeletionsAnyTime == worker.step = "sync"

DeletionsTurn == worker.step = "sync" /\ worker.toApply = {}

(* One round of the delete loop: unconditional, and a Secret already gone is fine *)
DeleteSecret(key) ==
    /\ DeletionsTurn /\ key \in worker.toDelete
    /\ Room(secretEvents)
    /\ \/ /\ WriteSecret(key, NoObject)
          /\ worker' = [worker EXCEPT !.toDelete = @ \ {key}, !.deleted = @ + 1]
          /\ UNCHANGED budget
       \/ /\ Spend("fault")
          /\ worker' = Failed
          /\ UNCHANGED <<secrets, secretEvents>> \/ WriteSecret(key, NoObject)
    /\ UNCHANGED <<registryPullSecrets, status, policy, namespaces, cachedRegistries,
                   registryEvents, cachedSecrets, cachedPolicy, cachedNamespaces,
                   queueVars, synced, missed>>

-----------------------------------------------------------------------------
Finished ==
    \/ worker.step = "status"
    \/ worker.step = "sync" /\ worker.toApply = {} /\ worker.toDelete = {}

(* Slip: only the error of the reconcile itself asks for a retry *)
ReturnIgnoringStatusError(statusFailed) ==
    /\ backoff' = IF worker.result # "Synced" THEN backoff \cup {worker.registry} ELSE backoff
    /\ synced' = IF worker.result # "Synced" THEN synced
                 ELSE [synced EXCEPT ![worker.registry] =
                        [object    |-> worker.object,   source    |-> worker.source,
                         excluded  |-> worker.excluded, inventory |-> worker.inventory]]
    /\ worker' = Idle

(* Slip: a reconcile that succeeds asks to be called again, too *)
ReturnRequeued(statusFailed) ==
    /\ backoff' = backoff \cup {worker.registry}
    /\ synced' = IF worker.result # "Synced" \/ statusFailed THEN synced
                 ELSE [synced EXCEPT ![worker.registry] =
                        [object    |-> worker.object,   source    |-> worker.source,
                         excluded  |-> worker.excluded, inventory |-> worker.inventory]]
    /\ worker' = Idle

(* Reconcile returns the joined errors; any error is retried after a backoff *)
Return(statusFailed) ==
    LET failed == worker.result # "Synced" \/ statusFailed
    IN  /\ backoff' = IF failed THEN backoff \cup {worker.registry} ELSE backoff
        /\ synced' = IF failed THEN synced
                     ELSE [synced EXCEPT ![worker.registry] =
                            [object    |-> worker.object,   source    |-> worker.source,
                             excluded  |-> worker.excluded, inventory |-> worker.inventory]]
        /\ worker' = Idle

(* Slip: the status is patched, without a resourceVersion *)
StatusUnconditional == Exists(worker.registry)

(* The status update carries the resourceVersion of the object as read *)
StatusAccepted == worker.fresh

(* The whole status is rewritten.  lastSyncTime has a resolution of a second: the
   update may or may not differ from the stored status by the time alone, and
   only a difference produces an event. *)
StoreStatus ==
    LET r == worker.registry
        written == [observedGeneration |-> worker.object.generation,
                    desired |-> worker.desired, applied |-> worker.applied,
                    deleted |-> worker.deleted, reason |-> worker.result]
    IN  /\ status' = [status EXCEPT ![r] = written]
        /\ \E sameSecond \in BOOLEAN :
             registryEvents' = IF sameSecond /\ status[r] = written THEN registryEvents
                               ELSE Emit(registryEvents, r, registryPullSecrets[r])

(* A status write that is stored and that nobody notices *)
QuietWrite == StatusAccepted /\ UNCHANGED <<registryEvents, budget>>

UpdateStatus ==
    /\ Finished /\ Room(registryEvents)
    /\ \/ StatusAccepted /\ StoreStatus /\ Return(FALSE) /\ UNCHANGED budget
       \/ ~StatusAccepted /\ Return(TRUE) /\ UNCHANGED <<status, registryEvents, budget>>
       \/ /\ Spend("fault")             \* the call is lost, or only its answer
          /\ Return(TRUE)
          /\ UNCHANGED <<status, registryEvents>> \/ (StatusAccepted /\ StoreStatus)
    /\ UNCHANGED <<registryPullSecrets, policy, namespaces, secrets, cachedRegistries,
                   cachedSecrets, secretEvents, cachedPolicy, cachedNamespaces, queue, missed>>

-----------------------------------------------------------------------------
(* A change of a RegistryPullSecret, its status included, enqueues its name *)
DeliverRegistryEvent ==
    /\ registryEvents # << >>
    /\ cachedRegistries' = Delivered(cachedRegistries, registryEvents)
    /\ queue' = queue \cup {Head(registryEvents).key}
    /\ registryEvents' = Tail(registryEvents)
    /\ UNCHANGED <<apiVars, cachedSecrets, secretEvents, cachedPolicy, cachedNamespaces,
                   backoff, worker, synced, missed, budget>>

(* Slip: the reference is compared by namespace and name in the wrong order *)
RegistryPullSecretsForSwapped(key) ==
    {r \in Registries :
        /\ cachedRegistries[r] # NoObject
        /\ cachedRegistries[r].spec.credentialsSecretRef = <<key[2], key[1]>>}

(* The RegistryPullSecrets in the cache that take their credentials from a Secret *)
RegistryPullSecretsForSecret(key) ==
    {r \in Registries :
        /\ cachedRegistries[r] # NoObject
        /\ cachedRegistries[r].spec.credentialsSecretRef = key}

DeliverSecretEvent ==
    /\ secretEvents # << >>
    /\ cachedSecrets' = Delivered(cachedSecrets, secretEvents)
    /\ secretEvents' = Tail(secretEvents)
    /\ LET concerned == RegistryPullSecretsForSecret(Head(secretEvents).key)
       IN  \/ queue' = queue \cup concerned /\ UNCHANGED <<missed, budget>>
           \/ /\ Spend("list")             \* the List fails: nothing is enqueued
              /\ missed' = missed \cup concerned
              /\ UNCHANGED queue
    /\ UNCHANGED <<apiVars, cachedRegistries, registryEvents, cachedPolicy, cachedNamespaces,
                   backoff, worker, synced>>

(* Policies and namespaces are cached but not watched by this controller; no step
   depends on the order of their changes, so the cache catches up at once. *)
RefreshPolicy ==
    /\ cachedPolicy # policy
    /\ cachedPolicy' = policy
    /\ UNCHANGED <<apiVars, cachedRegistries, registryEvents, cachedSecrets, secretEvents,
                   cachedNamespaces, queueVars, worker, synced, missed, budget>>

RefreshNamespaces ==
    /\ cachedNamespaces # namespaces
    /\ cachedNamespaces' = namespaces
    /\ UNCHANGED <<apiVars, cachedRegistries, registryEvents, cachedSecrets, secretEvents,
                   cachedPolicy, queueVars, worker, synced, missed, budget>>

BackoffExpires(r) ==
    /\ r \in backoff
    /\ backoff' = backoff \ {r}
    /\ queue' = queue \cup {r}
    /\ UNCHANGED <<apiVars, cacheVars, worker, synced, missed, budget>>

(* The process dies, wherever it is, and another starts: nothing survives but the
   API server, and every existing object is announced again. *)
Restart ==
    /\ Spend("restart")
    /\ cachedRegistries' = registryPullSecrets /\ registryEvents' = << >>
    /\ cachedSecrets' = secrets /\ secretEvents' = << >>
    /\ cachedPolicy' = policy
    /\ cachedNamespaces' = namespaces
    /\ queue' = {r \in Registries : Exists(r)}
    /\ backoff' = {}
    /\ worker' = Idle
    /\ missed' = {}
    /\ UNCHANGED <<apiVars, synced>>

-----------------------------------------------------------------------------
(* Users and the rest of the cluster.  Any write of a RegistryPullSecret makes
   the resourceVersion a running reconcile holds an old one. *)
StoreRegistry(r, object) ==
    /\ registryPullSecrets' = [registryPullSecrets EXCEPT ![r] = object]
    /\ registryEvents' = Emit(registryEvents, r, object)
    /\ worker' = IF Busy(r) THEN [worker EXCEPT !.fresh = FALSE] ELSE worker

CreateRegistry(r, spec) ==
    /\ ~Exists(r) /\ Room(registryEvents) /\ Spend("spec")
    /\ StoreRegistry(r, [spec |-> spec, generation |-> 1])
    /\ UNCHANGED <<status, policy, namespaces, secrets, cachedRegistries, cachedSecrets,
                   secretEvents, cachedPolicy, cachedNamespaces, queueVars, synced, missed>>

EditRegistry(r, spec) ==
    /\ Exists(r) /\ Room(registryEvents) /\ Spend("spec")
    /\ spec # registryPullSecrets[r].spec
    /\ StoreRegistry(r, [spec |-> spec, generation |-> registryPullSecrets[r].generation + 1])
    /\ UNCHANGED <<status, policy, namespaces, secrets, cachedRegistries, cachedSecrets,
                   secretEvents, cachedPolicy, cachedNamespaces, queueVars, synced, missed>>

(* There is no finalizer: the object goes at once, its status with it *)
DeleteRegistry(r) ==
    /\ Exists(r) /\ Room(registryEvents) /\ Spend("spec")
    /\ StoreRegistry(r, NoObject)
    /\ status' = [status EXCEPT ![r] = NoStatus]
    /\ synced' = [synced EXCEPT ![r] = NoObject]
    /\ UNCHANGED <<policy, namespaces, secrets, cachedRegistries, cachedSecrets,
                   secretEvents, cachedPolicy, cachedNamespaces, queueVars, missed>>

EditPolicy(setting) ==
    /\ setting # policy /\ Spend("policy")
    /\ policy' = setting
    /\ UNCHANGED <<registryPullSecrets, status, namespaces, secrets, cacheVars, queueVars,
                   worker, synced, missed>>

CreateNamespace(n) ==
    /\ n \in ShortLived /\ namespaces[n] = "absent" /\ Spend("createNamespace")
    /\ namespaces' = [namespaces EXCEPT ![n] = "active"]
    /\ UNCHANGED <<registryPullSecrets, status, policy, secrets, cacheVars, queueVars,
                   worker, synced, missed>>

TerminateNamespace(n) ==
    /\ n \in ShortLived /\ namespaces[n] = "active" /\ Spend("terminate")
    /\ namespaces' = [namespaces EXCEPT ![n] = "terminating"]
    /\ UNCHANGED <<registryPullSecrets, status, policy, secrets, cacheVars, queueVars,
                   worker, synced, missed>>

(* The namespace controller empties a terminating namespace, then removes it *)
PurgeSecret(key) ==
    /\ namespaces[key[1]] = "terminating" /\ secrets[key] # NoObject /\ Room(secretEvents)
    /\ WriteSecret(key, NoObject)
    /\ UNCHANGED <<registryPullSecrets, status, policy, namespaces, cachedRegistries,
                   registryEvents, cachedSecrets, cachedPolicy, cachedNamespaces, queueVars,
                   worker, synced, missed, budget>>

FinalizeNamespace(n) ==
    /\ namespaces[n] = "terminating"
    /\ \A key \in Keys : key[1] = n => secrets[key] = NoObject
    /\ namespaces' = [namespaces EXCEPT ![n] = "absent"]
    /\ UNCHANGED <<registryPullSecrets, status, policy, secrets, cacheVars, queueVars,
                   worker, synced, missed, budget>>

(* A Secret's type is fixed when it is created *)
PutSecret(key, object) ==
    /\ namespaces[key[1]] = "active" /\ secrets[key] # object /\ Room(secretEvents)
    /\ secrets[key] # NoObject => secrets[key].type = object.type
    /\ Spend("secret")
    /\ WriteSecret(key, object)
    /\ UNCHANGED <<registryPullSecrets, status, policy, namespaces, cachedRegistries,
                   registryEvents, cachedSecrets, cachedPolicy, cachedNamespaces, queueVars,
                   worker, synced, missed>>

RemoveSecret(key) ==
    /\ secrets[key] # NoObject /\ Room(secretEvents)
    /\ Spend("secret")
    /\ WriteSecret(key, NoObject)
    /\ UNCHANGED <<registryPullSecrets, status, policy, namespaces, cachedRegistries,
                   registryEvents, cachedSecrets, cachedPolicy, cachedNamespaces, queueVars,
                   worker, synced, missed>>

-----------------------------------------------------------------------------
Reconciler ==
    \/ \E r \in Registries : ForgetDeleted(r) \/ StartReconcile(r) \/ GetFails(r)
    \/ ReadFails \/ Plan \/ UpdateStatus
    \/ \E key \in Keys : ApplySecret(key) \/ DeleteSecret(key)

Manager ==
    \/ DeliverRegistryEvent \/ DeliverSecretEvent \/ RefreshPolicy \/ RefreshNamespaces
    \/ \E r \in Registries : BackoffExpires(r)
    \/ Restart

Users ==
    \/ \E r \in Registries, spec \in Specs : CreateRegistry(r, spec) \/ EditRegistry(r, spec)
    \/ \E r \in Registries : DeleteRegistry(r)
    \/ \E setting \in PolicySettings \cup {NoObject} : EditPolicy(setting)
    \/ \E n \in Namespaces : CreateNamespace(n) \/ TerminateNamespace(n) \/ FinalizeNamespace(n)
    \/ \E key \in Keys : PurgeSecret(key)
    \/ \E write \in UserWrites : PutSecret(write.key, write.object)
    \/ \E key \in UserDeletes : RemoveSecret(key)

Next == Reconciler \/ Manager \/ Users

Spec == Init /\ [][Next]_vars

(* The manager delivers events and expires backoffs, the worker runs, and the
   workqueue is first in first out, so no name waits forever for the worker.  The
   namespace controller finishes what it began.  A reconcile with nothing to write
   is far shorter than a second, so now and then a status is written within the
   second of the one before.  Users, failing calls and restarts owe nothing. *)
Fairness ==
    /\ WF_vars(DeliverRegistryEvent) /\ WF_vars(DeliverSecretEvent)
    /\ WF_vars(RefreshPolicy) /\ WF_vars(RefreshNamespaces)
    /\ WF_vars(Plan) /\ WF_vars(UpdateStatus)
    /\ WF_vars(\E key \in Keys : ApplySecret(key))
    /\ WF_vars(\E key \in Keys : DeleteSecret(key))
    /\ \A r \in Registries :
         /\ WF_vars(BackoffExpires(r))
         /\ SF_vars(StartReconcile(r)) /\ SF_vars(ForgetDeleted(r))
    /\ \A n \in Namespaces : WF_vars(FinalizeNamespace(n))
    /\ WF_vars(\E key \in Keys : PurgeSecret(key))
    /\ \A r \in Registries : SF_vars(Busy(r) /\ UpdateStatus /\ QuietWrite)

FairSpec == Spec /\ Fairness

-----------------------------------------------------------------------------
(* Types of the state. *)
TypeOK ==
    /\ registryPullSecrets \in [Registries -> RegistryPullSecret \cup {NoObject}]
    /\ status \in [Registries -> Status]
    /\ policy \in PolicySettings \cup {NoObject}
    /\ namespaces \in [Namespaces -> NamespacePhases]
    /\ secrets \in [Keys -> Secret \cup {NoObject}]
    /\ cachedRegistries \in [Registries -> RegistryPullSecret \cup {NoObject}]
    /\ registryEvents \in Seq(Event(Registries, RegistryPullSecret \cup {NoObject}))
    /\ cachedSecrets \in [Keys -> Secret \cup {NoObject}]
    /\ secretEvents \in Seq(Event(Keys, Secret \cup {NoObject}))
    /\ cachedPolicy \in PolicySettings \cup {NoObject}
    /\ cachedNamespaces \in [Namespaces -> NamespacePhases]
    /\ queue \subseteq Registries
    /\ backoff \subseteq Registries
    /\ worker \in Job \cup {Idle}
    /\ missed \subseteq Registries
    /\ synced \in [Registries -> Inputs \cup {NoObject}]
    /\ budget \in [Disturbances -> Nat]

(* Work on r is under way or will be: it is queued, waiting for a retry, in the
   worker, or a change of it is still to be delivered. *)
Triggered(r) ==
    \/ r \in queue \cup backoff
    \/ Busy(r)
    \/ Stale(registryEvents, r)

(* When the controller has nothing left to do for a RegistryPullSecret, its status
   reports the success of a reconcile of its current generation: no edit and no
   failure is forgotten, whatever raced with the reconcile (Reconcile lines
   88-91, updateRegistryPullSecretStatus). *)
SettledStatusIsCurrent ==
    \A r \in Registries : Exists(r) /\ ~Triggered(r) =>
        /\ status[r].observedGeneration = registryPullSecrets[r].generation
        /\ status[r].reason = "Synced"

(* What a reconcile reads of r is what r and its credentials Secret are now *)
Current(r, inputs) ==
    /\ inputs.object = registryPullSecrets[r]
    /\ inputs.source = SourceIn(secrets, inputs.object.spec)

(* The last change of a RegistryPullSecret or of the credentials Secret it refers
   to is never lost: the last successful reconcile read it, the one in the worker
   has read it, or a trigger for another is pending.  Only a failing List of the
   watch's map function (registryPullSecretsForSecret lines 198-200) loses one, for
   the names it would have returned and until their next reconcile reads. *)
NoLostTrigger ==
    \A r \in Registries : Exists(r) =>
        \/ r \in queue \cup backoff \cup missed
        \/ Stale(registryEvents, r)
        \/ Stale(secretEvents, registryPullSecrets[r].spec.credentialsSecretRef)
        \/ Busy(r) /\ Current(r, worker)
        \/ synced[r] # NoObject /\ Current(r, synced[r])

(* A status write never claims an old spec: it carries the generation the object
   has at that moment, although the reconcile worked from a cached copy. *)
StatusOfCurrentGeneration ==
    [][\A r \in Registries : status'[r] # status[r] /\ status'[r] # NoStatus =>
        status'[r].observedGeneration = registryPullSecrets[r].generation]_vars

(* The operator's own writes: only its steps change Secrets and the worker at once *)
OperatorWrites(key) == secrets'[key] # secrets[key] /\ worker' # worker

(* A Secret that was somebody else's when a reconcile listed the Secrets is never
   touched by it, whatever was edited, replaced or deleted meanwhile and however old
   the list was: what is exposed is only what came into a replica's place after the
   list (validateTargets lines 185-200).  Said of selections by name: an Exclusive
   one is not validated where it selects. *)
ListedForeignUntouched ==
    [][\A key \in Keys : OperatorWrites(key)
            /\ worker.object.spec.namespaces.policy = "Inclusive"
        => key \notin worker.foreign]_vars

(* The replicas r should have, from what its last successful reconcile had read:
   one in every namespace listed that is selected and not excluded. *)
ExpectedKeys(r) ==
    LET selection == synced[r].object.spec.namespaces
        listed == Elements(selection.namespaces)
        chosen == IF selection.policy = "Inclusive" THEN listed ELSE Namespaces \ listed
        eligible == (chosen \cap synced[r].inventory) \ Elements(synced[r].excluded)
        server == ResolveRegistryCredentials(synced[r].object.spec, synced[r].source).server
    IN  UNION {{n} \X TargetNames(selection, server, n) : n \in eligible}

ReplicaOf(r) ==
    BuildPullSecret(r, ResolveRegistryCredentials(synced[r].object.spec, synced[r].source))

(* Every expected replica is in place and right, but for namespaces that are being
   deleted or gone by now, and no other exists *)
Replicated(r) ==
    \A key \in Keys :
        IF key \in ExpectedKeys(r)
        THEN namespaces[key[1]] = "active" => secrets[key] = ReplicaOf(r)
        ELSE ~OwnedBy(secrets[key], r)

(* Two RegistryPullSecrets that both report the success of their current generation
   never claim the same Secret: the second one to reach it is refused. *)
NoSharedTarget ==
    \A r1, r2 \in Registries :
        /\ r1 # r2 /\ Exists(r1) /\ Exists(r2)
        /\ \A r \in {r1, r2} : status[r].reason = "Synced" /\ synced[r] # NoObject
                               /\ synced[r].object = registryPullSecrets[r]
        => ExpectedKeys(r1) \cap ExpectedKeys(r2) = {}

(* Once nothing is left to do for r, all desired Secrets are in place and nothing
   obsolete remains (docs/src/content/docs/reference/status-and-conditions.md
   line 31, docs/src/content/docs/concepts/how-it-works.md lines 28-29). *)
SettledIsReplicated ==
    \A r \in Registries : Exists(r) /\ ~Triggered(r)
        /\ ~Stale(secretEvents, registryPullSecrets[r].spec.credentialsSecretRef)
        => Replicated(r)

(* Make before break: a replica is deleted only when every replica the same
   reconcile wants is in place, so a rename never leaves a namespace without one
   (docs/src/content/docs/guides/namespace-overrides.md lines 86-89). *)
MakeBeforeBreak ==
    [][\A key \in Keys : OperatorWrites(key) /\ secrets'[key] = NoObject =>
        LET selection == worker.object.spec.namespaces
        IN  \A wanted \in EffectiveTargets(selection, worker.credentials.server,
                                           worker.excluded, worker.inventory) :
                namespaces[wanted[1]] = "active" =>
                    secrets[wanted] = BuildPullSecret(worker.registry, worker.credentials)]_vars

(* Every RegistryPullSecret is eventually reconciled for good, beside namespaces that
   are being deleted and refuse its replicas, after failing calls and restarts; but
   one whose source change was swallowed stays behind until something else happens *)
EventuallyReplicated ==
    \A r \in Registries :
        <>[](Exists(r) /\ r \notin missed =>
                synced[r] # NoObject /\ Current(r, synced[r]) /\ Replicated(r))

(* The controller comes to rest, although every status write announces the object
   it was made for and so asks for another reconcile (updateRegistryPullSecretStatus
   writes lastSyncTime each time, and the watch takes every change). *)
EventuallyQuiet ==
    <>[](/\ worker = Idle /\ queue = {} /\ backoff = {}
         /\ registryEvents = << >> /\ secretEvents = << >>)

-----------------------------------------------------------------------------
(* What is called for now, and what the last successful reconcile has carried out *)
Needed ==
    [r \in Registries |->
        IF Exists(r)
        THEN [object |-> registryPullSecrets[r], source |-> SourceIn(secrets, registryPullSecrets[r].spec)]
        ELSE NoObject]

Achieved ==
    [r \in Registries |->
        IF synced[r] = NoObject
        THEN NoObject
        ELSE [object |-> synced[r].object, source |-> synced[r].source]]

Outstanding ==
    {r \in Registries :
        \/ Triggered(r)
        \/ Exists(r) /\ Stale(secretEvents, registryPullSecrets[r].spec.credentialsSecretRef)}

Contract == INSTANCE LevelTriggered
            WITH Names <- Registries, Absent <- NoObject,
                 Inputs <- Duties,
                 needed <- Needed, done <- Achieved, pending <- Outstanding

(* With its caches, queue, retries, conflicts, failing calls and restarts the
   reconciler is level-triggered: a RegistryPullSecret leaves the controller's
   attention only when what it calls for at that moment has been done. *)
ImplementsLevelTriggered == Contract!Spec

-----------------------------------------------------------------------------
(* What the documentation promises and the code does not do *)

(* The operator creates, overwrites and deletes nothing but its own replicas of the
   RegistryPullSecret it works on (internal/sync/README.md line 46: target names
   may not collide with foreign or differently owned Secrets). *)
OwnershipRespected ==
    [][\A key \in Keys : OperatorWrites(key) =>
        secrets[key] = NoObject \/ OwnedBy(secrets[key], worker.registry)]_vars

(* api/pullsecrets/v1alpha1/pullsecretpolicy_types.go lines 16-17: existing replicated
   Secrets are left untouched when a namespace is added to the exclusions. *)
ExclusionDeletesNothing ==
    [][\A key \in Keys : OperatorWrites(key) /\ secrets'[key] = NoObject =>
        key[1] \notin Elements(worker.excluded)]_vars
=============================================================================

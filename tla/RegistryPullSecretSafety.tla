----------------------- MODULE RegistryPullSecretSafety -----------------------
(* Theorems about RegistryPullSecretController, for any number of resources,
   namespaces and Secrets, any specs and user writes, any budget of disturbances
   and any lag of the caches: the types, and what the triggers guarantee, that no edit
   and no failure is forgotten, whatever races with a reconcile. *)
EXTENDS RegistryPullSecretController, WatchStreamProofs, FiniteSetTheorems

-----------------------------------------------------------------------------
(* Credentials resolved from a spec and a Secret are well-typed or absent. *)
LEMMA ResolveType ==
    ASSUME NEW spec \in Specs, NEW source \in Secret \cup {NoObject}
    PROVE  ResolveRegistryCredentials(spec, source) \in Credentials \cup {NoCredentials}
<1>1. spec.credentials \in Credentials \cup {NoCredentials}
  BY ControllerAssumption
<1>2. ASSUME source # NoObject, source.data \in Credentials
      PROVE  CredentialsFromSecret(source) \in Credentials \cup {NoCredentials}
  <2> DEFINE trimmed == [field \in {"server", "username", "password", "auth"} |->
                            TrimSpace[source.data[field]]]
  <2>1. /\ source.data.server \in Servers /\ source.data.username \in Values
        /\ source.data.password \in Values /\ source.data.auth \in Values
        /\ source.data.server \in Values
    BY <1>2, CredentialsAssumption DEF Credentials
  <2>2. /\ TrimSpace[source.data.server] \in Servers
        /\ TrimSpace[source.data.username] \in Values
        /\ TrimSpace[source.data.password] \in Values
        /\ TrimSpace[source.data.auth] \in Values
    BY <2>1, CredentialsAssumption
  <2>3. trimmed = [server |-> TrimSpace[source.data.server],
                   username |-> TrimSpace[source.data.username],
                   password |-> TrimSpace[source.data.password],
                   auth |-> TrimSpace[source.data.auth]]
    OBVIOUS
  <2>4. trimmed \in Credentials
    BY <2>2, <2>3 DEF Credentials
  <2> QED BY <2>4, <1>2 DEF CredentialsFromSecret
<1>3. ASSUME source # NoObject
      PROVE  CredentialsFromSecret(source) \in Credentials \cup {NoCredentials}
  BY <1>2, <1>3 DEF CredentialsFromSecret
<1> QED
  BY <1>1, <1>3 DEF ResolveRegistryCredentials

(* A replica is a Secret. *)
LEMMA BuildType ==
    ASSUME NEW registry \in Registries, NEW credentials \in Credentials
    PROVE  BuildPullSecret(registry, credentials) \in Secret
<1>1. /\ credentials.server \in Servers /\ credentials.username \in Values
      /\ credentials.password \in Values /\ credentials.auth \in Values
  BY DEF Credentials
<1>2. /\ <<credentials.auth>> \in Seq(Values)
      /\ <<credentials.username, credentials.password>> \in Seq(Values)
  BY <1>1
<1>3. DockerConfigJSON(credentials) \in DockerConfigs
  BY <1>1, <1>2 DEF DockerConfigJSON, DockerConfigs
<1>4. [managedBy |-> ManagedByLabelValue, registry |-> registry, server |-> credentials.server]
        \in Labelling
  BY <1>1 DEF Labelling
<1> QED
  BY <1>3, <1>4 DEF BuildPullSecret, Secret

(* Where a default name can be derived, the targets are keys of Secrets. *)
LEMMA TargetsType ==
    ASSUME NEW selection \in NamespaceSelection, NEW server \in Servers, NEW excluded,
           NEW inventory \in SUBSET Namespaces, TargetsDerivable(server)
    PROVE  EffectiveTargets(selection, server, excluded, inventory) \subseteq Keys
<1> SUFFICES ASSUME NEW n \in Namespaces
             PROVE  TargetNames(selection, server, n) \subseteq SecretNames
  BY DEF EffectiveTargets, Keys
<1> DEFINE overrides == selection.namespaceOverrides
<1>1. overrides \in Seq([namespace : Namespaces, secretName : SecretNames])
  BY DEF NamespaceSelection
<1>2. DefaultTargetSecretName(server) \in SecretNames
  BY ControllerAssumption DEF TargetsDerivable
<1>3. selection.targetSecretName \in SecretNames \cup {""}
  BY DEF NamespaceSelection
<1>4. ASSUME NEW i \in DOMAIN overrides PROVE overrides[i].secretName \in SecretNames
  <2>1. overrides[i] \in [namespace : Namespaces, secretName : SecretNames]
    BY <1>1, ElementType
  <2> QED BY <2>1
<1> QED BY <1>2, <1>3, <1>4 DEF TargetNames

(* The result of planning is a reason, and only a plan with targets succeeds. *)
LEMMA ResultType ==
    ASSUME NEW registry, NEW spec, NEW credentials, NEW excluded, NEW existing
    PROVE  LET result == DesiredSecretsResult(registry, spec, credentials, excluded, existing)
           IN  /\ result \in Reasons \ {"None"}
               /\ result = "Synced" => TargetsDerivable(credentials.server)
BY DEF DesiredSecretsResult, ValidateRegistryPullSecret, Reasons

-----------------------------------------------------------------------------
(* Credentials that did not resolve end a reconcile: they are never planned with. *)
CredentialsResolved ==
    worker \in Job /\ worker.step # "status" => worker.credentials \in Credentials

TypeInv == TypeOK /\ CredentialsResolved

(* What is left of the budget stays a natural number. *)
LEMMA SpendType ==
    ASSUME NEW kind, kind # "total", Spend(kind), budget \in [Disturbances -> Nat]
    PROVE  budget' \in [Disturbances -> Nat]
<1>1. "total" \in Disturbances /\ budget["total"] - 1 \in Nat
  BY DEF Spend, Disturbances
<1>2. kind \in Disturbances => budget[kind] - 1 \in Nat
  BY DEF Spend
<1>3. budget' = [x \in Disturbances |-> IF x = "total" THEN budget["total"] - 1
                                       ELSE IF x = kind THEN budget[kind] - 1 ELSE budget[x]]
  BY DEF Spend
<1> QED BY <1>1, <1>2, <1>3

(* The process starts well-typed. *)
LEMMA TypeInit == Init => TypeInv
<1> SUFFICES ASSUME Init PROVE TypeInv
  OBVIOUS
<1> USE ControllerAssumption
<1>1. /\ registryEvents \in Seq(Event(Registries, RegistryPullSecret \cup {NoObject}))
      /\ secretEvents \in Seq(Event(Keys, Secret \cup {NoObject}))
  BY EmptySeq DEF Init
<1>2. status \in [Registries -> Status]
  BY DEF Init, NoStatus, Status, Reasons
<1>3. worker = Idle /\ worker \notin Job
  BY DEF Init, Idle, Job
<1> QED
  BY <1>1, <1>2, <1>3 DEF Init, TypeInv, TypeOK, CredentialsResolved

(* The steps of users and of the cluster keep the types. *)
LEMMA TypeUsers == TypeInv /\ Users => TypeInv'
<1> SUFFICES ASSUME TypeInv, Users PROVE TypeInv'
  OBVIOUS
<1> USE ControllerAssumption
<1>k. \A kind : kind # "total" /\ Spend(kind) => budget' \in [Disturbances -> Nat]
  BY SpendType DEF TypeInv, TypeOK
<1>r. ASSUME NEW r \in Registries, NEW object \in RegistryPullSecret \cup {NoObject},
             StoreRegistry(r, object)
      PROVE  /\ registryPullSecrets' \in [Registries -> RegistryPullSecret \cup {NoObject}]
             /\ registryEvents' \in Seq(Event(Registries, RegistryPullSecret \cup {NoObject}))
             /\ worker' \in Job \cup {Idle}
             /\ CredentialsResolved'
  <2>1. registryEvents' \in Seq(Event(Registries, RegistryPullSecret \cup {NoObject}))
    BY <1>r, EmitType DEF StoreRegistry, TypeInv, TypeOK
  <2>2. CASE worker = Idle
    BY <2>1, <2>2, <1>r DEF StoreRegistry, Busy, TypeInv, TypeOK, CredentialsResolved
  <2>3. CASE worker \in Job
    BY <2>1, <2>3, <1>r DEF StoreRegistry, TypeInv, TypeOK, CredentialsResolved, Job
  <2> QED BY <2>2, <2>3 DEF TypeInv, TypeOK
<1>s. ASSUME NEW key \in Keys, NEW object \in Secret \cup {NoObject}, WriteSecret(key, object)
      PROVE  /\ secrets' \in [Keys -> Secret \cup {NoObject}]
             /\ secretEvents' \in Seq(Event(Keys, Secret \cup {NoObject}))
  BY <1>s, EmitType DEF WriteSecret, TypeInv, TypeOK
<1>1. ASSUME NEW r \in Registries, NEW spec \in Specs, CreateRegistry(r, spec)
      PROVE  TypeInv'
  <2>1. [spec |-> spec, generation |-> 1] \in RegistryPullSecret
    BY DEF RegistryPullSecret
  <2> QED BY <1>1, <2>1, <1>r, <1>k DEF CreateRegistry, TypeInv, TypeOK, queueVars
<1>2. ASSUME NEW r \in Registries, NEW spec \in Specs, EditRegistry(r, spec)
      PROVE  TypeInv'
  <2>1. [spec |-> spec, generation |-> registryPullSecrets[r].generation + 1] \in RegistryPullSecret
    BY <1>2 DEF EditRegistry, Exists, RegistryPullSecret, TypeInv, TypeOK
  <2> QED BY <1>2, <2>1, <1>r, <1>k DEF EditRegistry, TypeInv, TypeOK, queueVars
<1>3. ASSUME NEW r \in Registries, DeleteRegistry(r)
      PROVE  TypeInv'
  <2>1. NoStatus \in Status
    BY DEF NoStatus, Status, Reasons
  <2> QED BY <1>3, <2>1, <1>r, <1>k DEF DeleteRegistry, TypeInv, TypeOK, queueVars
<1>4. ASSUME NEW setting \in PolicySettings \cup {NoObject}, EditPolicy(setting)
      PROVE  TypeInv'
  BY <1>4, <1>k DEF EditPolicy, TypeInv, TypeOK, CredentialsResolved, cacheVars, queueVars
<1>5. ASSUME NEW n \in Namespaces,
             CreateNamespace(n) \/ TerminateNamespace(n) \/ FinalizeNamespace(n)
      PROVE  TypeInv'
  BY <1>5, <1>k DEF CreateNamespace, TerminateNamespace, FinalizeNamespace, NamespacePhases,
                    TypeInv, TypeOK, CredentialsResolved, cacheVars, queueVars
<1>6. ASSUME NEW key \in Keys, PurgeSecret(key)
      PROVE  TypeInv'
  BY <1>6, <1>s DEF PurgeSecret, TypeInv, TypeOK, CredentialsResolved, queueVars
<1>7. ASSUME NEW write \in UserWrites, PutSecret(write.key, write.object)
      PROVE  TypeInv'
  <2>1. write.key \in Keys /\ write.object \in Secret
    BY ControllerAssumption
  <2> QED BY <1>7, <2>1, <1>s, <1>k DEF PutSecret, TypeInv, TypeOK, CredentialsResolved, queueVars
<1>8. ASSUME NEW key \in UserDeletes, RemoveSecret(key)
      PROVE  TypeInv'
  <2>1. key \in Keys
    BY ControllerAssumption
  <2> QED BY <1>8, <2>1, <1>s, <1>k
             DEF RemoveSecret, TypeInv, TypeOK, CredentialsResolved, queueVars
<1> QED
  BY <1>1, <1>2, <1>3, <1>4, <1>5, <1>6, <1>7, <1>8 DEF Users

(* The steps of the manager keep the types. *)
LEMMA TypeManager == TypeInv /\ Manager => TypeInv'
<1> SUFFICES ASSUME TypeInv, Manager PROVE TypeInv'
  OBVIOUS
<1>k. \A kind : kind # "total" /\ Spend(kind) => budget' \in [Disturbances -> Nat]
  BY SpendType DEF TypeInv, TypeOK
<1>1. ASSUME DeliverRegistryEvent PROVE TypeInv'
  <2>1. /\ Head(registryEvents) \in Event(Registries, RegistryPullSecret \cup {NoObject})
        /\ cachedRegistries' \in [Registries -> RegistryPullSecret \cup {NoObject}]
        /\ registryEvents' \in Seq(Event(Registries, RegistryPullSecret \cup {NoObject}))
    BY <1>1, DeliverType DEF DeliverRegistryEvent, TypeInv, TypeOK
  <2>2. Head(registryEvents).key \in Registries
    BY <2>1 DEF Event
  <2> QED BY <1>1, <2>1, <2>2
             DEF DeliverRegistryEvent, TypeInv, TypeOK, CredentialsResolved, apiVars
<1>2. ASSUME DeliverSecretEvent PROVE TypeInv'
  <2>1. /\ cachedSecrets' \in [Keys -> Secret \cup {NoObject}]
        /\ secretEvents' \in Seq(Event(Keys, Secret \cup {NoObject}))
    BY <1>2, DeliverType DEF DeliverSecretEvent, TypeInv, TypeOK
  <2>2. /\ queue' \subseteq Registries /\ missed' \subseteq Registries
        /\ budget' \in [Disturbances -> Nat]
    BY <1>2, <1>k DEF DeliverSecretEvent, RegistryPullSecretsForSecret, TypeInv, TypeOK
  <2> QED BY <1>2, <2>1, <2>2 DEF DeliverSecretEvent, TypeInv, TypeOK, CredentialsResolved, apiVars
<1>3. ASSUME RefreshPolicy \/ RefreshNamespaces PROVE TypeInv'
  BY <1>3
     DEF RefreshPolicy, RefreshNamespaces, TypeInv, TypeOK, CredentialsResolved, apiVars, queueVars
<1>4. ASSUME NEW r \in Registries, BackoffExpires(r) PROVE TypeInv'
  BY <1>4 DEF BackoffExpires, TypeInv, TypeOK, CredentialsResolved, apiVars, cacheVars
<1>5. ASSUME Restart PROVE TypeInv'
  <2>1. Idle \notin Job
    BY DEF Idle, Job
  <2>2. /\ registryEvents' \in Seq(Event(Registries, RegistryPullSecret \cup {NoObject}))
        /\ secretEvents' \in Seq(Event(Keys, Secret \cup {NoObject}))
    BY <1>5, EmptySeq DEF Restart
  <2> QED BY <1>5, <1>k, <2>1, <2>2 DEF Restart, TypeInv, TypeOK, CredentialsResolved, apiVars
<1> QED
  BY <1>1, <1>2, <1>3, <1>4, <1>5 DEF Manager

(* The steps of the reconciler keep the types. *)
LEMMA TypeReconciler == TypeInv /\ Reconciler => TypeInv'
<1> SUFFICES ASSUME TypeInv, Reconciler PROVE TypeInv'
  OBVIOUS
<1> USE ControllerAssumption
<1>k. \A kind : kind # "total" /\ Spend(kind) => budget' \in [Disturbances -> Nat]
  BY SpendType DEF TypeInv, TypeOK
<1>s. \A key \in Keys, object \in Secret \cup {NoObject} : WriteSecret(key, object) =>
        /\ secrets' \in [Keys -> Secret \cup {NoObject}]
        /\ secretEvents' \in Seq(Event(Keys, Secret \cup {NoObject}))
  BY EmitType DEF WriteSecret, TypeInv, TypeOK
<1>w. worker \in Job \/ worker = Idle
  BY DEF TypeInv, TypeOK
<1>1. ASSUME NEW r \in Registries, ForgetDeleted(r) \/ GetFails(r) PROVE TypeInv'
  BY <1>1, <1>k
     DEF ForgetDeleted, GetFails, TypeInv, TypeOK, CredentialsResolved, apiVars, cacheVars
<1>2. ASSUME NEW r \in Registries, StartReconcile(r) PROVE TypeInv'
  <2> DEFINE object == cachedRegistries[r]
             source == SourceIn(cachedSecrets, object.spec)
             credentials == ResolveRegistryCredentials(object.spec, source)
  <2>1. object \in RegistryPullSecret /\ object.spec \in Specs
    BY <1>2 DEF StartReconcile, RegistryPullSecret, TypeInv, TypeOK
  <2>2. source \in Secret \cup {NoObject}
    BY <2>1 DEF SourceIn, TypeInv, TypeOK
  <2>3. credentials \in Credentials \cup {NoCredentials}
    BY <2>1, <2>2, ResolveType
  <2>4. ExcludedNamespaces(cachedPolicy) \in Seq(Namespaces)
    BY EmptySeq DEF ExcludedNamespaces, TypeInv, TypeOK
  <2>5. worker' \in Job /\ CredentialsResolved'
    BY <1>2, <2>1, <2>2, <2>3, <2>4 DEF StartReconcile, Job, Reasons, CredentialsResolved
  <2> QED BY <1>2, <2>5 DEF StartReconcile, TypeInv, TypeOK, apiVars, cacheVars
<1>3. ASSUME worker \in Job PROVE Failed \in Job /\ Failed.step = "status"
  BY <1>3 DEF Failed, Job, Reasons
<1>4. ASSUME ReadFails PROVE TypeInv'
  <2>1. worker \in Job
    BY <1>4, <1>w DEF ReadFails, Idle
  <2> QED BY <1>4, <2>1, <1>3, <1>k DEF ReadFails, TypeInv, TypeOK, CredentialsResolved,
                                         apiVars, cacheVars, queueVars
<1>5. ASSUME Plan PROVE TypeInv'
  <2>1. worker \in Job /\ worker.step = "plan" /\ worker.credentials \in Credentials
    BY <1>5, <1>w DEF Plan, Idle, TypeInv, CredentialsResolved
  <2> DEFINE r == worker.registry
             spec == worker.object.spec
             result == DesiredSecretsResult(r, spec, worker.credentials, worker.excluded, cachedSecrets)
             inventory == {n \in Namespaces : cachedNamespaces[n] # "absent"}
             desired == EffectiveTargets(spec.namespaces, worker.credentials.server,
                                         worker.excluded, inventory)
             needed == {key \in desired :
                         SecretNeedsApply(cachedSecrets[key], BuildPullSecret(r, worker.credentials))}
             obsolete == ObsoleteSecrets(r, cachedSecrets, desired)
             others == {key \in Keys : cachedSecrets[key] # NoObject /\ ~OwnedBy(cachedSecrets[key], r)}
             planned == [worker EXCEPT !.step = "sync", !.inventory = inventory,
                                       !.foreign = others, !.toApply = needed, !.toDelete = obsolete,
                                       !.desired = Cardinality(desired)]
             refused == [worker EXCEPT !.step = "status", !.result = result]
  <2>2. spec.namespaces \in NamespaceSelection /\ worker.credentials.server \in Servers
    BY <2>1 DEF Job, RegistryPullSecret, Credentials
  <2>3. result \in Reasons \ {"None"} /\ (result = "Synced" => TargetsDerivable(worker.credentials.server))
    BY ResultType
  <2>4. worker' = IF result # "Synced" THEN refused ELSE planned
    BY <1>5 DEF Plan
  <2>5. CASE result # "Synced"
    <3>1. refused \in Job /\ refused.step = "status"
      BY <2>1, <2>3 DEF Job
    <3> HIDE DEF refused
    <3> QED BY <1>5, <2>4, <2>5, <3>1 DEF Plan, TypeInv, TypeOK, CredentialsResolved,
                                           apiVars, cacheVars, queueVars
  <2>6. CASE result = "Synced"
    <3>1. inventory \in SUBSET Namespaces
      OBVIOUS
    <3>2. desired \subseteq Keys
      BY <2>2, <2>3, <2>6, <3>1, TargetsType
    <3>3. needed \subseteq Keys /\ obsolete \subseteq Keys /\ others \subseteq Keys
      BY <3>2 DEF ObsoleteSecrets
    <3>4. Cardinality(desired) \in Nat
      BY <3>2, FS_Subset, FS_CardinalityType
    <3>5. planned \in Job /\ planned.credentials \in Credentials
      <4> HIDE DEF inventory, desired, needed, obsolete, others
      <4> QED BY <2>1, <3>1, <3>3, <3>4 DEF Job
    <3> HIDE DEF planned
    <3> QED BY <1>5, <2>4, <2>6, <3>5 DEF Plan, TypeInv, TypeOK, CredentialsResolved,
                                           apiVars, cacheVars, queueVars
  <2> QED BY <2>5, <2>6
<1>6. ASSUME NEW key \in Keys, ApplySecret(key) PROVE TypeInv'
  <2>1. worker \in Job /\ worker.step = "sync" /\ worker.credentials \in Credentials
    BY <1>6, <1>w DEF ApplySecret, Idle, TypeInv, CredentialsResolved
  <2>2. BuildPullSecret(worker.registry, worker.credentials) \in Secret
    BY <2>1, BuildType DEF Job
  <2>3. worker' \in Job /\ CredentialsResolved'
    <3>0. worker.toApply \ {key} \in SUBSET Keys /\ worker.applied + 1 \in Nat
      BY <2>1 DEF Job
    <3>1. [worker EXCEPT !.toApply = @ \ {key}, !.applied = @ + 1] \in Job
      BY <2>1, <3>0 DEF Job
    <3>2. [worker EXCEPT !.toApply = @ \ {key}, !.applied = @ + 1].credentials \in Credentials
      BY <2>1 DEF Job
    <3> QED BY <1>6, <2>1, <1>3, <3>1, <3>2 DEF ApplySecret, CredentialsResolved
  <2>4. /\ secrets' \in [Keys -> Secret \cup {NoObject}]
        /\ secretEvents' \in Seq(Event(Keys, Secret \cup {NoObject}))
        /\ budget' \in [Disturbances -> Nat]
    BY <1>6, <2>2, <1>s, <1>k DEF ApplySecret, TypeInv, TypeOK
  <2> QED BY <1>6, <2>3, <2>4 DEF ApplySecret, TypeInv, TypeOK, queueVars
<1>7. ASSUME NEW key \in Keys, DeleteSecret(key) PROVE TypeInv'
  <2>1. worker \in Job /\ worker.step = "sync" /\ worker.credentials \in Credentials
    BY <1>7, <1>w DEF DeleteSecret, DeletionsTurn, Idle, TypeInv, CredentialsResolved
  <2>3. worker' \in Job /\ CredentialsResolved'
    <3>0. worker.toDelete \ {key} \in SUBSET Keys /\ worker.deleted + 1 \in Nat
      BY <2>1 DEF Job
    <3>1. [worker EXCEPT !.toDelete = @ \ {key}, !.deleted = @ + 1] \in Job
      BY <2>1, <3>0 DEF Job
    <3>2. [worker EXCEPT !.toDelete = @ \ {key}, !.deleted = @ + 1].credentials \in Credentials
      BY <2>1 DEF Job
    <3> QED BY <1>7, <2>1, <1>3, <3>1, <3>2 DEF DeleteSecret, CredentialsResolved
  <2>4. /\ secrets' \in [Keys -> Secret \cup {NoObject}]
        /\ secretEvents' \in Seq(Event(Keys, Secret \cup {NoObject}))
        /\ budget' \in [Disturbances -> Nat]
    BY <1>7, <1>s, <1>k DEF DeleteSecret, TypeInv, TypeOK
  <2> QED BY <1>7, <2>3, <2>4 DEF DeleteSecret, TypeInv, TypeOK, queueVars
<1>8. ASSUME UpdateStatus PROVE TypeInv'
  <2>1. worker \in Job
    BY <1>8, <1>w DEF UpdateStatus, Finished, Idle
  <2>2. ASSUME StoreStatus
        PROVE  /\ status' \in [Registries -> Status]
               /\ registryEvents' \in Seq(Event(Registries, RegistryPullSecret \cup {NoObject}))
    <3>1. [observedGeneration |-> worker.object.generation,
           desired |-> worker.desired, applied |-> worker.applied,
           deleted |-> worker.deleted, reason |-> worker.result] \in Status
      BY <2>1 DEF Job, RegistryPullSecret, Status, Reasons
    <3>2. worker.registry \in Registries
      BY <2>1 DEF Job
    <3>3. registryEvents' \in Seq(Event(Registries, RegistryPullSecret \cup {NoObject}))
      BY <2>2, <3>2, EmitType DEF StoreStatus, TypeInv, TypeOK
    <3> QED BY <2>2, <3>1, <3>2, <3>3 DEF StoreStatus, TypeInv, TypeOK
  <2>3. ASSUME NEW failed \in BOOLEAN, Return(failed)
        PROVE  /\ backoff' \subseteq Registries
               /\ synced' \in [Registries -> Inputs \cup {NoObject}]
               /\ worker' = Idle
    BY <2>1, <2>3 DEF Return, Job, Inputs, TypeInv, TypeOK
  <2>4. CredentialsResolved'
    <3>1. worker' = Idle
      BY <1>8, <2>3 DEF UpdateStatus
    <3>2. Idle \notin Job
      BY DEF Idle, Job
    <3> QED BY <3>1, <3>2 DEF CredentialsResolved
  <2> QED BY <1>8, <2>2, <2>3, <2>4, <1>k DEF UpdateStatus, TypeInv, TypeOK
<1> QED
  BY <1>1, <1>2, <1>4, <1>5, <1>6, <1>7, <1>8 DEF Reconciler

(* Types are kept by every step. *)
LEMMA TypeStep == TypeInv /\ [Next]_vars => TypeInv'
<1>1. TypeInv /\ UNCHANGED vars => TypeInv'
  BY DEF vars, apiVars, cacheVars, queueVars, TypeInv, TypeOK, CredentialsResolved
<1> QED BY <1>1, TypeUsers, TypeManager, TypeReconciler DEF Next

(* The state always has the types its components were given, and a reconcile past
   credential resolution always has credentials. *)
THEOREM TypeCorrect == Spec => []TypeInv
BY TypeInit, TypeStep, PTL DEF Spec

-----------------------------------------------------------------------------
(* The caches lag, they do not lie. *)
CachesCoherent ==
    /\ Coherent(registryPullSecrets, cachedRegistries, registryEvents)
    /\ Coherent(secrets, cachedSecrets, secretEvents)

(* A reconcile whose resourceVersion is current works on the current object. *)
FreshIsCurrent ==
    worker \in Job /\ worker.fresh => worker.object = registryPullSecrets[worker.registry]

(* Nothing has been reconciled for a name that has no object. *)
SyncedExists == \A r \in Registries : ~Exists(r) => synced[r] = NoObject

(* What announces that r has to be reconciled again. *)
Pending(r) ==
    \/ r \in queue \cup backoff
    \/ Stale(registryEvents, r)
    \/ Stale(secretEvents, registryPullSecrets[r].spec.credentialsSecretRef)

(* A reconcile that nothing is to follow works from the present inputs.  NoLostTrigger
   is not inductive without it: the end of a reconcile replaces what the last one read. *)
WorkerIsCurrent ==
    \A r \in Registries :
        Exists(r) /\ ~Pending(r) /\ r \notin missed /\ Busy(r) => Current(r, worker)

InputsAreCurrent ==
    \A r \in Registries : Exists(r) /\ ~Pending(r) /\ r \notin missed /\ ~Busy(r) =>
        synced[r] # NoObject /\ Current(r, synced[r])

(* What holds of a manager whoever else reconciles beside it *)
LocalInv ==
    /\ TypeInv
    /\ CachesCoherent
    /\ FreshIsCurrent
    /\ SyncedExists
    /\ WorkerIsCurrent

(* With one manager, what is settled was settled by it. *)
SafetyInv ==
    /\ LocalInv
    /\ SettledStatusIsCurrent
    /\ InputsAreCurrent

-----------------------------------------------------------------------------
(* A write of a Secret, by whoever, reaches the cache later as one event. *)
LEMMA WriteSecretKeeps ==
    ASSUME TypeInv, CachesCoherent,
           NEW key \in Keys, NEW object \in Secret \cup {NoObject}, WriteSecret(key, object)
    PROVE  /\ Coherent(secrets', cachedSecrets, secretEvents')
           /\ \A other : Stale(secretEvents, other) => Stale(secretEvents', other)
           /\ \A other \in Keys : secrets'[other] # secrets[other] => Stale(secretEvents', other)
<1> DEFINE Objects == Secret \cup {NoObject}
<1>1. /\ secretEvents \in Seq(Event(Keys, Objects))
      /\ secrets \in [Keys -> Objects] /\ cachedSecrets \in [Keys -> Objects]
  BY DEF TypeInv, TypeOK
<1>2. CASE secrets[key] = object
  <2>1. secrets' = secrets /\ secretEvents' = secretEvents
    BY <1>1, <1>2 DEF WriteSecret
  <2> QED BY <2>1 DEF CachesCoherent
<1>3. CASE secrets[key] # object
  <2>1. /\ secrets' = [secrets EXCEPT ![key] = object]
        /\ secretEvents' = Emit(secretEvents, key, object)
    BY <1>3 DEF WriteSecret
  <2>2. Coherent(secrets', cachedSecrets, secretEvents')
    BY <1>1, <2>1, EmitCoherent DEF CachesCoherent
  <2>3. \A other : Stale(secretEvents', other) <=> Stale(secretEvents, other) \/ other = key
    BY <1>1, <2>1, EmitStale
  <2> QED BY <1>1, <2>1, <2>2, <2>3
<1> QED BY <1>2, <1>3

(* So does a write of a RegistryPullSecret or of its status. *)
LEMMA EmitRegistryKeeps ==
    ASSUME TypeInv, CachesCoherent,
           NEW r \in Registries, NEW object \in RegistryPullSecret \cup {NoObject},
           registryPullSecrets' = [registryPullSecrets EXCEPT ![r] = object],
           registryEvents' = Emit(registryEvents, r, object)
    PROVE  /\ Coherent(registryPullSecrets', cachedRegistries, registryEvents')
           /\ \A other : Stale(registryEvents', other) <=> Stale(registryEvents, other) \/ other = r
<1> DEFINE Objects == RegistryPullSecret \cup {NoObject}
<1>1. /\ registryEvents \in Seq(Event(Registries, Objects))
      /\ registryPullSecrets \in [Registries -> Objects]
      /\ cachedRegistries \in [Registries -> Objects]
  BY DEF TypeInv, TypeOK
<1>2. Coherent(registryPullSecrets', cachedRegistries, registryEvents')
  BY <1>1, EmitCoherent DEF CachesCoherent
<1>3. \A other : Stale(registryEvents', other) <=> Stale(registryEvents, other) \/ other = r
  BY <1>1, EmitStale
<1> QED BY <1>2, <1>3

(* A status write changes the events of its object only. *)
LEMMA StoreStatusKeeps ==
    ASSUME TypeInv, CachesCoherent, worker \in Job, StoreStatus,
           UNCHANGED registryPullSecrets
    PROVE  /\ Coherent(registryPullSecrets', cachedRegistries, registryEvents')
           /\ \A other : other # worker.registry =>
                (Stale(registryEvents', other) <=> Stale(registryEvents, other))
           /\ \A other : Stale(registryEvents, other) => Stale(registryEvents', other)
<1> DEFINE r == worker.registry
<1>1. r \in Registries
  BY DEF Job
<1>2. CASE registryEvents' = registryEvents
  BY <1>2 DEF CachesCoherent
<1>3. CASE registryEvents' = Emit(registryEvents, r, registryPullSecrets[r])
  <2>1. /\ registryPullSecrets' = [registryPullSecrets EXCEPT ![r] = registryPullSecrets[r]]
        /\ registryPullSecrets[r] \in RegistryPullSecret \cup {NoObject}
    BY <1>1 DEF TypeInv, TypeOK
  <2> QED BY <1>1, <1>3, <2>1, EmitRegistryKeeps
<1> QED BY <1>2, <1>3 DEF StoreStatus

(* A fresh process has seen everything. *)
LEMMA EmptyCoherent == \A api : Coherent(api, api, << >>) /\ \A key : ~Stale(<< >>, key)
BY DEF Coherent, Stale

-----------------------------------------------------------------------------
(* The reference of a stored object is a key or absent. *)
LEMMA ReferenceType ==
    ASSUME TypeInv, NEW r \in Registries, Exists(r)
    PROVE  /\ registryPullSecrets[r] \in RegistryPullSecret
           /\ registryPullSecrets[r].spec \in Specs
           /\ registryPullSecrets[r].spec.credentialsSecretRef \in Keys \cup {NoRef}
<1>1. registryPullSecrets[r] \in RegistryPullSecret
  BY DEF TypeInv, TypeOK, Exists
<1>2. registryPullSecrets[r].spec \in Specs
  BY <1>1 DEF RegistryPullSecret
<1> QED BY <1>1, <1>2, ControllerAssumption
(* A worker that is the same, or goes on with what it read. *)
SameReconcile ==
    \/ worker' = worker
    \/ /\ worker \in Job /\ worker' \in Job
       /\ worker'.registry = worker.registry
       /\ worker'.object = worker.object
       /\ worker'.fresh = worker.fresh
       /\ worker'.source = worker.source

SecretsMayChange ==
    /\ UNCHANGED cachedSecrets
    /\ \/ UNCHANGED <<secrets, secretEvents>>
       \/ \E key \in Keys, object \in Secret \cup {NoObject} : WriteSecret(key, object)

(* Most steps change no RegistryPullSecret, take no trigger away and go on with the
   reconcile in progress, even if they write a Secret. *)
Frame ==
    /\ SameReconcile /\ SecretsMayChange
    /\ UNCHANGED <<registryPullSecrets, status, cachedRegistries, registryEvents, synced, missed>>
    /\ queue \cup backoff \subseteq queue' \cup backoff'

(* Users create, edit or delete r. *)
UsersStore(r, object) ==
    /\ StoreRegistry(r, object)
    /\ \A x \in Registries \ {r} : status'[x] = status[x] /\ synced'[x] = synced[x]
    /\ synced'[r] = IF object = NoObject THEN NoObject ELSE synced[r]
    /\ UNCHANGED <<secrets, cachedRegistries, cachedSecrets, secretEvents, queueVars, missed>>

(* The steps that matter one by one *)
ReconcilerMoves == UpdateStatus \/ \E r \in Registries : ForgetDeleted(r) \/ StartReconcile(r)

ManagerMoves == DeliverRegistryEvent \/ DeliverSecretEvent \/ Restart

UsersMove ==
    \E r \in Registries, object \in RegistryPullSecret \cup {NoObject} : UsersStore(r, object)

(* Reconcile's own steps: the worker goes on, a reconcile starts, or one ends. *)
LEMMA ReconcilerSteps ==
    ASSUME TypeInv, TypeInv', Reconciler
    PROVE  Frame \/ ReconcilerMoves
<1>w. /\ worker \in Job \/ worker = Idle
      /\ worker' \in Job \/ worker' = Idle
      /\ Idle.step \notin {"plan", "sync", "status"}
  BY DEF TypeInv, TypeOK, Idle
<1>f. worker \in Job =>
        /\ Failed \in Job /\ Failed.registry = worker.registry /\ Failed.object = worker.object
        /\ Failed.fresh = worker.fresh /\ Failed.source = worker.source
  BY DEF Failed, Job, Reasons
<1>s. ASSUME worker.step \in {"plan", "sync"}, worker'.step \in {"plan", "sync", "status"},
             worker'.registry = worker.registry, worker'.object = worker.object,
             worker'.fresh = worker.fresh, worker'.source = worker.source
      PROVE  SameReconcile
  BY <1>w, <1>s DEF SameReconcile
<1>1. ASSUME NEW r \in Registries, GetFails(r) PROVE Frame
  BY <1>1 DEF GetFails, Frame, SameReconcile, SecretsMayChange, apiVars, cacheVars
<1>2. ASSUME ReadFails PROVE Frame
  <2>1. SameReconcile
    BY <1>2, <1>w, <1>f DEF ReadFails, SameReconcile
  <2> QED BY <1>2, <2>1 DEF ReadFails, Frame, SecretsMayChange, apiVars, cacheVars, queueVars
<1>3. ASSUME Plan PROVE Frame
  <2>1. worker \in Job
    BY <1>3, <1>w DEF Plan
  <2>2. /\ worker'.step \in {"sync", "status"}
        /\ worker'.registry = worker.registry /\ worker'.object = worker.object
        /\ worker'.fresh = worker.fresh /\ worker'.source = worker.source
    BY <1>3, <2>1 DEF Plan, Job
  <2>3. SameReconcile
    BY <1>3, <2>2, <1>s DEF Plan
  <2> QED BY <1>3, <2>3 DEF Plan, Frame, SecretsMayChange, apiVars, cacheVars, queueVars
<1>4. ASSUME NEW key \in Keys, ApplySecret(key) PROVE Frame
  <2>1. worker \in Job /\ worker.step = "sync"
    BY <1>4, <1>w DEF ApplySecret
  <2>2. BuildPullSecret(worker.registry, worker.credentials) \in Secret
    BY <2>1, BuildType DEF Job, TypeInv, CredentialsResolved
  <2>3. worker' = Failed \/ worker' = [worker EXCEPT !.toApply = @ \ {key}, !.applied = @ + 1]
    BY <1>4 DEF ApplySecret
  <2>4. SameReconcile
    BY <2>1, <2>3, <1>f, <1>s DEF Job
  <2>5. SecretsMayChange
    BY <1>4, <2>2 DEF ApplySecret, SecretsMayChange
  <2> QED BY <1>4, <2>4, <2>5 DEF ApplySecret, Frame, queueVars
<1>5. ASSUME NEW key \in Keys, DeleteSecret(key) PROVE Frame
  <2>1. worker \in Job /\ worker.step = "sync"
    BY <1>5, <1>w DEF DeleteSecret, DeletionsTurn
  <2>2. worker' = Failed \/ worker' = [worker EXCEPT !.toDelete = @ \ {key}, !.deleted = @ + 1]
    BY <1>5 DEF DeleteSecret
  <2>3. SameReconcile
    BY <2>1, <2>2, <1>f, <1>s DEF Job
  <2>4. SecretsMayChange
    BY <1>5 DEF DeleteSecret, SecretsMayChange
  <2> QED BY <1>5, <2>3, <2>4 DEF DeleteSecret, Frame, queueVars
<1> QED BY <1>1, <1>2, <1>3, <1>4, <1>5 DEF Reconciler, ReconcilerMoves

(* The manager's steps: deliveries and a restart, or nothing that matters here. *)
LEMMA ManagerSteps == Manager => Frame \/ ManagerMoves
<1>1. RefreshPolicy \/ RefreshNamespaces => Frame
  BY DEF RefreshPolicy, RefreshNamespaces, Frame, SameReconcile, SecretsMayChange, apiVars,
         queueVars
<1>2. ASSUME NEW r \in Registries, BackoffExpires(r) PROVE Frame
  BY <1>2 DEF BackoffExpires, Frame, SameReconcile, SecretsMayChange, apiVars, cacheVars
<1> QED BY <1>1, <1>2 DEF Manager, ManagerMoves

(* A step of users writes one RegistryPullSecret, or it changes none. *)
LEMMA UsersSteps ==
    ASSUME TypeInv, Users
    PROVE  Frame \/ UsersMove
<1>1. ASSUME NEW r \in Registries, NEW spec \in Specs,
             CreateRegistry(r, spec) \/ EditRegistry(r, spec)
      PROVE  UsersMove
  <2>1. registryPullSecrets[r] # NoObject => registryPullSecrets[r].generation + 1 \in Nat \ {0}
    BY DEF TypeInv, TypeOK, RegistryPullSecret
  <2>2. PICK object \in RegistryPullSecret : StoreRegistry(r, object)
    BY <1>1, <2>1 DEF CreateRegistry, EditRegistry, Exists, RegistryPullSecret
  <2>3. object # NoObject
    BY ControllerAssumption
  <2>4. UsersStore(r, object)
    BY <1>1, <2>2, <2>3 DEF CreateRegistry, EditRegistry, UsersStore
  <2> QED BY <2>4 DEF UsersMove
<1>2. ASSUME NEW r \in Registries, DeleteRegistry(r) PROVE UsersMove
  <2>1. UsersStore(r, NoObject)
    BY <1>2 DEF DeleteRegistry, UsersStore, TypeInv, TypeOK
  <2> QED BY <2>1 DEF UsersMove
<1>3. ASSUME NEW setting \in PolicySettings \cup {NoObject}, EditPolicy(setting) PROVE Frame
  BY <1>3 DEF EditPolicy, Frame, SameReconcile, SecretsMayChange, cacheVars, queueVars
<1>4. ASSUME NEW n \in Namespaces,
             CreateNamespace(n) \/ TerminateNamespace(n) \/ FinalizeNamespace(n)
      PROVE  Frame
  BY <1>4 DEF CreateNamespace, TerminateNamespace, FinalizeNamespace, Frame, SameReconcile,
              SecretsMayChange, cacheVars, queueVars
<1>5. ASSUME NEW key \in Keys, PurgeSecret(key) PROVE Frame
  BY <1>5 DEF PurgeSecret, Frame, SameReconcile, SecretsMayChange, queueVars
<1>6. ASSUME NEW write \in UserWrites, PutSecret(write.key, write.object) PROVE Frame
  <2>1. write.key \in Keys /\ write.object \in Secret
    BY ControllerAssumption
  <2> QED BY <1>6, <2>1 DEF PutSecret, Frame, SameReconcile, SecretsMayChange, queueVars
<1>7. ASSUME NEW key \in UserDeletes, RemoveSecret(key) PROVE Frame
  <2>1. key \in Keys
    BY ControllerAssumption
  <2> QED BY <1>7, <2>1 DEF RemoveSecret, Frame, SameReconcile, SecretsMayChange, queueVars
<1> QED BY <1>1, <1>2, <1>3, <1>4, <1>5, <1>6, <1>7 DEF Users

(* Every step is one of these. *)
LEMMA KindsOfSteps ==
    ASSUME TypeInv, TypeInv', [Next]_vars
    PROVE  Frame \/ ReconcilerMoves \/ ManagerMoves \/ UsersMove
<1>1. UNCHANGED vars => Frame
  BY DEF vars, apiVars, cacheVars, queueVars, Frame, SameReconcile, SecretsMayChange
<1> QED BY <1>1, ReconcilerSteps, ManagerSteps, UsersSteps DEF Next

-----------------------------------------------------------------------------
(* What a manager keeps by itself. *)

(* A step that takes no trigger away and goes on with the reconcile in progress, even if
   it writes a Secret: then the event is pending for whoever refers to the Secret. *)
LEMMA FrameKeepsLocal ==
    ASSUME LocalInv, TypeInv', Frame
    PROVE  LocalInv'
<1> USE DEF Frame
<1>i. Idle \notin Job
  BY DEF Idle, Job
<1>1. /\ Coherent(secrets', cachedSecrets', secretEvents')
      /\ \A other : Stale(secretEvents, other) => Stale(secretEvents', other)
      /\ \A other \in Keys : secrets'[other] # secrets[other] => Stale(secretEvents', other)
  <2>1. CASE UNCHANGED <<secrets, secretEvents>>
    BY <2>1 DEF SecretsMayChange, LocalInv, CachesCoherent
  <2>2. CASE \E key \in Keys, object \in Secret \cup {NoObject} : WriteSecret(key, object)
    BY <2>2, WriteSecretKeeps DEF SecretsMayChange, LocalInv
  <2> QED BY <2>1, <2>2 DEF SecretsMayChange
<1>2. CachesCoherent'
  BY <1>1 DEF LocalInv, CachesCoherent
<1>3. FreshIsCurrent'
  BY <1>i DEF LocalInv, FreshIsCurrent, SameReconcile
<1>4. SyncedExists'
  BY DEF LocalInv, SyncedExists, Exists
<1>5. WorkerIsCurrent'
  <2> SUFFICES ASSUME NEW r \in Registries, Exists(r), r \notin missed, ~Pending(r)', Busy(r)'
               PROVE  Current(r, worker)'
    BY DEF WorkerIsCurrent, Exists
  <2> DEFINE ref == registryPullSecrets[r].spec.credentialsSecretRef
  <2>1. ~Pending(r) /\ ~Stale(secretEvents', ref)
    BY <1>1 DEF Pending
  <2>2. ref \in Keys \cup {NoRef} /\ (ref \in Keys => secrets'[ref] = secrets[ref])
    BY <1>1, <2>1, ReferenceType DEF LocalInv
  <2>3. worker'.object = worker.object /\ worker'.source = worker.source /\ Busy(r)
    BY <1>i DEF SameReconcile, Busy
  <2>4. Current(r, worker)
    BY <2>1, <2>3 DEF LocalInv, WorkerIsCurrent
  <2> QED BY <2>2, <2>3, <2>4 DEF Current, SourceIn
<1> QED BY <1>2, <1>3, <1>4, <1>5 DEF LocalInv

(* The start of a reconcile: it reads what is in the caches, which is what is in the
   API server unless an event is on its way. *)
LEMMA StartKeepsLocal ==
    ASSUME LocalInv, TypeInv', NEW r \in Registries, StartReconcile(r)
    PROVE  LocalInv'
<1> DEFINE spec == registryPullSecrets[r].spec
<1>1. /\ worker = Idle
      /\ worker'.registry = r /\ worker' # Idle
      /\ worker'.object = cachedRegistries[r]
      /\ worker'.fresh = ~Stale(registryEvents, r)
      /\ worker'.source = SourceIn(cachedSecrets, cachedRegistries[r].spec)
  <2> QED BY DEF StartReconcile, Idle
<1>2. /\ UNCHANGED <<apiVars, cacheVars, backoff, synced, budget>>
      /\ queue' = queue \ {r} /\ missed' = missed \ {r}
  BY DEF StartReconcile
<1> USE <1>2 DEF LocalInv, apiVars, cacheVars
<1>3. ~Stale(registryEvents, r) => cachedRegistries[r] = registryPullSecrets[r]
  BY DEF CachesCoherent, Coherent, TypeInv, TypeOK
<1>4. CachesCoherent' /\ FreshIsCurrent' /\ SyncedExists'
  BY <1>1, <1>3 DEF CachesCoherent, FreshIsCurrent, SyncedExists, Exists
<1>5. \A other \in Registries : Busy(other)' <=> other = r
  BY <1>1 DEF Busy
<1>6. ASSUME Exists(r), ~Stale(registryEvents, r), ~Stale(secretEvents, spec.credentialsSecretRef)
      PROVE  Current(r, worker)'
  <2>1. spec.credentialsSecretRef \in Keys \cup {NoRef}
    BY <1>6, ReferenceType
  <2>2. spec.credentialsSecretRef \in Keys =>
          cachedSecrets[spec.credentialsSecretRef] = secrets[spec.credentialsSecretRef]
    BY <1>6 DEF CachesCoherent, Coherent, TypeInv, TypeOK
  <2> QED BY <1>1, <1>3, <1>6, <2>1, <2>2 DEF Current, SourceIn
<1>7. WorkerIsCurrent'
  BY <1>5, <1>6 DEF WorkerIsCurrent, Pending, Exists
<1> QED BY <1>4, <1>7

(* A reconcile of a deleted object takes no trigger from one that exists. *)
LEMMA ForgetKeepsLocal ==
    ASSUME LocalInv, TypeInv', NEW r \in Registries, ForgetDeleted(r)
    PROVE  LocalInv'
<1> USE DEF LocalInv, ForgetDeleted, apiVars, cacheVars
<1>1. CachesCoherent' /\ FreshIsCurrent' /\ SyncedExists'
  BY DEF CachesCoherent, FreshIsCurrent, SyncedExists, Exists
<1>2. WorkerIsCurrent'
  BY DEF WorkerIsCurrent, Busy
<1> QED BY <1>1, <1>2

(* The end of a reconcile either fails and is retried, or was accepted by the API
   server and is on record. *)
Recorded ==
    [synced EXCEPT ![worker.registry] =
        [object   |-> worker.object,   source    |-> worker.source,
         excluded |-> worker.excluded, inventory |-> worker.inventory]]

(* What updateRegistryPullSecretStatus and the return of Reconcile change. *)
LEMMA UpdateStatusFacts ==
    ASSUME TypeInv, CachesCoherent, UpdateStatus
    PROVE  /\ worker \in Job /\ worker # Idle /\ worker' = Idle
           /\ UNCHANGED <<registryPullSecrets, policy, namespaces, secrets, cachedRegistries,
                          cachedSecrets, secretEvents, cachedPolicy, cachedNamespaces, queue,
                          missed>>
           /\ backoff \subseteq backoff' /\ backoff' \subseteq backoff \cup {worker.registry}
           /\ \/ worker.registry \in backoff' /\ synced' = synced
              \/ worker.result = "Synced" /\ worker.fresh /\ StoreStatus /\ synced' = Recorded
           /\ StoreStatus \/ UNCHANGED <<status, registryEvents>>
           /\ Coherent(registryPullSecrets', cachedRegistries, registryEvents')
           /\ \A x : x # worker.registry => (Stale(registryEvents', x) <=> Stale(registryEvents, x))
           /\ \A x : Stale(registryEvents, x) => Stale(registryEvents', x)
<1>1. worker \in Job /\ worker # Idle
  BY DEF UpdateStatus, Finished, Idle, Job, TypeInv, TypeOK
<1>2. UNCHANGED <<registryPullSecrets, policy, namespaces, secrets, cachedRegistries,
                  cachedSecrets, secretEvents, cachedPolicy, cachedNamespaces, queue, missed>>
  BY DEF UpdateStatus
<1>3. /\ worker' = Idle
      /\ backoff \subseteq backoff' /\ backoff' \subseteq backoff \cup {worker.registry}
  BY DEF UpdateStatus, Return
<1>4. /\ \/ worker.registry \in backoff' /\ synced' = synced
         \/ worker.result = "Synced" /\ worker.fresh /\ StoreStatus /\ synced' = Recorded
      /\ StoreStatus \/ UNCHANGED <<status, registryEvents>>
  BY DEF UpdateStatus, StatusAccepted, Return, Recorded
<1>5. CASE StoreStatus
  BY <1>1, <1>2, <1>3, <1>4, <1>5, StoreStatusKeeps
<1>6. CASE UNCHANGED registryEvents
  BY <1>1, <1>2, <1>3, <1>4, <1>6 DEF CachesCoherent
<1> QED BY <1>4, <1>5, <1>6

(* The end of a reconcile leaves nothing to the worker and announces what it wrote. *)
LEMMA UpdateStatusKeepsLocal ==
    ASSUME LocalInv, TypeInv', UpdateStatus
    PROVE  LocalInv'
<1>1. TypeInv /\ CachesCoherent /\ FreshIsCurrent /\ SyncedExists
  BY DEF LocalInv
<1>2. Idle \notin Job
  BY DEF Idle, Job
<1>3. CachesCoherent' /\ FreshIsCurrent' /\ WorkerIsCurrent'
  BY <1>1, <1>2, UpdateStatusFacts DEF CachesCoherent, FreshIsCurrent, WorkerIsCurrent, Busy
<1>4. SyncedExists'
  <2>1. CASE synced' = synced
    BY <1>1, <2>1, UpdateStatusFacts DEF SyncedExists, Exists
  <2>2. CASE worker.fresh /\ synced' = Recorded
    <3>1. worker \in Job /\ worker.object # NoObject
      BY <1>1, UpdateStatusFacts, ControllerAssumption DEF Job
    <3>2. Exists(worker.registry)
      BY <1>1, <2>2, <3>1 DEF FreshIsCurrent, Exists
    <3>3. UNCHANGED registryPullSecrets
      BY <1>1, UpdateStatusFacts
    <3> QED BY <1>1, <2>2, <3>2, <3>3 DEF Recorded, SyncedExists, Exists, TypeInv, TypeOK
  <2> QED BY <1>1, <2>1, <2>2, UpdateStatusFacts
<1> QED BY <1>3, <1>4 DEF LocalInv

(* The cache catches up with a RegistryPullSecret, whose name is enqueued. *)
LEMMA DeliverRegistryKeepsLocal ==
    ASSUME LocalInv, TypeInv', DeliverRegistryEvent
    PROVE  LocalInv'
<1> DEFINE r == Head(registryEvents).key
           Objects == RegistryPullSecret \cup {NoObject}
<1>0. /\ registryEvents \in Seq(Event(Registries, Objects)) /\ registryEvents # << >>
      /\ registryPullSecrets \in [Registries -> Objects]
      /\ cachedRegistries \in [Registries -> Objects]
  BY DEF DeliverRegistryEvent, LocalInv, TypeInv, TypeOK
<1> USE DEF LocalInv, apiVars, DeliverRegistryEvent
<1>1. CachesCoherent'
  <2>1. Coherent(registryPullSecrets, Delivered(cachedRegistries, registryEvents),
                 Tail(registryEvents))
    BY <1>0, DeliverCoherent DEF CachesCoherent
  <2> QED BY <2>1 DEF CachesCoherent
<1>2. \A x : Stale(registryEvents, x) <=> Stale(registryEvents', x) \/ x = r
  BY <1>0, DeliverStale
<1>3. FreshIsCurrent' /\ SyncedExists'
  BY DEF FreshIsCurrent, SyncedExists, Exists
<1>4. WorkerIsCurrent'
  BY <1>2 DEF WorkerIsCurrent, Pending, Exists, Busy, Current, SourceIn
<1> QED BY <1>1, <1>3, <1>4

(* The cache catches up with a Secret: whoever takes credentials from it is enqueued,
   and becomes missed when the List fails. *)
LEMMA DeliverSecretFacts ==
    ASSUME TypeInv, CachesCoherent, DeliverSecretEvent
    PROVE  /\ UNCHANGED <<registryPullSecrets, status, policy, namespaces, secrets,
                          cachedRegistries, registryEvents, cachedPolicy, cachedNamespaces,
                          backoff, worker, synced>>
           /\ queue \subseteq queue' /\ missed \subseteq missed'
           /\ Coherent(secrets, cachedSecrets', secretEvents')
           /\ \A x \in Registries : Exists(x) /\ x \notin missed' /\ ~Pending(x)' => ~Pending(x)
<1> DEFINE key == Head(secretEvents).key
           Objects == Secret \cup {NoObject}
<1>0. /\ secretEvents \in Seq(Event(Keys, Objects)) /\ secretEvents # << >>
      /\ secrets \in [Keys -> Objects]
      /\ cachedSecrets \in [Keys -> Objects]
  BY DEF DeliverSecretEvent, TypeInv, TypeOK
<1>1. /\ cachedSecrets' = Delivered(cachedSecrets, secretEvents)
      /\ secretEvents' = Tail(secretEvents)
      /\ UNCHANGED <<registryPullSecrets, status, policy, namespaces, secrets, cachedRegistries,
                     registryEvents, cachedPolicy, cachedNamespaces, backoff, worker, synced>>
      /\ queue \subseteq queue' /\ missed \subseteq missed'
      /\ RegistryPullSecretsForSecret(key) \subseteq queue' \cup missed'
  BY <1>0 DEF DeliverSecretEvent, apiVars
<1>2. Coherent(secrets, cachedSecrets', secretEvents')
  BY <1>0, <1>1, DeliverCoherent DEF CachesCoherent
<1>3. \A x : Stale(secretEvents, x) <=> Stale(secretEvents', x) \/ x = key
  BY <1>0, <1>1, DeliverStale
<1>4. ASSUME NEW x \in Registries, Exists(x), x \notin missed', ~Pending(x)'
      PROVE  ~Pending(x)
  <2>1. ~Stale(registryEvents, x) /\ x \notin RegistryPullSecretsForSecret(key)
    BY <1>1, <1>4 DEF Pending
  <2>2. cachedRegistries[x] = registryPullSecrets[x]
    BY <2>1 DEF CachesCoherent, Coherent, TypeInv, TypeOK
  <2>3. registryPullSecrets[x].spec.credentialsSecretRef # key
    BY <1>4, <2>1, <2>2 DEF RegistryPullSecretsForSecret, Exists
  <2> QED BY <1>1, <1>3, <1>4, <2>3 DEF Pending
<1> QED BY <1>1, <1>2, <1>4

(* The event of a Secret triggers or lists as missed whoever refers to it. *)
LEMMA DeliverSecretKeepsLocal ==
    ASSUME LocalInv, TypeInv', DeliverSecretEvent
    PROVE  LocalInv'
<1>1. TypeInv /\ CachesCoherent /\ FreshIsCurrent /\ SyncedExists /\ WorkerIsCurrent
  BY DEF LocalInv
<1>2. CachesCoherent' /\ FreshIsCurrent' /\ SyncedExists'
  BY <1>1, DeliverSecretFacts DEF CachesCoherent, FreshIsCurrent, SyncedExists, Exists
<1>3. WorkerIsCurrent'
  BY <1>1, DeliverSecretFacts DEF WorkerIsCurrent, Exists, Busy, Current, SourceIn
<1> QED BY <1>2, <1>3 DEF LocalInv

(* A new process starts from the API server and reconciles everything. *)
LEMMA RestartKeepsLocal ==
    ASSUME LocalInv, TypeInv', Restart
    PROVE  LocalInv'
<1>1. CachesCoherent'
  BY EmptyCoherent DEF Restart, CachesCoherent, apiVars
<1>2. FreshIsCurrent' /\ SyncedExists' /\ WorkerIsCurrent'
  <2>1. Idle \notin Job
    BY DEF Idle, Job
  <2> QED BY <2>1 DEF Restart, FreshIsCurrent, SyncedExists, WorkerIsCurrent, Busy, LocalInv,
                      Exists, apiVars
<1> QED BY <1>1, <1>2 DEF LocalInv

(* Users write a RegistryPullSecret: its event is a trigger, and a reconcile that holds
   an older copy goes on with it. *)
LEMMA UsersStoreFacts ==
    ASSUME TypeInv, CachesCoherent, NEW r \in Registries,
           NEW object \in RegistryPullSecret \cup {NoObject}, UsersStore(r, object)
    PROVE  /\ Coherent(registryPullSecrets', cachedRegistries, registryEvents')
           /\ \A x : Stale(registryEvents', x) <=> Stale(registryEvents, x) \/ x = r
           /\ \A x \in Registries \ {r} : registryPullSecrets'[x] = registryPullSecrets[x]
           /\ registryPullSecrets'[r] = object
           /\ \/ worker' = Idle /\ worker = Idle
              \/ /\ worker \in Job /\ worker' \in Job
                 /\ worker'.registry = worker.registry /\ worker'.object = worker.object
                 /\ worker'.source = worker.source
                 /\ worker'.fresh => worker.fresh /\ worker.registry # r
           /\ \A x : Busy(x)' <=> Busy(x)
<1>0. Idle \notin Job /\ StoreRegistry(r, object)
  BY DEF Idle, Job, UsersStore
<1>1. /\ Coherent(registryPullSecrets', cachedRegistries, registryEvents')
      /\ \A x : Stale(registryEvents', x) <=> Stale(registryEvents, x) \/ x = r
  BY <1>0, EmitRegistryKeeps DEF StoreRegistry
<1>2. /\ \A x \in Registries \ {r} : registryPullSecrets'[x] = registryPullSecrets[x]
      /\ registryPullSecrets'[r] = object
  BY <1>0 DEF StoreRegistry, TypeInv, TypeOK
<1>3. \/ worker' = Idle /\ worker = Idle
      \/ /\ worker \in Job /\ worker' \in Job
         /\ worker'.registry = worker.registry /\ worker'.object = worker.object
         /\ worker'.source = worker.source
         /\ worker'.fresh => worker.fresh /\ worker.registry # r
  <2>1. CASE worker = Idle
    BY <1>0, <2>1 DEF StoreRegistry, Busy
  <2>2. CASE worker \in Job
    BY <1>0, <2>2 DEF StoreRegistry, Busy, Job
  <2> QED BY <2>1, <2>2 DEF TypeInv, TypeOK
<1>4. \A x : Busy(x)' <=> Busy(x)
  BY <1>0, <1>3 DEF Busy
<1> QED BY <1>1, <1>2, <1>3, <1>4

(* A user's write is announced, and outdates a reconcile of the same object. *)
LEMMA UsersStoreKeepsLocal ==
    ASSUME LocalInv, TypeInv', NEW r \in Registries,
           NEW object \in RegistryPullSecret \cup {NoObject}, UsersStore(r, object)
    PROVE  LocalInv'
<1>0. TypeInv /\ CachesCoherent /\ FreshIsCurrent /\ SyncedExists /\ WorkerIsCurrent
  BY DEF LocalInv
<1>1. UNCHANGED <<secrets, cachedRegistries, cachedSecrets, secretEvents, queueVars, missed>>
  BY DEF UsersStore
<1>2. CachesCoherent' /\ SyncedExists'
  BY <1>0, <1>1, UsersStoreFacts DEF UsersStore, CachesCoherent, SyncedExists, Exists
<1>3. FreshIsCurrent'
  <2>1. Idle \notin Job /\ (worker \in Job => worker.registry \in Registries)
    BY DEF Idle, Job
  <2> QED BY <1>0, <2>1, UsersStoreFacts DEF FreshIsCurrent
<1>4. WorkerIsCurrent'
  <2> SUFFICES ASSUME NEW x \in Registries, Exists(x)', x \notin missed, ~Pending(x)', Busy(x)'
               PROVE  Current(x, worker)'
    BY <1>1 DEF WorkerIsCurrent
  <2>1. x # r /\ registryPullSecrets'[x] = registryPullSecrets[x]
    BY <1>0, UsersStoreFacts DEF Pending
  <2>2. ~Pending(x) /\ Exists(x) /\ Busy(x)
    BY <1>0, <1>1, <2>1, UsersStoreFacts DEF Pending, Exists, queueVars
  <2>3. worker'.object = worker.object /\ worker'.source = worker.source
    BY <1>0, <2>2, UsersStoreFacts DEF Busy
  <2>4. Current(x, worker)
    BY <1>0, <2>2 DEF WorkerIsCurrent
  <2> QED BY <1>1, <2>1, <2>3, <2>4 DEF Current, SourceIn
<1> QED BY <1>2, <1>3, <1>4 DEF LocalInv

(* A manager starts with coherent caches and an idle worker. *)
LEMMA LocalInit == Init => LocalInv
<1> SUFFICES ASSUME Init PROVE LocalInv
  OBVIOUS
<1>1. TypeInv
  BY TypeInit
<1>2. CachesCoherent
  BY EmptyCoherent DEF Init, CachesCoherent
<1>3. FreshIsCurrent /\ SyncedExists /\ WorkerIsCurrent
  BY DEF Init, FreshIsCurrent, SyncedExists, WorkerIsCurrent, Busy, Idle, Job
<1> QED BY <1>1, <1>2, <1>3 DEF LocalInv

(* LocalInv is inductive. *)
LEMMA LocalStep == LocalInv /\ [Next]_vars => LocalInv'
<1> SUFFICES ASSUME LocalInv, [Next]_vars PROVE LocalInv'
  OBVIOUS
<1>1. TypeInv /\ TypeInv'
  BY TypeStep DEF LocalInv
<1>2. CASE ReconcilerMoves
  BY <1>1, <1>2, ForgetKeepsLocal, StartKeepsLocal, UpdateStatusKeepsLocal DEF ReconcilerMoves
<1>3. CASE ManagerMoves
  BY <1>1, <1>3, DeliverRegistryKeepsLocal, DeliverSecretKeepsLocal, RestartKeepsLocal
     DEF ManagerMoves
<1>4. CASE UsersMove
  BY <1>1, <1>4, UsersStoreKeepsLocal DEF UsersMove
<1> QED BY <1>1, <1>2, <1>3, <1>4, FrameKeepsLocal, KindsOfSteps

-----------------------------------------------------------------------------
(* What the only manager keeps: the settled stay reconciled. *)

SettledInv == SettledStatusIsCurrent /\ InputsAreCurrent

(* A step that only moves the worker on or writes a Secret announces what it unsettles. *)
LEMMA FrameKeepsSettled ==
    ASSUME SafetyInv, LocalInv', Frame
    PROVE  SettledInv'
<1> USE DEF Frame
<1>0. TypeInv /\ CachesCoherent
  BY DEF SafetyInv, LocalInv
<1>1. \A r : Busy(r) <=> Busy(r)'
  BY DEF Busy, SameReconcile, Idle, Job
<1>2. /\ \A other : Stale(secretEvents, other) => Stale(secretEvents', other)
      /\ \A other \in Keys : secrets'[other] # secrets[other] => Stale(secretEvents', other)
  <2>1. CASE UNCHANGED <<secrets, secretEvents>>
    BY <2>1
  <2>2. CASE \E key \in Keys, object \in Secret \cup {NoObject} : WriteSecret(key, object)
    BY <1>0, <2>2, WriteSecretKeeps
  <2> QED BY <2>1, <2>2 DEF SecretsMayChange
<1>3. SettledStatusIsCurrent'
  BY <1>1 DEF SafetyInv, SettledStatusIsCurrent, Triggered, Exists
<1>4. InputsAreCurrent'
  <2> SUFFICES ASSUME NEW r \in Registries, Exists(r), r \notin missed, ~Pending(r)', ~Busy(r)'
               PROVE  synced[r] # NoObject /\ Current(r, synced[r])'
    BY DEF InputsAreCurrent, Exists
  <2> DEFINE ref == registryPullSecrets[r].spec.credentialsSecretRef
  <2>1. ~Pending(r) /\ ~Stale(secretEvents', ref) /\ ~Busy(r)
    BY <1>1, <1>2 DEF Pending
  <2>2. ref \in Keys \cup {NoRef} /\ (ref \in Keys => secrets'[ref] = secrets[ref])
    BY <1>0, <1>2, <2>1, ReferenceType
  <2>3. synced[r] # NoObject /\ Current(r, synced[r])
    BY <2>1 DEF SafetyInv, InputsAreCurrent
  <2> QED BY <2>2, <2>3 DEF Current, SourceIn
<1> QED BY <1>3, <1>4 DEF SettledInv

(* Forgetting a name without an object, or taking one into the worker *)
LEMMA ForgetKeepsSettled ==
    ASSUME SafetyInv, LocalInv', NEW r \in Registries, ForgetDeleted(r)
    PROVE  SettledInv'
<1> USE DEF SafetyInv, ForgetDeleted, apiVars, cacheVars
<1>1. ~Stale(registryEvents, r) => ~Exists(r)
  BY DEF LocalInv, CachesCoherent, Coherent, Exists, TypeInv, TypeOK
<1>2. SettledStatusIsCurrent'
  BY <1>1 DEF SettledStatusIsCurrent, Triggered, Exists, Busy
<1>3. InputsAreCurrent'
  BY <1>1 DEF InputsAreCurrent, Pending, Exists, Busy, Current, SourceIn
<1> QED BY <1>2, <1>3 DEF SettledInv

(* A reconcile that starts is a trigger itself. *)
LEMMA StartKeepsSettled ==
    ASSUME SafetyInv, LocalInv', NEW r \in Registries, StartReconcile(r)
    PROVE  SettledInv'
<1>1. worker = Idle /\ worker'.registry = r /\ worker' # Idle
  BY DEF StartReconcile, Idle
<1>2. Busy(r)' /\ \A other \in Registries : ~Busy(other)
  BY <1>1 DEF Busy
<1>3. SettledStatusIsCurrent'
  BY <1>2
     DEF StartReconcile, SafetyInv, SettledStatusIsCurrent, Triggered, Exists, apiVars, cacheVars
<1>4. InputsAreCurrent'
  BY <1>2 DEF StartReconcile, SafetyInv, InputsAreCurrent, Pending, Exists, Current, SourceIn,
              apiVars, cacheVars
<1> QED BY <1>3, <1>4 DEF SettledInv

(* The end of a reconcile: either its name waits for a retry, or it succeeded, its
   status was stored, and what it had read was current if nothing is pending. *)
LEMMA UpdateStatusKeepsSettled ==
    ASSUME SafetyInv, LocalInv', UpdateStatus
    PROVE  SettledInv'
<1> DEFINE r == worker.registry
<1>0. /\ TypeInv /\ CachesCoherent /\ FreshIsCurrent /\ WorkerIsCurrent
      /\ worker \in Job /\ r \in Registries /\ Busy(r)
  <2>1. TypeInv /\ CachesCoherent /\ FreshIsCurrent /\ WorkerIsCurrent
    BY DEF SafetyInv, LocalInv
  <2> QED BY <2>1, UpdateStatusFacts DEF Job, Busy
<1>1. /\ UNCHANGED <<registryPullSecrets, secrets, secretEvents, queue, missed>>
      /\ backoff \subseteq backoff' /\ backoff' \subseteq backoff \cup {r}
      /\ \A x : x # r => (Stale(registryEvents', x) <=> Stale(registryEvents, x))
      /\ \A x : Stale(registryEvents, x) => Stale(registryEvents', x)
  BY <1>0, UpdateStatusFacts
<1>2. ASSUME r \notin backoff'
      PROVE  worker.fresh /\ worker.result = "Synced" /\ StoreStatus /\ synced' = Recorded
  BY <1>0, <1>2, UpdateStatusFacts
<1>3. ASSUME NEW x \in Registries, x # r
      PROVE  /\ ~Busy(x) /\ ~Busy(x)'
             /\ status'[x] = status[x] /\ synced'[x] = synced[x]
  <2>1. ~Busy(x) /\ ~Busy(x)'
    BY <1>0, <1>3, UpdateStatusFacts DEF Busy
  <2>2. status'[x] = status[x]
    BY <1>0, <1>3, UpdateStatusFacts DEF StoreStatus, TypeInv, TypeOK
  <2>3. synced'[x] = synced[x]
    BY <1>0, <1>3, UpdateStatusFacts DEF Recorded, TypeInv, TypeOK
  <2> QED BY <2>1, <2>2, <2>3
<1>4. SettledStatusIsCurrent'
  <2> SUFFICES ASSUME NEW x \in Registries, Exists(x), ~Triggered(x)'
               PROVE  /\ status'[x].observedGeneration = registryPullSecrets[x].generation
                      /\ status'[x].reason = "Synced"
    BY <1>1 DEF SettledStatusIsCurrent, Exists
  <2>1. CASE x = r
    <3>1. worker.fresh /\ worker.result = "Synced" /\ StoreStatus
      BY <1>2, <2>1 DEF Triggered
    <3>2. worker.object = registryPullSecrets[r]
      BY <1>0, <3>1 DEF FreshIsCurrent
    <3> QED BY <1>0, <2>1, <3>1, <3>2 DEF StoreStatus, TypeInv, TypeOK
  <2>2. CASE x # r
    BY <1>1, <1>3, <2>2 DEF Triggered, SafetyInv, SettledStatusIsCurrent
  <2> QED BY <2>1, <2>2
<1>5. InputsAreCurrent'
  <2> SUFFICES ASSUME NEW x \in Registries, Exists(x), x \notin missed, ~Pending(x)'
               PROVE  synced'[x] # NoObject /\ Current(x, synced'[x])
    BY <1>1 DEF InputsAreCurrent, Exists, Current, SourceIn
  <2>1. ~Pending(x)
    BY <1>1 DEF Pending
  <2>2. CASE x = r
    <3>1. synced' = Recorded
      BY <1>2, <2>2 DEF Pending
    <3>2. /\ synced'[r].object = worker.object /\ synced'[r].source = worker.source
          /\ synced'[r] \in Inputs
      BY <1>0, <3>1 DEF Recorded, TypeInv, TypeOK, Job, Inputs
    <3>3. Current(r, worker)
      BY <1>0, <2>1, <2>2 DEF WorkerIsCurrent
    <3> QED BY <2>2, <3>2, <3>3, ControllerAssumption DEF Current
  <2>3. CASE x # r
    BY <1>3, <2>1, <2>3 DEF SafetyInv, InputsAreCurrent
  <2> QED BY <2>2, <2>3
<1> QED BY <1>4, <1>5 DEF SettledInv

(* A delivered event of a RegistryPullSecret becomes a name in the queue. *)
LEMMA DeliverRegistryKeepsSettled ==
    ASSUME SafetyInv, LocalInv', DeliverRegistryEvent
    PROVE  SettledInv'
<1>1. registryEvents \in Seq(Event(Registries, RegistryPullSecret \cup {NoObject}))
  BY DEF SafetyInv, LocalInv, TypeInv, TypeOK
<1> USE DEF SafetyInv, apiVars, DeliverRegistryEvent
<1>2. \A x : Stale(registryEvents, x) <=> Stale(registryEvents', x) \/ x = Head(registryEvents).key
  BY <1>1, DeliverStale
<1>3. SettledStatusIsCurrent'
  BY <1>2 DEF SettledStatusIsCurrent, Triggered, Exists, Busy
<1>4. InputsAreCurrent'
  BY <1>2 DEF InputsAreCurrent, Pending, Exists, Busy, Current, SourceIn
<1> QED BY <1>3, <1>4 DEF SettledInv

(* What an event of a Secret concerns is queued or missed. *)
LEMMA DeliverSecretKeepsSettled ==
    ASSUME SafetyInv, LocalInv', DeliverSecretEvent
    PROVE  SettledInv'
<1>1. TypeInv /\ CachesCoherent
  BY DEF SafetyInv, LocalInv
<1>2. SettledStatusIsCurrent'
  BY <1>1, DeliverSecretFacts DEF SafetyInv, SettledStatusIsCurrent, Triggered, Exists, Busy
<1>3. InputsAreCurrent'
  BY <1>1, DeliverSecretFacts DEF SafetyInv, InputsAreCurrent, Exists, Busy, Current, SourceIn
<1> QED BY <1>2, <1>3 DEF SettledInv

(* After a restart nothing that exists is settled. *)
LEMMA RestartKeepsSettled == Restart => SettledInv'
BY DEF Restart, SettledInv, SettledStatusIsCurrent, Triggered, InputsAreCurrent, Pending, Exists,
       apiVars

(* A written object is announced and so is not settled. *)
LEMMA UsersStoreKeepsSettled ==
    ASSUME SafetyInv, LocalInv', NEW r \in Registries,
           NEW object \in RegistryPullSecret \cup {NoObject}, UsersStore(r, object)
    PROVE  SettledInv'
<1>0. TypeInv /\ CachesCoherent
  BY DEF SafetyInv, LocalInv
<1>1. SettledStatusIsCurrent'
  BY <1>0, UsersStoreFacts DEF UsersStore, SafetyInv, SettledStatusIsCurrent, Triggered, Exists,
                               queueVars
<1>2. InputsAreCurrent'
  BY <1>0, UsersStoreFacts DEF UsersStore, SafetyInv, InputsAreCurrent, Pending, Exists, Current,
                               SourceIn, queueVars
<1> QED BY <1>1, <1>2 DEF SettledInv

(* At the start everything that exists is queued. *)
LEMMA SafetyInit == Init => SafetyInv
<1>1. Init => SettledStatusIsCurrent /\ InputsAreCurrent
  BY DEF Init, SettledStatusIsCurrent, Triggered, InputsAreCurrent, Pending
<1> QED BY <1>1, LocalInit DEF SafetyInv

(* SafetyInv is inductive. *)
LEMMA SafetyStep == SafetyInv /\ [Next]_vars => SafetyInv'
<1> SUFFICES ASSUME SafetyInv, [Next]_vars PROVE SafetyInv'
  OBVIOUS
<1>1. LocalInv /\ LocalInv' /\ TypeInv /\ TypeInv'
  BY LocalStep DEF SafetyInv, LocalInv
<1>2. CASE ReconcilerMoves
  BY <1>1, <1>2, ForgetKeepsSettled, StartKeepsSettled, UpdateStatusKeepsSettled
     DEF ReconcilerMoves, SafetyInv, SettledInv
<1>3. CASE ManagerMoves
  BY <1>1, <1>3, DeliverRegistryKeepsSettled, DeliverSecretKeepsSettled, RestartKeepsSettled
     DEF ManagerMoves, SafetyInv, SettledInv
<1>4. CASE UsersMove
  BY <1>1, <1>4, UsersStoreKeepsSettled DEF UsersMove, SafetyInv, SettledInv
<1>5. CASE Frame
  BY <1>1, <1>5, FrameKeepsSettled DEF SafetyInv, SettledInv
<1> QED BY <1>1, <1>2, <1>3, <1>4, <1>5, KindsOfSteps

(* The caches never depart from the API server, a reconcile that holds the current
   resourceVersion works on the current object, and no trigger is lost. *)
THEOREM SafetyCorrect == Spec => []SafetyInv
BY SafetyInit, SafetyStep, PTL DEF Spec

(* The state always has its types. *)
THEOREM TypesCorrect == Spec => []TypeOK
<1>1. TypeInv => TypeOK
  BY DEF TypeInv
<1> QED
  BY <1>1, TypeCorrect, PTL

(* When nothing is left to do for a RegistryPullSecret, its status reports the
   success of a reconcile of its current generation (Reconcile lines 88-91). *)
THEOREM SettledStatusCorrect == Spec => []SettledStatusIsCurrent
<1>1. SafetyInv => SettledStatusIsCurrent
  BY DEF SafetyInv
<1> QED
  BY <1>1, SafetyCorrect, PTL

(* The last change of a RegistryPullSecret and of its credentials Secret was read by
   the last success, is being worked on or is announced, unless a failing List of the
   watch's map function swallowed it (registryPullSecretsForSecret). *)
THEOREM NoLostTriggerCorrect == Spec => []NoLostTrigger
<1>1. SafetyInv => NoLostTrigger
  BY DEF NoLostTrigger, SafetyInv, LocalInv, WorkerIsCurrent, InputsAreCurrent, Pending
<1> QED
  BY <1>1, SafetyCorrect, PTL

(* What a status may become: unset, or of the object's present generation *)
HonestStatus ==
    \A r \in Registries : status'[r] # status[r] /\ status'[r] # NoStatus =>
        status'[r].observedGeneration = registryPullSecrets[r].generation

(* The reconciler stores a status only with the current resourceVersion, and its worker then
   has the current object. *)
LEMMA StatusStep ==
    ASSUME LocalInv, [Next]_vars
    PROVE  HonestStatus
<1> USE DEF HonestStatus
<1>1. CASE UNCHANGED status
  BY <1>1
<1>2. CASE UpdateStatus
  <2>1. worker \in Job
    BY <1>2 DEF UpdateStatus, Finished, Idle, LocalInv, TypeInv, TypeOK
  <2>2. CASE StoreStatus /\ StatusAccepted
    <3>1. worker.registry \in Registries /\ worker.object = registryPullSecrets[worker.registry]
      BY <2>1, <2>2 DEF Job, StatusAccepted, LocalInv, FreshIsCurrent
    <3> QED BY <2>2, <3>1 DEF StoreStatus, LocalInv, TypeInv, TypeOK
  <2> QED BY <1>1, <1>2, <2>2 DEF UpdateStatus
<1>3. CASE \E r \in Registries : DeleteRegistry(r)
  BY <1>3 DEF DeleteRegistry, LocalInv, TypeInv, TypeOK
<1>4. UNCHANGED status \/ UpdateStatus \/ \E r \in Registries : DeleteRegistry(r)
  BY DEF Next, vars, apiVars, Reconciler, Manager, Users, ForgetDeleted, StartReconcile, GetFails,
         ReadFails, Plan, ApplySecret, DeleteSecret, DeliverRegistryEvent, DeliverSecretEvent,
         RefreshPolicy, RefreshNamespaces, BackoffExpires, Restart, CreateRegistry, EditRegistry,
         EditPolicy, CreateNamespace, TerminateNamespace, FinalizeNamespace, PurgeSecret,
         PutSecret, RemoveSecret
<1> QED BY <1>1, <1>2, <1>3, <1>4

(* A status write carries the generation the object has at that moment, although
   the reconcile worked from a cached copy (updateRegistryPullSecretStatus). *)
THEOREM StatusGenerationCorrect == Spec => StatusOfCurrentGeneration
<1>1. SafetyInv /\ [Next]_vars => HonestStatus
  BY StatusStep DEF SafetyInv
<1>2. HonestStatus => [\A r \in Registries : status'[r] # status[r] /\ status'[r] # NoStatus =>
                         status'[r].observedGeneration = registryPullSecrets[r].generation]_vars
  BY DEF HonestStatus
<1> QED
  BY <1>1, <1>2, SafetyCorrect, PTL DEF Spec, StatusOfCurrentGeneration
=============================================================================

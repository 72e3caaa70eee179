---------------------- MODULE RegistryPullSecretSharing ----------------------
(* What a manager makes of the Secrets of the cluster when it is not the only one at
   work, proved for any cluster: whatever it overwrites or deletes from an outdated plan
   it has to come back to, because what outdated the plan is still announced to it. *)
EXTENDS RegistryPullSecretReplicas

(* The namespaces there are, whatever their phase *)
Present == {n \in Namespaces : namespaces[n] # "absent"}

(* What a reconcile of r would read if it read everything at this moment *)
Demand(r) ==
    [object    |-> registryPullSecrets[r],
     source    |-> SourceIn(secrets, registryPullSecrets[r].spec),
     excluded  |-> ExcludedNamespaces(policy),
     inventory |-> Present]

Wanted(r) == TargetsOf(Demand(r))

(* Is secret what r calls for at this moment under this key? *)
RightFor(r, key, secret) ==
    IF key \in Wanted(r)
    THEN namespaces[key[1]] = "active" => secret = BuildPullSecret(r, CredentialsOf(Demand(r)))
    ELSE ~OwnedBy(secret, r)

Right(r, key) == RightFor(r, key, secrets[key])

(* A reconcile of r that has yet to look, or that is to follow, or that is to be
   retried, is still to come. *)
Attended(r) == Pending(r) \/ r \in missed

Coming(r) == Attended(r) \/ (Busy(r) /\ worker.step # "sync")

(* The reconcile in the worker works from the present inputs, and whatever is not right
   is on its lists. *)
Covering(r) ==
    /\ Busy(r) /\ Syncing /\ Current(r, worker)
    /\ \A key \in Keys \ (worker.toApply \cup worker.toDelete) : Right(r, key)

(* Everything is right, and the last success and the status say so. *)
Standing(r) ==
    /\ synced[r] # NoObject /\ Current(r, synced[r])
    /\ CredentialsOf(Demand(r)) \in Credentials
    /\ \A key \in Keys : Right(r, key)
    /\ status[r].observedGeneration = registryPullSecrets[r].generation
    /\ status[r].reason = "Synced"

-----------------------------------------------------------------------------
(* Territory gives each RegistryPullSecret the Secrets that it alone may claim. *)
Apart(Territory) ==
    \A r1, r2 \in Registries : r1 # r2 => Territory[r1] \cap Territory[r2] = {}

(* What is read of the policy and of the namespaces is the present policy, and no fewer
   namespaces than there are. *)
ViewOf(inputs) ==
    inputs.excluded = ExcludedNamespaces(policy) /\ Present \subseteq inputs.inventory

ManagerView ==
    /\ cachedPolicy = policy
    /\ \A n \in Present : cachedNamespaces[n] # "absent"
    /\ worker \in Job => worker.excluded = ExcludedNamespaces(policy)
    /\ Syncing => Present \subseteq worker.inventory

(* The lists of a reconcile name what it may write, and only targets are written. *)
PlanWithin(Territory) ==
    Syncing =>
        /\ worker.toApply \subseteq TargetsOf(worker)
        /\ worker.toDelete \cap TargetsOf(worker) = {}
        /\ worker.toApply \cup worker.toDelete \subseteq Territory[worker.registry]

(* What holds of the cluster, whoever works on it *)
SharedView(Territory) ==
    /\ \A r \in Registries : synced[r] # NoObject => ViewOf(synced[r])
    /\ \A key \in Keys : namespaces[key[1]] = "absent" => secrets[key] = NoObject
    /\ \A key \in Keys, r \in Registries : OwnedBy(secrets[key], r) => key \in Territory[r]

(* What holds of one manager at its work on it *)
SharingInv(Territory) ==
    LocalInv /\ JobInv /\ ManagerView /\ PlanWithin(Territory) /\ SharedView(Territory)

(* The policy stays and no namespace is added: two managers that plan for different
   clusters would undo each other's work, and neither would be called back. *)
Steady == policy' = policy /\ Present' \subseteq Present

(* Users neither write the operator's labels nor touch what carries them, but for the
   Secrets of a namespace that is being deleted. *)
UsersLeaveLabelled ==
    \A key \in Keys, r \in Registries : secrets'[key] # secrets[key] =>
        /\ ~OwnedBy(secrets'[key], r)
        /\ namespaces[key[1]] = "active" => ~OwnedBy(secrets[key], r)

(* Nothing is selected that another RegistryPullSecret may claim. *)
PlansWithin(Territory) ==
    Plan /\ Syncing' => TargetsOf(worker') \subseteq Territory[worker'.registry]

(* A step of the manager, or of users who keep to what is relied upon *)
Move(Territory) ==
    /\ Reconciler \/ Manager \/ (Users /\ UsersLeaveLabelled)
    /\ Steady /\ ListsCurrent /\ PlansWithin(Territory)

-----------------------------------------------------------------------------
(* Fewer namespaces, fewer targets, and none moves. *)
LEMMA TargetsShrink ==
    ASSUME NEW selection, NEW server, NEW excluded, NEW more, NEW fewer \in SUBSET more
    PROVE  \A key : key \in EffectiveTargets(selection, server, excluded, fewer)
                 <=> key \in EffectiveTargets(selection, server, excluded, more) /\ key[1] \in fewer
BY DEF EffectiveTargets

(* A reconcile that has read the present inputs wants what is called for, wherever there
   still is a namespace. *)
LEMMA WantedOf ==
    ASSUME NEW r, NEW inputs, Current(r, inputs), ViewOf(inputs)
    PROVE  /\ CredentialsOf(inputs) = CredentialsOf(Demand(r))
           /\ \A key : key \in Wanted(r) <=> key \in TargetsOf(inputs) /\ key[1] \in Present
<1>1. /\ inputs.object = registryPullSecrets[r]
      /\ inputs.source = SourceIn(secrets, registryPullSecrets[r].spec)
      /\ inputs.excluded = ExcludedNamespaces(policy)
      /\ Present \in SUBSET inputs.inventory
  BY DEF Current, ViewOf
<1>2. CredentialsOf(inputs) = CredentialsOf(Demand(r))
  BY <1>1 DEF CredentialsOf, Demand
<1> DEFINE selection == registryPullSecrets[r].spec.namespaces
           server == CredentialsOf(inputs).server
           excluded == ExcludedNamespaces(policy)
<1>3. /\ TargetsOf(inputs) = EffectiveTargets(selection, server, excluded, inputs.inventory)
      /\ Wanted(r) = EffectiveTargets(selection, server, excluded, Present)
  BY <1>1, <1>2 DEF TargetsOf, Wanted, Demand
<1> HIDE DEF selection, server, excluded
<1> QED BY <1>1, <1>2, <1>3, TargetsShrink

(* What is called for stays the same, but for namespaces that go away. *)
LEMMA WantedKept ==
    ASSUME NEW r, registryPullSecrets'[r] = registryPullSecrets[r],
           SourceIn(secrets, registryPullSecrets[r].spec)'
             = SourceIn(secrets, registryPullSecrets[r].spec),
           Steady
    PROVE  /\ CredentialsOf(Demand(r))' = CredentialsOf(Demand(r))
           /\ \A key : key \in Wanted(r)' <=> key \in Wanted(r) /\ key[1] \in Present'
<1>1. PICK here : here = Present /\ Present' \in SUBSET here
  BY DEF Steady
<1>2. CredentialsOf(Demand(r))' = CredentialsOf(Demand(r))
  BY DEF CredentialsOf, Demand
<1> DEFINE selection == registryPullSecrets[r].spec.namespaces
           server == CredentialsOf(Demand(r)).server
           excluded == ExcludedNamespaces(policy)
<1>3. PICK sel, ser, exc : sel = selection /\ ser = server /\ exc = excluded
  OBVIOUS
<1>4. Wanted(r) = EffectiveTargets(sel, ser, exc, here)
  BY <1>1, <1>3 DEF TargetsOf, Wanted, Demand
<1>5. selection' = sel /\ server' = ser /\ excluded' = exc
  BY <1>2, <1>3 DEF Steady, ExcludedNamespaces
<1>6. Wanted(r)' = EffectiveTargets(sel, ser, exc, Present')
  BY <1>5 DEF TargetsOf, Wanted, Demand
<1> QED BY <1>1, <1>2, <1>4, <1>6, TargetsShrink

(* No namespace comes to life, and none goes before it is empty. *)
LEMMA NamespaceMoves ==
    ASSUME TypeInv, [Next]_vars, Steady, NEW n \in Namespaces
    PROVE  /\ namespaces'[n] = "active" => namespaces[n] = "active"
           /\ namespaces'[n] = "absent" /\ namespaces[n] # "absent" =>
                /\ secrets' = secrets
                /\ \A key \in Keys : key[1] = n => secrets[key] = NoObject
<1>0. namespaces \in [Namespaces -> NamespacePhases]
  BY DEF TypeInv, TypeOK
<1>1. CASE namespaces' = namespaces
  BY <1>1
<1>2. ASSUME NEW x \in Namespaces, CreateNamespace(x) PROVE FALSE
  <2>1. namespaces[x] = "absent" /\ namespaces'[x] = "active"
    BY <1>0, <1>2 DEF CreateNamespace
  <2> QED BY <2>1 DEF Steady, Present
<1>3. ASSUME NEW x \in Namespaces, TerminateNamespace(x)
      PROVE  namespaces' = [namespaces EXCEPT ![x] = "terminating"] /\ secrets' = secrets
  BY <1>3 DEF TerminateNamespace
<1>4. ASSUME NEW x \in Namespaces, FinalizeNamespace(x)
      PROVE  /\ namespaces' = [namespaces EXCEPT ![x] = "absent"] /\ secrets' = secrets
             /\ \A key \in Keys : key[1] = x => secrets[key] = NoObject
  BY <1>4 DEF FinalizeNamespace
<1>5. \/ namespaces' = namespaces
      \/ \E x \in Namespaces : CreateNamespace(x) \/ TerminateNamespace(x) \/ FinalizeNamespace(x)
  BY DEF Next, Reconciler, Manager, Users, vars, apiVars, ForgetDeleted, StartReconcile, GetFails,
         ReadFails, Plan, UpdateStatus, ApplySecret, DeleteSecret, DeliverRegistryEvent,
         DeliverSecretEvent, RefreshPolicy, RefreshNamespaces, BackoffExpires, Restart,
         CreateRegistry, EditRegistry, DeleteRegistry, EditPolicy, PurgeSecret, PutSecret,
         RemoveSecret
<1> QED BY <1>0, <1>1, <1>2, <1>3, <1>4, <1>5

(* What is right stays right as long as it is called for. *)
LEMMA RightKept ==
    ASSUME TypeInv, [Next]_vars, Steady, NEW r \in Registries, NEW key \in Keys, NEW secret,
           registryPullSecrets'[r] = registryPullSecrets[r],
           SourceIn(secrets, registryPullSecrets[r].spec)'
             = SourceIn(secrets, registryPullSecrets[r].spec),
           RightFor(r, key, secret),
           namespaces'[key[1]] = "absent" => ~OwnedBy(secret, r)
    PROVE  RightFor(r, key, secret)'
<1>1. key[1] \in Namespaces
  BY DEF Keys
<1>2. namespaces'[key[1]] = "active" => namespaces[key[1]] = "active"
  BY <1>1, NamespaceMoves
<1>3. key[1] \notin Present' => namespaces'[key[1]] = "absent"
  BY <1>1 DEF Present
<1>4. PICK credentials, wanted : credentials = CredentialsOf(Demand(r)) /\ wanted = Wanted(r)
  OBVIOUS
<1>5. /\ CredentialsOf(Demand(r))' = credentials
      /\ key \in Wanted(r)' <=> key \in wanted /\ key[1] \in Present'
  BY <1>4, WantedKept
<1> QED BY <1>2, <1>3, <1>4, <1>5 DEF RightFor

(* The operator changes a Secret as its plan says, and where there is a namespace. *)
LEMMA OwnWrites ==
    ASSUME NEW Territory, SharingInv(Territory), Reconciler \/ Manager,
           NEW key \in Keys, secrets'[key] # secrets[key]
    PROVE  /\ namespaces[key[1]] # "absent" /\ namespaces' = namespaces
           /\ worker \in Job /\ worker.step = "sync" /\ worker.credentials \in Credentials
           /\ \/ /\ key \in worker.toApply
                 /\ secrets'[key] = BuildPullSecret(worker.registry, worker.credentials)
              \/ /\ key \in worker.toDelete /\ secrets'[key] = NoObject
<1>0. TypeInv /\ secrets \in [Keys -> Secret \cup {NoObject}]
  BY DEF SharingInv, LocalInv, TypeInv, TypeOK
<1>1. namespaces[key[1]] = "absent" => secrets[key] = NoObject
  BY DEF SharingInv, SharedView
<1>2. ASSUME NEW target \in Keys, NEW object, WriteSecret(target, object)
      PROVE  target = key /\ object = secrets'[key]
  BY <1>0, <1>2 DEF WriteSecret
<1>3. ASSUME NEW target \in Keys, ApplySecret(target)
      PROVE  /\ namespaces[key[1]] # "absent" /\ namespaces' = namespaces
             /\ worker \in Job /\ worker.step = "sync" /\ worker.credentials \in Credentials
             /\ key \in worker.toApply
             /\ secrets'[key] = BuildPullSecret(worker.registry, worker.credentials)
  <2> DEFINE object == BuildPullSecret(worker.registry, worker.credentials)
  <2>1. Accepted(target, object) /\ WriteSecret(target, object)
    BY <1>3 DEF ApplySecret
  <2>2. target = key /\ object = secrets'[key]
    BY <1>2, <2>1
  <2>3. worker \in Job /\ worker.step = "sync" /\ worker.credentials \in Credentials
    BY <1>0, <1>3 DEF ApplySecret, TypeInv, TypeOK, CredentialsResolved, Idle
  <2>4. namespaces[key[1]] # "absent"
    <3>1. CASE cachedSecrets[key] = NoObject
      BY <2>1, <2>2, <3>1 DEF Accepted
    <3>2. CASE cachedSecrets[key] # NoObject
      <4>1. ~Stale(secretEvents, key)
        BY <2>1, <2>2, <3>2 DEF Accepted
      <4>2. cachedSecrets[key] = secrets[key]
        BY <1>0, <4>1 DEF SharingInv, LocalInv, CachesCoherent, Coherent
      <4> QED BY <1>1, <3>2, <4>2
    <3> QED BY <3>1, <3>2
  <2> QED BY <1>3, <2>2, <2>3, <2>4 DEF ApplySecret
<1>4. ASSUME NEW target \in Keys, DeleteSecret(target)
      PROVE  /\ namespaces[key[1]] # "absent" /\ namespaces' = namespaces
             /\ worker \in Job /\ worker.step = "sync" /\ worker.credentials \in Credentials
             /\ key \in worker.toDelete /\ secrets'[key] = NoObject
  <2>1. WriteSecret(target, NoObject)
    BY <1>4 DEF DeleteSecret
  <2>2. target = key /\ NoObject = secrets'[key]
    BY <1>2, <2>1
  <2>3. worker \in Job /\ worker.step = "sync" /\ worker.credentials \in Credentials
    BY <1>0, <1>4 DEF DeleteSecret, DeletionsTurn, TypeInv, TypeOK, CredentialsResolved, Idle
  <2> QED BY <1>1, <1>4, <2>2, <2>3 DEF DeleteSecret
<1>5. \E target \in Keys : ApplySecret(target) \/ DeleteSecret(target)
  BY DEF Reconciler, Manager, ForgetDeleted, StartReconcile, GetFails, ReadFails, Plan,
         UpdateStatus, DeliverRegistryEvent, DeliverSecretEvent, RefreshPolicy,
         RefreshNamespaces, BackoffExpires, Restart, apiVars
<1> QED BY <1>3, <1>4, <1>5

(* So do users. *)
LEMMA UsersWrites ==
    ASSUME NEW Territory, SharingInv(Territory), Users,
           NEW key \in Keys, secrets'[key] # secrets[key]
    PROVE  namespaces[key[1]] # "absent" /\ namespaces' = namespaces
<1>0. TypeInv /\ secrets \in [Keys -> Secret \cup {NoObject}]
  BY DEF SharingInv, LocalInv, TypeInv, TypeOK
<1>1. namespaces[key[1]] = "absent" => secrets[key] = NoObject
  BY DEF SharingInv, SharedView
<1>2. ASSUME NEW target \in Keys, NEW object, WriteSecret(target, object)
      PROVE  target = key /\ object = secrets'[key]
  BY <1>0, <1>2 DEF WriteSecret
<1>3. ASSUME NEW target \in Keys, NEW object, PutSecret(target, object)
      PROVE  namespaces[key[1]] # "absent" /\ namespaces' = namespaces
  <2>1. WriteSecret(target, object)
    BY <1>3 DEF PutSecret
  <2>2. target = key
    BY <1>2, <2>1
  <2> QED BY <1>3, <2>2 DEF PutSecret
<1>4. ASSUME NEW target \in Keys, PurgeSecret(target) \/ RemoveSecret(target)
      PROVE  namespaces[key[1]] # "absent" /\ namespaces' = namespaces
  <2>1. WriteSecret(target, NoObject) /\ secrets[target] # NoObject
    BY <1>4 DEF PurgeSecret, RemoveSecret
  <2>2. target = key
    BY <1>2, <2>1
  <2> QED BY <1>1, <1>4, <2>1, <2>2 DEF PurgeSecret, RemoveSecret
<1>5. \/ \E write \in UserWrites : PutSecret(write.key, write.object)
      \/ \E target \in Keys : PurgeSecret(target)
      \/ \E target \in UserDeletes : RemoveSecret(target)
  BY DEF Users, CreateRegistry, EditRegistry, DeleteRegistry, EditPolicy, CreateNamespace,
         TerminateNamespace, FinalizeNamespace
<1> QED BY <1>3, <1>4, <1>5, ControllerAssumption

-----------------------------------------------------------------------------
(* What managers share keeps its shape, whoever moves. *)
LEMMA SharedViewStep ==
    ASSUME NEW Territory, SharingInv(Territory), Move(Territory)
    PROVE  SharedView(Territory)'
<1>0. /\ TypeInv /\ CachesCoherent /\ [Next]_vars /\ Steady
      /\ Reconciler \/ Manager \/ Users
  BY DEF SharingInv, LocalInv, Move, Next
<1>1. ASSUME NEW r \in Registries, synced'[r] # NoObject PROVE ViewOf(synced[r])'
  <2>1. \/ synced'[r] = synced[r]
        \/ UpdateStatus /\ synced' = Recorded /\ worker.result = "Synced"
    <3>1. CASE UpdateStatus
      BY <1>0, <3>1, UpdateStatusFacts
    <3>2. CASE \E x \in Registries : DeleteRegistry(x)
      BY <1>0, <1>1, <3>2 DEF DeleteRegistry, TypeInv, TypeOK
    <3>3. UpdateStatus \/ (\E x \in Registries : DeleteRegistry(x)) \/ synced' = synced
      BY <1>0
         DEF Reconciler, Manager, Users, ForgetDeleted, StartReconcile, GetFails, ReadFails, Plan,
             ApplySecret, DeleteSecret, DeliverRegistryEvent, DeliverSecretEvent, RefreshPolicy,
             RefreshNamespaces, BackoffExpires, Restart, CreateRegistry, EditRegistry, EditPolicy,
             CreateNamespace, TerminateNamespace, FinalizeNamespace, PurgeSecret, PutSecret,
             RemoveSecret
    <3> QED BY <3>1, <3>2, <3>3
  <2>2. ViewOf(synced'[r])
    <3>1. CASE synced'[r] = synced[r]
      BY <1>1, <3>1 DEF SharingInv, SharedView
    <3>2. CASE UpdateStatus /\ synced' = Recorded /\ worker.result = "Synced"
      <4>1. worker \in Job
        BY <1>0, <3>2, UpdateStatusFacts
      <4>2. Syncing
        BY <3>2, <4>1 DEF UpdateStatus, Finished, SharingInv, JobInv, Syncing
      <4>3. \/ synced'[r] = synced[r]
            \/ synced'[r].excluded = worker.excluded /\ synced'[r].inventory = worker.inventory
        BY <1>0, <3>2 DEF Recorded, TypeInv, TypeOK
      <4> QED BY <3>1, <4>1, <4>2, <4>3 DEF SharingInv, ManagerView, ViewOf
    <3> QED BY <2>1, <3>1, <3>2
  <2> QED BY <1>0, <2>2 DEF ViewOf, Steady, ExcludedNamespaces
<1>2. ASSUME NEW key \in Keys, namespaces'[key[1]] = "absent" PROVE secrets'[key] = NoObject
  <2>1. key[1] \in Namespaces
    BY DEF Keys
  <2>2. CASE namespaces[key[1]] = "absent"
    <3>1. secrets[key] = NoObject
      BY <2>2 DEF SharingInv, SharedView
    <3> QED BY <1>0, <2>2, <3>1, OwnWrites, UsersWrites
  <2>3. CASE namespaces[key[1]] # "absent"
    BY <1>0, <1>2, <2>1, <2>3, NamespaceMoves
  <2> QED BY <2>2, <2>3
<1>3. ASSUME NEW key \in Keys, NEW r \in Registries, OwnedBy(secrets'[key], r)
      PROVE  key \in Territory[r]
  <2>1. CASE secrets'[key] = secrets[key]
    BY <1>3, <2>1 DEF SharingInv, SharedView
  <2>2. CASE secrets'[key] # secrets[key]
    <3>1. CASE Users /\ UsersLeaveLabelled
      BY <1>3, <2>2, <3>1 DEF UsersLeaveLabelled
    <3>2. CASE Reconciler \/ Manager
      <4>2. /\ worker \in Job /\ worker.step = "sync" /\ worker.credentials \in Credentials
            /\ \/ /\ key \in worker.toApply
                  /\ secrets'[key] = BuildPullSecret(worker.registry, worker.credentials)
               \/ /\ key \in worker.toDelete /\ secrets'[key] = NoObject
        BY <2>2, <3>2, OwnWrites
      <4>3. worker.registry \in Registries /\ ~OwnedBy(NoObject, r)
        BY <4>2 DEF Job, OwnedBy
      <4>4. r = worker.registry /\ key \in worker.toApply
        BY <1>3, <4>2, <4>3, BuiltIsOwned
      <4> QED BY <4>2, <4>4 DEF SharingInv, PlanWithin, Syncing
    <3> QED BY <3>1, <3>2 DEF Move
  <2> QED BY <2>1, <2>2
<1> QED BY <1>1, <1>2, <1>3 DEF SharedView
-----------------------------------------------------------------------------
(* A manager plans with what it has read, and that stays in view: the policy as it is,
   and no namespace less than there are. *)
LEMMA ManagerViewStep ==
    ASSUME NEW Territory, SharingInv(Territory), Move(Territory)
    PROVE  ManagerView'
<1>0. /\ TypeInv /\ ManagerView /\ [Next]_vars
      /\ policy' = policy /\ Present' \subseteq Present
  BY DEF SharingInv, LocalInv, Move, Steady, Next
<1>i. Idle \notin Job
  BY DEF Idle, Job
<1>1. cachedPolicy' = cachedPolicy \/ cachedPolicy' = policy
  BY <1>0 DEF Next, Reconciler, Manager, Users, vars, cacheVars, ForgetDeleted, StartReconcile,
         GetFails, ReadFails, Plan, UpdateStatus, ApplySecret, DeleteSecret, DeliverRegistryEvent,
         DeliverSecretEvent, RefreshPolicy, RefreshNamespaces, BackoffExpires, Restart,
         CreateRegistry, EditRegistry, DeleteRegistry, EditPolicy, CreateNamespace,
         TerminateNamespace, FinalizeNamespace, PurgeSecret, PutSecret, RemoveSecret
<1>2. cachedNamespaces' = cachedNamespaces \/ cachedNamespaces' = namespaces
  BY <1>0 DEF Next, Reconciler, Manager, Users, vars, cacheVars, ForgetDeleted, StartReconcile,
         GetFails, ReadFails, Plan, UpdateStatus, ApplySecret, DeleteSecret, DeliverRegistryEvent,
         DeliverSecretEvent, RefreshPolicy, RefreshNamespaces, BackoffExpires, Restart,
         CreateRegistry, EditRegistry, DeleteRegistry, EditPolicy, CreateNamespace,
         TerminateNamespace, FinalizeNamespace, PurgeSecret, PutSecret, RemoveSecret
<1>3. \A n \in Present : cachedNamespaces'[n] # "absent"
  BY <1>0, <1>2 DEF ManagerView, Present
<1>e. ExcludedNamespaces(policy)' = ExcludedNamespaces(policy)
  BY <1>0 DEF ExcludedNamespaces
<1>4. /\ worker' \in Job => worker'.excluded = ExcludedNamespaces(policy)
      /\ Syncing' => Present \subseteq worker'.inventory
  <2>1. CASE worker' = worker
    BY <1>0, <2>1 DEF ManagerView, Syncing
  <2>2. CASE worker' = Idle
    BY <1>i, <2>2 DEF Syncing
  <2>3. ASSUME NEW r \in Registries, StartReconcile(r)
        PROVE  worker'.excluded = ExcludedNamespaces(policy) /\ ~Syncing'
    BY <1>0, <2>3 DEF StartReconcile, ManagerView, Syncing
  <2>4. CASE Plan
    <3>1. worker \in Job
      BY <1>0, <2>4 DEF Plan, Idle, TypeInv, TypeOK
    <3>2. /\ worker'.excluded = worker.excluded
          /\ Syncing' => worker'.inventory = {n \in Namespaces : cachedNamespaces[n] # "absent"}
      BY <2>4, <3>1 DEF Plan, Syncing, Job
    <3> QED BY <1>0, <3>1, <3>2 DEF ManagerView, Present
  <2>5. CASE worker \in Job /\ worker' = Failed
    <3>1. worker'.excluded = worker.excluded /\ worker'.step = "status"
      BY <2>5 DEF Failed, Job
    <3> QED BY <1>0, <2>5, <3>1 DEF ManagerView, Syncing
  <2>6. CASE worker \in Job /\ worker' = [worker EXCEPT !.fresh = FALSE]
    <3>1. /\ worker'.excluded = worker.excluded /\ worker'.step = worker.step
          /\ worker'.inventory = worker.inventory
      BY <2>6 DEF Job
    <3> QED BY <1>0, <2>6, <3>1 DEF ManagerView, Syncing
  <2>7. ASSUME NEW key \in Keys, worker \in Job, worker.step = "sync",
               \/ worker' = [worker EXCEPT !.toApply = @ \ {key}, !.applied = @ + 1]
               \/ worker' = [worker EXCEPT !.toDelete = @ \ {key}, !.deleted = @ + 1]
        PROVE  /\ worker'.excluded = ExcludedNamespaces(policy)
               /\ Present \subseteq worker'.inventory
    <3>1. worker'.excluded = worker.excluded /\ worker'.inventory = worker.inventory
      BY <2>7 DEF Job
    <3> QED BY <1>0, <2>7, <3>1 DEF ManagerView, Syncing
  <2> QED BY <1>0, <2>1, <2>2, <2>3, <2>4, <2>5, <2>6, <2>7, WorkerStep DEF WorkerMoves
<1>5. cachedPolicy' = policy'
  BY <1>0, <1>1 DEF ManagerView
<1>6. \A n \in Present' : cachedNamespaces'[n] # "absent"
  BY <1>0, <1>3
<1>7. /\ worker' \in Job => worker'.excluded = ExcludedNamespaces(policy)'
      /\ Syncing' => Present' \subseteq worker'.inventory
  BY <1>0, <1>4, <1>e
<1> QED BY <1>5, <1>6, <1>7 DEF ManagerView

(* A list only gets shorter, and what it lists stays what it was. *)
LEMMA ListsShrink ==
    ASSUME NEW Territory, PlanWithin(Territory), Syncing,
           worker'.object = worker.object, worker'.source = worker.source,
           worker'.excluded = worker.excluded, worker'.inventory = worker.inventory,
           worker'.registry = worker.registry,
           worker'.toApply \subseteq worker.toApply, worker'.toDelete \subseteq worker.toDelete
    PROVE  PlanWithin(Territory)'
<1>1. PICK t : t = TargetsOf(worker)
  OBVIOUS
<1>2. TargetsOf(worker)' = t
  BY <1>1 DEF TargetsOf, CredentialsOf
<1>3. PICK own : own = Territory[worker.registry]
  OBVIOUS
<1>4. /\ worker.toApply \subseteq t /\ worker.toDelete \cap t = {}
      /\ worker.toApply \cup worker.toDelete \subseteq own
  BY <1>1, <1>3 DEF PlanWithin
<1>5. Territory[worker'.registry] = own
  BY <1>3
<1> QED BY <1>2, <1>4, <1>5 DEF PlanWithin

(* A plan made from an up-to-date list keeps to the territory: it applies targets and
   deletes what carries the labels of its own RegistryPullSecret. *)
LEMMA PlanWithinStep ==
    ASSUME NEW Territory, SharingInv(Territory), Move(Territory)
    PROVE  PlanWithin(Territory)'
<1>0. TypeInv /\ PlanWithin(Territory) /\ JobInv /\ [Next]_vars
  BY DEF SharingInv, LocalInv, Move, Next
<1>i. Idle \notin Job
  BY DEF Idle, Job
<1>1. CASE worker' = worker
  <2>1. CASE Syncing
    BY <1>0, <1>1, <2>1, ListsShrink
  <2> QED BY <1>1, <2>1 DEF PlanWithin, Syncing
<1>2. CASE worker' = Idle
  BY <1>2, <1>i DEF PlanWithin, Syncing
<1>3. ASSUME NEW r \in Registries, StartReconcile(r) PROVE PlanWithin(Territory)'
  BY <1>3 DEF StartReconcile, PlanWithin, Syncing
<1>4. ASSUME Plan, Syncing' PROVE PlanWithin(Territory)'
  <2> DEFINE r == worker.registry
             inventory == {n \in Namespaces : cachedNamespaces[n] # "absent"}
             targets == EffectiveTargets(worker.object.spec.namespaces, worker.credentials.server,
                                         worker.excluded, inventory)
  <2>1. worker \in Job /\ r \in Registries
    BY <1>0, <1>4 DEF Plan, Idle, Job, TypeInv, TypeOK
  <2>2. /\ worker'.registry = r /\ worker'.object = worker.object
        /\ worker'.source = worker.source /\ worker'.excluded = worker.excluded
        /\ worker'.inventory = inventory
        /\ worker'.toApply \subseteq targets
        /\ worker'.toDelete = ObsoleteSecrets(r, cachedSecrets, targets)
    BY <1>4, <2>1 DEF Syncing, Plan, Job
  <2>3. TargetsOf(worker)' = targets
    BY <1>0, <2>1, <2>2 DEF TargetsOf, CredentialsOf, JobInv
  <2>4. targets \subseteq Territory[r]
    BY <1>4, <2>2, <2>3 DEF Move, PlansWithin, TargetsOf, CredentialsOf
  <2>5. \A key \in worker'.toDelete :
          key \in Keys /\ key \notin targets /\ OwnedBy(cachedSecrets[key], r)
    BY <2>2 DEF ObsoleteSecrets
  <2>6. \A key \in Keys : cachedSecrets[key] = secrets[key]
    BY <1>4 DEF Move, ListsCurrent
  <2>7. worker'.toDelete \subseteq Territory[r]
    BY <2>1, <2>5, <2>6 DEF SharingInv, SharedView
  <2> HIDE DEF targets
  <2> QED BY <2>2, <2>3, <2>4, <2>5, <2>7 DEF PlanWithin
<1>5. CASE worker \in Job /\ worker' = Failed
  BY <1>5 DEF Failed, Job, PlanWithin, Syncing
<1>6. CASE worker \in Job /\ worker' = [worker EXCEPT !.fresh = FALSE]
  <2>1. /\ worker'.object = worker.object /\ worker'.source = worker.source
        /\ worker'.excluded = worker.excluded /\ worker'.inventory = worker.inventory
        /\ worker'.registry = worker.registry /\ worker'.step = worker.step
        /\ worker'.toApply = worker.toApply /\ worker'.toDelete = worker.toDelete
    BY <1>6 DEF Job
  <2>2. CASE Syncing
    BY <1>0, <2>1, <2>2, ListsShrink
  <2> QED BY <1>6, <2>1, <2>2 DEF PlanWithin, Syncing
<1>7. ASSUME NEW key \in Keys, worker \in Job, worker.step = "sync",
             \/ worker' = [worker EXCEPT !.toApply = @ \ {key}, !.applied = @ + 1]
             \/ worker' = [worker EXCEPT !.toDelete = @ \ {key}, !.deleted = @ + 1]
      PROVE  PlanWithin(Territory)'
  <2>1. /\ worker'.object = worker.object /\ worker'.source = worker.source
        /\ worker'.excluded = worker.excluded /\ worker'.inventory = worker.inventory
        /\ worker'.registry = worker.registry
    BY <1>7 DEF Job
  <2>2. worker'.toApply \subseteq worker.toApply /\ worker'.toDelete \subseteq worker.toDelete
    <3>1. CASE worker' = [worker EXCEPT !.toApply = @ \ {key}, !.applied = @ + 1]
      <4>1. worker'.toApply = worker.toApply \ {key} /\ worker'.toDelete = worker.toDelete
        BY <1>7, <3>1 DEF Job
      <4> QED BY <4>1
    <3>2. CASE worker' = [worker EXCEPT !.toDelete = @ \ {key}, !.deleted = @ + 1]
      <4>1. worker'.toDelete = worker.toDelete \ {key} /\ worker'.toApply = worker.toApply
        BY <1>7, <3>2 DEF Job
      <4> QED BY <4>1
    <3> QED BY <1>7, <3>1, <3>2
  <2> QED BY <1>0, <1>7, <2>1, <2>2, ListsShrink DEF Syncing
<1>8. CASE ~Syncing'
  BY <1>8 DEF PlanWithin
<1> QED BY <1>0, <1>1, <1>2, <1>3, <1>4, <1>5, <1>6, <1>7, <1>8, WorkerStep DEF WorkerMoves

(* So a manager that takes a step keeps what holds of it. *)
LEMMA SharingStep ==
    ASSUME NEW Territory, SharingInv(Territory), Move(Territory)
    PROVE  SharingInv(Territory)'
<1>1. TypeInv /\ LocalInv /\ JobInv /\ [Next]_vars
  BY DEF SharingInv, LocalInv, Move, Next
<1>2. LocalInv' /\ JobInv'
  BY <1>1, LocalStep, JobStep
<1> QED BY <1>2, ManagerViewStep, PlanWithinStep, SharedViewStep DEF SharingInv

(* And so does one that hears of a step: the plan in its worker stays. *)
LEMMA SharingHeard ==
    ASSUME NEW Territory, SharingInv(Territory), Heard, Steady,
           SharedOK', SyncedExists', SharedView(Territory)'
    PROVE  SharingInv(Territory)'
<1>0. LocalInv /\ JobInv /\ ManagerView /\ PlanWithin(Territory)
  BY DEF SharingInv
<1>1. LocalInv'
  BY <1>0, HeardKeepsLocal
<1>2. \/ worker' = worker
      \/ /\ worker \in Job
         /\ worker'.object = worker.object /\ worker'.source = worker.source
         /\ worker'.excluded = worker.excluded /\ worker'.inventory = worker.inventory
         /\ worker'.registry = worker.registry /\ worker'.step = worker.step
         /\ worker'.credentials = worker.credentials /\ worker'.result = worker.result
         /\ worker'.toApply = worker.toApply /\ worker'.toDelete = worker.toDelete
  <2>1. ASSUME worker \in Job, worker' = [worker EXCEPT !.fresh = FALSE]
        PROVE  /\ worker'.object = worker.object /\ worker'.source = worker.source
               /\ worker'.excluded = worker.excluded /\ worker'.inventory = worker.inventory
               /\ worker'.registry = worker.registry /\ worker'.step = worker.step
               /\ worker'.credentials = worker.credentials /\ worker'.result = worker.result
    BY <2>1 DEF Job
  <2>2. ASSUME worker \in Job, worker' = [worker EXCEPT !.fresh = FALSE]
        PROVE  worker'.toApply = worker.toApply /\ worker'.toDelete = worker.toDelete
    BY <2>2 DEF Job
  <2> QED BY <2>1, <2>2 DEF Heard
<1>3. JobInv'
  BY <1>0, <1>2 DEF JobInv, CredentialsOf
<1>4. PlanWithin(Territory)'
  <2>1. Syncing' => Syncing
    BY <1>2 DEF Syncing
  <2>2. CASE Syncing
    BY <1>0, <1>2, <2>2, ListsShrink
  <2> QED BY <2>1, <2>2 DEF PlanWithin
<1>5. ManagerView'
  <2>1. /\ policy' = policy /\ Present' \subseteq Present
        /\ UNCHANGED <<cachedPolicy, cachedNamespaces>>
        /\ ExcludedNamespaces(policy)' = ExcludedNamespaces(policy)
    BY DEF Steady, Heard, ExcludedNamespaces
  <2>2. /\ worker' \in Job => worker \in Job /\ worker'.excluded = worker.excluded
        /\ Syncing' => Syncing /\ worker'.inventory = worker.inventory
    BY <1>2 DEF Syncing
  <2>3. /\ cachedPolicy' = policy'
        /\ \A n \in Present' : cachedNamespaces'[n] # "absent"
        /\ worker' \in Job => worker'.excluded = ExcludedNamespaces(policy)'
        /\ Syncing' => Present' \subseteq worker'.inventory
    BY <1>0, <2>1, <2>2 DEF ManagerView
  <2> QED BY <2>3 DEF ManagerView
<1> QED BY <1>1, <1>3, <1>4, <1>5 DEF SharingInv
-----------------------------------------------------------------------------
(* What is still to be reconciled stays so until a reconcile of it begins. *)
LEMMA AttendedKept ==
    ASSUME LocalInv, [Next]_vars, NEW r \in Registries, Exists(r)', Attended(r)
    PROVE  Coming(r)'
<1>0. TypeInv /\ TypeInv' /\ CachesCoherent /\ LocalInv'
  BY LocalStep DEF LocalInv
<1>1. CASE Frame
  <2>1. \A other : Stale(secretEvents, other) => Stale(secretEvents', other)
    <3>1. CASE \E key \in Keys, object \in Secret \cup {NoObject} : WriteSecret(key, object)
      BY <1>0, <3>1, WriteSecretKeeps
    <3> QED BY <1>1, <3>1 DEF Frame, SecretsMayChange
  <2> QED BY <1>1, <2>1 DEF Frame, Coming, Attended, Pending
<1>2. CASE UpdateStatus
  BY <1>0, <1>2, UpdateStatusFacts DEF Coming, Attended, Pending
<1>3. ASSUME NEW x \in Registries, ForgetDeleted(x) PROVE Coming(r)'
  <2>1. /\ UNCHANGED <<apiVars, cacheVars, backoff, worker, synced, missed>>
        /\ queue' = queue \ {x} /\ cachedRegistries[x] = NoObject
    BY <1>3 DEF ForgetDeleted
  <2>2. CASE x = r
    <3>1. registryPullSecrets[r] # cachedRegistries[r]
      BY <2>1, <2>2 DEF apiVars, Exists
    <3>2. Stale(registryEvents, r)
      BY <1>0, <3>1 DEF CachesCoherent, Coherent, TypeInv, TypeOK
    <3> QED BY <2>1, <3>2 DEF cacheVars, Coming, Attended, Pending
  <2>3. CASE x # r
    BY <2>1, <2>3 DEF apiVars, cacheVars, Coming, Attended, Pending
  <2> QED BY <2>2, <2>3
<1>4. ASSUME NEW x \in Registries, StartReconcile(x) PROVE Coming(r)'
  <2>1. /\ UNCHANGED <<apiVars, cacheVars, backoff>>
        /\ queue' = queue \ {x} /\ missed' = missed \ {x}
        /\ worker'.registry = x /\ worker'.step \in {"plan", "status"}
    BY <1>4 DEF StartReconcile
  <2>2. CASE x = r
    BY <2>1, <2>2 DEF Coming, Busy, Idle
  <2>3. CASE x # r
    BY <2>1, <2>3 DEF apiVars, cacheVars, Coming, Attended, Pending
  <2> QED BY <2>2, <2>3
<1>5. CASE DeliverRegistryEvent
  <2>1. \A x : Stale(registryEvents, x) => Stale(registryEvents', x) \/ x \in queue'
    <3>1. /\ registryEvents \in Seq(Event(Registries, RegistryPullSecret \cup {NoObject}))
          /\ registryEvents # << >>
          /\ registryEvents' = Tail(registryEvents) /\ Head(registryEvents).key \in queue'
      BY <1>0, <1>5 DEF DeliverRegistryEvent, TypeInv, TypeOK
    <3> QED BY <3>1, DeliverStale
  <2> QED BY <1>5, <2>1 DEF DeliverRegistryEvent, apiVars, Coming, Attended, Pending
<1>6. CASE DeliverSecretEvent
  <2>1. Exists(r)
    BY <1>0, <1>6, DeliverSecretFacts DEF Exists
  <2> QED BY <1>0, <1>6, <2>1, DeliverSecretFacts DEF Coming, Attended
<1>7. CASE Restart
  BY <1>7 DEF Restart, apiVars, Exists, Coming, Attended, Pending
<1>8. CASE UsersMove
  <2>1. PICK x \in Registries, object \in RegistryPullSecret \cup {NoObject} : UsersStore(x, object)
    BY <1>8 DEF UsersMove
  <2>2. /\ UNCHANGED <<secretEvents, queueVars, missed>>
        /\ \A y : Stale(registryEvents', y) <=> Stale(registryEvents, y) \/ y = x
        /\ \A y \in Registries \ {x} : registryPullSecrets'[y] = registryPullSecrets[y]
    BY <1>0, <2>1, UsersStoreFacts DEF UsersStore
  <2> QED BY <2>2 DEF queueVars, Coming, Attended, Pending
<1> QED
  BY <1>0, <1>1, <1>2, <1>3, <1>4, <1>5, <1>6, <1>7, <1>8, KindsOfSteps
     DEF ReconcilerMoves, ManagerMoves

(* What a reconcile reads does not change without an announcement. *)
LEMMA ChangeComes ==
    ASSUME LocalInv, [Next]_vars, NEW r \in Registries, Exists(r)', ~Coming(r)'
    PROVE  /\ Exists(r) /\ registryPullSecrets'[r] = registryPullSecrets[r]
           /\ SourceIn(secrets, registryPullSecrets[r].spec)'
                = SourceIn(secrets, registryPullSecrets[r].spec)
<1> DEFINE Objects == RegistryPullSecret \cup {NoObject}
           Stored == Secret \cup {NoObject}
<1>0. /\ TypeInv /\ TypeInv'
      /\ registryPullSecrets \in [Registries -> Objects]
      /\ registryPullSecrets' \in [Registries -> Objects]
      /\ secrets \in [Keys -> Stored] /\ secrets' \in [Keys -> Stored]
      /\ registryEvents \in Seq(Event(Registries, Objects))
      /\ secretEvents \in Seq(Event(Keys, Stored))
  BY TypeStep DEF LocalInv, TypeInv, TypeOK
<1>1. /\ Tells(registryPullSecrets, registryPullSecrets', registryEvents, registryEvents')
      /\ Tells(secrets, secrets', secretEvents, secretEvents')
  BY StepTells
<1> HIDE DEF Objects, Stored
<1>2. registryPullSecrets'[r] = registryPullSecrets[r]
  <2> SUFFICES ASSUME registryPullSecrets'[r] # registryPullSecrets[r] PROVE FALSE
    OBVIOUS
  <2>1. Told(registryPullSecrets, registryPullSecrets', registryEvents, registryEvents')
    BY <1>1 DEF Tells, Told
  <2>2. Stale(registryEvents', r)
    BY <1>0, <2>1, ToldOfChange
  <2> QED BY <2>2 DEF Coming, Attended, Pending
<1>3. Exists(r)
  BY <1>2 DEF Exists
<1>4. registryPullSecrets[r].spec.credentialsSecretRef \in Keys \cup {NoRef}
  BY <1>0, <1>3, ReferenceType
<1>5. ASSUME NEW key \in Keys, key = registryPullSecrets[r].spec.credentialsSecretRef
      PROVE  secrets'[key] = secrets[key]
  <2> SUFFICES ASSUME secrets'[key] # secrets[key] PROVE FALSE
    OBVIOUS
  <2>1. Told(secrets, secrets', secretEvents, secretEvents')
    BY <1>1 DEF Tells, Told
  <2>2. Stale(secretEvents', key)
    BY <1>0, <2>1, ToldOfChange
  <2> QED BY <1>2, <1>5, <2>2 DEF Coming, Attended, Pending
<1> QED BY <1>2, <1>3, <1>4, <1>5 DEF SourceIn

(* A reconcile that nothing is to follow works from the present inputs. *)
LEMMA BusyIsCurrent ==
    ASSUME LocalInv, [Next]_vars, NEW r \in Registries, Exists(r)', ~Coming(r)', Busy(r)
    PROVE  Current(r, worker)
<1>1. Exists(r) /\ ~Attended(r)
  BY ChangeComes, AttendedKept
<1> QED BY <1>1 DEF LocalInv, WorkerIsCurrent, Attended

(* What such a reconcile is about to write is what is called for. *)
LEMMA PlannedIsRight ==
    ASSUME NEW Territory, SharingInv(Territory), Syncing,
           NEW r, r = worker.registry, Current(r, worker), NEW key \in Keys, NEW secret,
           \/ /\ key \in worker.toApply /\ namespaces[key[1]] # "absent"
              /\ secret = BuildPullSecret(r, worker.credentials)
           \/ key \in worker.toDelete /\ secret = NoObject
    PROVE  RightFor(r, key, secret)
<1>1. ViewOf(worker) /\ worker.credentials = CredentialsOf(worker)
  BY DEF SharingInv, ManagerView, ViewOf, JobInv, Syncing
<1>2. /\ CredentialsOf(worker) = CredentialsOf(Demand(r))
      /\ key \in Wanted(r) <=> key \in TargetsOf(worker) /\ key[1] \in Present
  BY <1>1, WantedOf
<1>3. /\ worker.toApply \subseteq TargetsOf(worker)
      /\ worker.toDelete \cap TargetsOf(worker) = {}
  BY DEF SharingInv, PlanWithin
<1>4. CASE key \in worker.toApply /\ secret = BuildPullSecret(r, worker.credentials)
           /\ namespaces[key[1]] # "absent"
  <2>1. key[1] \in Present
    BY <1>4 DEF Present, Keys
  <2> QED BY <1>1, <1>2, <1>3, <1>4, <2>1 DEF RightFor
<1>5. CASE key \in worker.toDelete /\ secret = NoObject
  <2>1. ~OwnedBy(NoObject, r)
    BY DEF OwnedBy
  <2> QED BY <1>2, <1>3, <1>5, <2>1 DEF RightFor
<1> QED BY <1>4, <1>5

(* Whoever moves, what is right for r stays right: the others keep to their own, and a
   reconcile of r that is not to be followed by another writes what is called for. *)
LEMMA RightStays ==
    ASSUME NEW Territory, Apart(Territory), SharingInv(Territory), Move(Territory),
           NEW r \in Registries, Exists(r)', ~Coming(r)',
           CredentialsOf(Demand(r)) \in Credentials,
           NEW key \in Keys, Right(r, key)
    PROVE  Right(r, key)'
<1>0. /\ TypeInv /\ LocalInv /\ [Next]_vars /\ Steady /\ SharedView(Territory)
      /\ SharedView(Territory)'
      /\ Reconciler \/ Manager \/ (Users /\ UsersLeaveLabelled)
  BY SharedViewStep DEF SharingInv, LocalInv, Move, Next
<1>1. /\ Exists(r) /\ registryPullSecrets'[r] = registryPullSecrets[r]
      /\ SourceIn(secrets, registryPullSecrets[r].spec)'
           = SourceIn(secrets, registryPullSecrets[r].spec)
  BY <1>0, ChangeComes
<1>2. PICK s : s = secrets'[key]
  OBVIOUS
<1>3. namespaces'[key[1]] = "absent" => ~OwnedBy(s, r)
  <2>1. namespaces'[key[1]] = "absent" => s = NoObject
    BY <1>0, <1>2 DEF SharedView
  <2> QED BY <2>1 DEF OwnedBy
<1>4. RightFor(r, key, s)
  <2>1. CASE s = secrets[key]
    BY <2>1 DEF Right
  <2>2. ASSUME ~OwnedBy(s, r), namespaces[key[1]] = "active" => ~OwnedBy(secrets[key], r)
        PROVE  RightFor(r, key, s)
    <3>1. OwnedBy(BuildPullSecret(r, CredentialsOf(Demand(r))), r)
      BY BuiltIsOwned
    <3> QED BY <2>2, <3>1 DEF Right, RightFor
  <2>3. CASE s # secrets[key] /\ Users /\ UsersLeaveLabelled
    BY <1>2, <2>2, <2>3 DEF UsersLeaveLabelled
  <2>4. CASE s # secrets[key] /\ (Reconciler \/ Manager)
    <3>1. /\ namespaces[key[1]] # "absent"
          /\ worker \in Job /\ worker.step = "sync" /\ worker.credentials \in Credentials
          /\ \/ /\ key \in worker.toApply
                /\ s = BuildPullSecret(worker.registry, worker.credentials)
             \/ key \in worker.toDelete /\ s = NoObject
      BY <1>2, <2>4, OwnWrites
    <3>2. worker.registry \in Registries /\ Syncing /\ worker # Idle
      BY <3>1 DEF Job, Syncing, Idle
    <3>3. CASE worker.registry = r
      <4>1. Current(r, worker)
        BY <1>0, <3>2, <3>3, BusyIsCurrent DEF Busy
      <4> QED BY <3>1, <3>2, <3>3, <4>1, PlannedIsRight
    <3>4. CASE worker.registry # r
      <4>1. key \in Territory[worker.registry]
        BY <3>1, <3>2 DEF SharingInv, PlanWithin
      <4>2. key \notin Territory[r]
        BY <3>2, <3>4, <4>1 DEF Apart
      <4>3. ~OwnedBy(secrets[key], r)
        BY <1>0, <4>2 DEF SharedView
      <4>4. ~OwnedBy(NoObject, r)
        BY DEF OwnedBy
      <4>5. ~OwnedBy(s, r)
        BY <3>1, <3>2, <3>4, <4>4, BuiltIsOwned
      <4> QED BY <2>2, <4>3, <4>5
    <3> QED BY <3>3, <3>4
  <2> QED BY <1>0, <2>1, <2>3, <2>4
<1>5. RightFor(r, key, s)'
  BY <1>0, <1>1, <1>3, <1>4, RightKept
<1> QED BY <1>2, <1>5 DEF Right, RightFor
-----------------------------------------------------------------------------
(* What has become of r: it is still to come, or under way with all that is not right on
   its lists, or everything is right. *)
Due(r) == Coming(r) \/ Covering(r) \/ Standing(r)

(* How a reconcile goes on, with what it has written. *)
LEMMA ReconcileGoesOn ==
    ASSUME TypeInv, [Next]_vars, worker \in Job
    PROVE  \/ worker' = worker \/ worker' = Failed \/ worker' = [worker EXCEPT !.fresh = FALSE]
           \/ UpdateStatus \/ Restart \/ Plan
           \/ /\ worker.step = "sync"
              /\ \E key \in Keys :
                   \/ /\ key \in worker.toApply
                      /\ secrets' = [secrets EXCEPT ![key] =
                                       BuildPullSecret(worker.registry, worker.credentials)]
                      /\ worker' = [worker EXCEPT !.toApply = @ \ {key}, !.applied = @ + 1]
                   \/ /\ key \in worker.toDelete
                      /\ secrets' = [secrets EXCEPT ![key] = NoObject]
                      /\ worker' = [worker EXCEPT !.toDelete = @ \ {key}, !.deleted = @ + 1]
<1>i. worker # Idle
  BY DEF Idle, Job
<1>1. ASSUME NEW key \in Keys, ApplySecret(key)
      PROVE  \/ worker' = Failed
             \/ /\ worker.step = "sync" /\ key \in worker.toApply
                /\ secrets' = [secrets EXCEPT ![key] =
                                 BuildPullSecret(worker.registry, worker.credentials)]
                /\ worker' = [worker EXCEPT !.toApply = @ \ {key}, !.applied = @ + 1]
  BY <1>1 DEF ApplySecret, WriteSecret
<1>2. ASSUME NEW key \in Keys, DeleteSecret(key)
      PROVE  \/ worker' = Failed
             \/ /\ worker.step = "sync" /\ key \in worker.toDelete
                /\ secrets' = [secrets EXCEPT ![key] = NoObject]
                /\ worker' = [worker EXCEPT !.toDelete = @ \ {key}, !.deleted = @ + 1]
  BY <1>2 DEF DeleteSecret, DeletionsTurn, WriteSecret
<1>3. ASSUME NEW r \in Registries, NEW object, StoreRegistry(r, object)
      PROVE  worker' = worker \/ worker' = [worker EXCEPT !.fresh = FALSE]
  BY <1>3 DEF StoreRegistry
<1>4. CASE Users
  BY <1>3, <1>4 DEF Users, CreateRegistry, EditRegistry, DeleteRegistry, EditPolicy,
       CreateNamespace, TerminateNamespace, FinalizeNamespace, PurgeSecret, PutSecret, RemoveSecret
<1>5. CASE Manager
  BY <1>5 DEF Manager, DeliverRegistryEvent, DeliverSecretEvent, RefreshPolicy,
       RefreshNamespaces, BackoffExpires
<1>6. CASE Reconciler
  BY <1>i, <1>1, <1>2, <1>6 DEF Reconciler, ForgetDeleted, StartReconcile, GetFails, ReadFails
<1>7. CASE UNCHANGED vars
  BY <1>7 DEF vars
<1> QED BY <1>4, <1>5, <1>6, <1>7 DEF Next

(* A failed reconcile is to be followed by another. *)
LEMMA FailedComes ==
    ASSUME NEW r \in Registries, Busy(r), worker \in Job, worker' = Failed
    PROVE  Coming(r)'
<1>1. Failed.step = "status" /\ Failed.registry = r
  BY DEF Failed, Job, Busy
<1> QED BY <1>1 DEF Coming, Busy, Idle

(* So is everything that exists, once the process has been restarted. *)
LEMMA RestartComes ==
    ASSUME NEW r \in Registries, Exists(r)', Restart
    PROVE  Coming(r)'
BY DEF Restart, apiVars, Exists, Coming, Attended, Pending

(* The end of a reconcile that nothing is to follow: it has succeeded, with the present
   inputs, and its status says so. *)
LEMMA EndIsCurrent ==
    ASSUME LocalInv, JobInv, NEW r \in Registries, Exists(r)', ~Coming(r)', Busy(r), UpdateStatus
    PROVE  /\ Syncing /\ worker.toApply = {} /\ worker.toDelete = {}
           /\ synced'[r] # NoObject /\ Current(r, synced[r])'
           /\ status'[r].observedGeneration = registryPullSecrets'[r].generation
           /\ status'[r].reason = "Synced"
<1>0. TypeInv /\ CachesCoherent /\ FreshIsCurrent /\ [Next]_vars
  BY DEF LocalInv, Next, Reconciler
<1>1. worker \in Job /\ worker.registry = r /\ Current(r, worker)
  BY <1>0, UpdateStatusFacts, BusyIsCurrent DEF Busy
<1>2. /\ worker.result = "Synced" /\ worker.fresh /\ StoreStatus /\ synced' = Recorded
      /\ UNCHANGED <<registryPullSecrets, secrets>>
  <2>1. worker.registry \notin backoff'
    BY <1>1 DEF Coming, Attended, Pending
  <2> QED BY <1>0, <2>1, UpdateStatusFacts
<1>3. Syncing /\ worker.toApply = {} /\ worker.toDelete = {}
  BY <1>1, <1>2 DEF UpdateStatus, Finished, JobInv, Syncing
<1>4. worker.object = registryPullSecrets[r]
  BY <1>1 DEF Current
<1>5. /\ status'[r].observedGeneration = worker.object.generation
      /\ status'[r].reason = "Synced"
  BY <1>0, <1>1, <1>2 DEF StoreStatus, TypeInv, TypeOK
<1>6. /\ synced'[r].object = worker.object /\ synced'[r].source = worker.source
      /\ synced'[r] \in Inputs
  BY <1>0, <1>1, <1>2 DEF Recorded, TypeInv, TypeOK, Job, Inputs
<1>7. synced'[r] # NoObject
  BY <1>6, ControllerAssumption
<1>8. Current(r, synced[r])'
  BY <1>1, <1>2, <1>6 DEF Current, SourceIn
<1> QED BY <1>2, <1>3, <1>4, <1>5, <1>7, <1>8

(* What stands keeps standing, whatever the manager does that is not followed by more. *)
LEMMA StandingStays ==
    ASSUME NEW Territory, Apart(Territory), SharingInv(Territory), Move(Territory),
           NEW r \in Registries, Exists(r)', ~Coming(r)', Standing(r)
    PROVE  Standing(r)'
<1>0. TypeInv /\ TypeInv' /\ CachesCoherent /\ LocalInv /\ JobInv /\ [Next]_vars
  BY SharingStep DEF SharingInv, LocalInv, Move, Next
<1>1. /\ Exists(r) /\ registryPullSecrets'[r] = registryPullSecrets[r]
      /\ SourceIn(secrets, registryPullSecrets[r].spec)'
           = SourceIn(secrets, registryPullSecrets[r].spec)
  BY <1>0, ChangeComes
<1>2. \A key \in Keys : Right(r, key)'
  BY RightStays DEF Standing
<1>3. CredentialsOf(Demand(r))' \in Credentials
  BY <1>1, WantedKept DEF Move, Standing, Credentials
<1>4. CASE UpdateStatus /\ Busy(r)
  BY <1>0, <1>2, <1>3, <1>4, EndIsCurrent DEF Standing
<1>5. CASE synced'[r] = synced[r] /\ status'[r] = status[r]
  BY <1>1, <1>2, <1>3, <1>5 DEF Standing, Current
<1>6. ASSUME UpdateStatus, ~Busy(r) PROVE synced'[r] = synced[r] /\ status'[r] = status[r]
  <2>1. /\ worker.registry # r
        /\ synced' = synced \/ synced' = Recorded
        /\ StoreStatus \/ UNCHANGED status
    BY <1>0, <1>6, UpdateStatusFacts DEF Busy
  <2> QED BY <1>0, <2>1 DEF Recorded, StoreStatus, TypeInv, TypeOK
<1>7. ASSUME UsersMove PROVE synced'[r] = synced[r] /\ status'[r] = status[r]
  <2>1. PICK x \in Registries, object \in RegistryPullSecret \cup {NoObject} : UsersStore(x, object)
    BY <1>7 DEF UsersMove
  <2>2. Stale(registryEvents', x)
    BY <1>0, <2>1, UsersStoreFacts
  <2>3. x # r
    BY <2>2 DEF Coming, Attended, Pending
  <2> QED BY <2>1, <2>3 DEF UsersStore
<1>8. CASE Frame
  BY <1>5, <1>8 DEF Frame
<1>9. CASE \E x \in Registries : ForgetDeleted(x) \/ StartReconcile(x)
  BY <1>5, <1>9 DEF ForgetDeleted, StartReconcile, apiVars
<1>10. CASE DeliverRegistryEvent
  BY <1>5, <1>10 DEF DeliverRegistryEvent, apiVars
<1>11. CASE DeliverSecretEvent
  BY <1>5, <1>11 DEF DeliverSecretEvent, apiVars
<1>12. CASE Restart
  BY <1>12, RestartComes
<1> QED
  BY <1>0, <1>4, <1>5, <1>6, <1>7, <1>8, <1>9, <1>10, <1>11, <1>12, KindsOfSteps
     DEF ReconcilerMoves, ManagerMoves

(* A plan lists whatever is not right at that moment. *)
LEMMA PlanCovers ==
    ASSUME NEW Territory, Apart(Territory), SharingInv(Territory), Move(Territory),
           NEW r \in Registries, Exists(r)', ~Coming(r)', Busy(r), Plan
    PROVE  Covering(r)'
<1> DEFINE inventory == {n \in Namespaces : cachedNamespaces[n] # "absent"}
           targets == EffectiveTargets(worker.object.spec.namespaces, worker.credentials.server,
                                       worker.excluded, inventory)
           replica == BuildPullSecret(r, worker.credentials)
           needed == {key \in targets : SecretNeedsApply(cachedSecrets[key], replica)}
<1>0. /\ TypeInv /\ LocalInv /\ LocalInv' /\ JobInv /\ ManagerView /\ ManagerView'
      /\ SharedView(Territory) /\ [Next]_vars
  BY SharingStep DEF SharingInv, LocalInv, Move, Next
<1>1. worker \in Job /\ worker.registry = r /\ worker.credentials \in Credentials /\ worker # Idle
  BY <1>0 DEF Plan, Idle, Busy, TypeInv, TypeOK, CredentialsResolved
<1>2. /\ worker'.registry = r /\ worker'.step \in {"sync", "status"} /\ worker' # Idle
  BY <1>1 DEF Plan, Job, Idle
<1>3. Busy(r)' /\ worker'.step = "sync"
  BY <1>2 DEF Busy, Coming
<1>4. Syncing'
  BY <1>0, <1>2, <1>3 DEF Syncing, LocalInv, TypeInv, TypeOK
<1>5. /\ worker'.object = worker.object /\ worker'.source = worker.source
      /\ worker'.excluded = worker.excluded /\ worker'.inventory = inventory
      /\ worker'.credentials = worker.credentials
      /\ worker'.toApply = needed
      /\ worker'.toDelete = ObsoleteSecrets(r, cachedSecrets, targets)
  BY <1>1, <1>3 DEF Plan, Job
<1>6. UNCHANGED <<registryPullSecrets, policy, namespaces, secrets>>
  BY DEF Plan, apiVars
<1>7. PICK job : job = worker'
  OBVIOUS
<1>8. Current(r, worker)
  BY <1>0, BusyIsCurrent
<1>9. /\ Current(r, job)
      /\ ViewOf(job)
      /\ TargetsOf(job) = targets /\ CredentialsOf(job) = worker.credentials
  <2>1. Current(r, job)
    BY <1>5, <1>7, <1>8 DEF Current
  <2>2. ViewOf(job)
    BY <1>0, <1>1, <1>5, <1>7 DEF ManagerView, ViewOf, Present
  <2>3. CredentialsOf(job) = worker.credentials
    BY <1>0, <1>1, <1>5, <1>7 DEF CredentialsOf, JobInv
  <2> QED BY <1>5, <1>7, <2>1, <2>2, <2>3 DEF TargetsOf
<1>10. /\ CredentialsOf(Demand(r)) = worker.credentials
       /\ \A key : key \in Wanted(r) <=> key \in targets /\ key[1] \in Present
  BY <1>9, WantedOf
<1>11. \A key \in Keys : cachedSecrets[key] = secrets[key]
  BY DEF Move, ListsCurrent
<1>12. replica \in Secret
  BY <1>1, BuildType
<1>13. ASSUME NEW key \in Keys, key \notin worker'.toApply \cup worker'.toDelete
       PROVE  Right(r, key)
  <2>1. ASSUME key \in targets PROVE secrets[key] = replica
    <3>1. ~SecretNeedsApply(secrets[key], replica)
      BY <1>5, <1>11, <1>13, <2>1
    <3>2. secrets[key] \in Secret \cup {NoObject}
      BY <1>0 DEF TypeInv, TypeOK
    <3> QED BY <1>12, <3>1, <3>2, NoApplyNeeded
  <2>2. ASSUME key \notin targets PROVE ~OwnedBy(secrets[key], r)
    BY <1>5, <1>11, <1>13, <2>2 DEF ObsoleteSecrets
  <2>3. ASSUME key[1] \notin Present PROVE ~OwnedBy(secrets[key], r)
    <3>1. secrets[key] = NoObject
      BY <1>0, <2>3 DEF SharedView, Present, Keys
    <3> QED BY <3>1 DEF OwnedBy
  <2> HIDE DEF targets, replica
  <2>4. CASE key \in Wanted(r)
    <3>1. secrets[key] = replica
      BY <1>10, <2>1, <2>4
    <3> QED BY <1>10, <2>4, <3>1 DEF Right, RightFor, replica
  <2>5. CASE key \notin Wanted(r)
    <3>1. ~OwnedBy(secrets[key], r)
      BY <1>10, <2>2, <2>3, <2>5
    <3> QED BY <2>5, <3>1 DEF Right, RightFor
  <2> QED BY <2>4, <2>5
<1> HIDE DEF targets, needed, replica, inventory
<1>14. CredentialsOf(Demand(r)) \in Credentials
  BY <1>1, <1>10
<1>15. \A key \in Keys \ (worker'.toApply \cup worker'.toDelete) : Right(r, key)'
  BY <1>13, <1>14, RightStays
<1>16. Current(r, worker)'
  BY <1>0, <1>3 DEF LocalInv, WorkerIsCurrent, Coming, Attended
<1> QED BY <1>3, <1>4, <1>15, <1>16 DEF Covering
(* A reconcile that covers what is not right has resolved the credentials of today. *)
LEMMA CoveringResolves ==
    ASSUME NEW Territory, SharingInv(Territory), NEW r \in Registries, Covering(r)
    PROVE  CredentialsOf(Demand(r)) \in Credentials
<1>1. /\ worker \in Job /\ worker.step = "sync" /\ worker # Idle /\ Syncing
      /\ Current(r, worker) /\ worker.credentials \in Credentials
  BY DEF SharingInv, LocalInv, Covering, Syncing, Busy, TypeInv, CredentialsResolved
<1>2. ViewOf(worker) /\ CredentialsOf(worker) = worker.credentials
  BY <1>1 DEF SharingInv, ManagerView, ViewOf, JobInv
<1> QED BY <1>1, <1>2, WantedOf

(* A reconcile that covers what is not right goes on to do so, and when it has ended with
   nothing to follow everything is right. *)
LEMMA CoveringGoesOn ==
    ASSUME NEW Territory, Apart(Territory), SharingInv(Territory), Move(Territory),
           NEW r \in Registries, Exists(r)', ~Coming(r)', Covering(r)
    PROVE  Covering(r)' \/ Standing(r)'
<1> DEFINE replica == BuildPullSecret(r, worker.credentials)
<1>0. /\ TypeInv /\ TypeInv' /\ LocalInv /\ LocalInv' /\ JobInv /\ ManagerView /\ [Next]_vars
      /\ SharedView(Territory) /\ Steady
  BY SharingStep DEF SharingInv, LocalInv, Move, Next
<1>1. /\ worker \in Job /\ worker.step = "sync" /\ worker.registry = r /\ worker # Idle
      /\ Busy(r) /\ Syncing /\ Current(r, worker) /\ worker.credentials \in Credentials
      /\ \A key \in Keys \ (worker.toApply \cup worker.toDelete) : Right(r, key)
  BY <1>0 DEF Covering, Syncing, Busy, TypeInv, CredentialsResolved
<1>2. /\ registryPullSecrets'[r] = registryPullSecrets[r]
      /\ SourceIn(secrets, registryPullSecrets[r].spec)'
           = SourceIn(secrets, registryPullSecrets[r].spec)
  BY <1>0, ChangeComes
<1>3. CredentialsOf(Demand(r)) \in Credentials
  BY CoveringResolves
<1>4. \A key \in Keys \ (worker.toApply \cup worker.toDelete) : Right(r, key)'
  BY <1>1, <1>3, RightStays
<1>5. Busy(r)' => Current(r, worker)'
  BY <1>0 DEF LocalInv, WorkerIsCurrent, Coming, Attended
<1>6. ASSUME worker' \in Job, worker'.step = "sync", worker'.registry = r,
             \A key \in Keys \ (worker'.toApply \cup worker'.toDelete) : Right(r, key)'
      PROVE  Covering(r)'
  <2>1. Busy(r)' /\ Syncing'
    BY <1>6 DEF Busy, Syncing, Idle, Job
  <2> QED BY <1>5, <1>6, <2>1 DEF Covering
<1>7. CASE worker' = worker
  BY <1>1, <1>4, <1>6, <1>7
<1>8. CASE worker' = [worker EXCEPT !.fresh = FALSE]
  <2>1. /\ worker' \in Job /\ worker'.step = "sync" /\ worker'.registry = r
        /\ worker'.toApply = worker.toApply /\ worker'.toDelete = worker.toDelete
    BY <1>1, <1>8 DEF Job
  <2> QED BY <1>4, <1>6, <2>1
<1>9. CASE worker' = Failed
  BY <1>1, <1>9, FailedComes
<1>10. CASE Restart
  BY <1>10, RestartComes
<1>11. CASE Plan
  BY <1>1, <1>11 DEF Plan
<1>12. CASE UpdateStatus
  <2>1. /\ worker.toApply = {} /\ worker.toDelete = {}
        /\ synced'[r] # NoObject /\ Current(r, synced[r])'
        /\ status'[r].observedGeneration = registryPullSecrets'[r].generation
        /\ status'[r].reason = "Synced"
    BY <1>0, <1>1, <1>12, EndIsCurrent
  <2>2. \A key \in Keys : Right(r, key)'
    BY <1>4, <2>1
  <2>3. CredentialsOf(Demand(r))' \in Credentials
    BY <1>0, <1>2, <1>3, WantedKept DEF Credentials
  <2> QED BY <2>1, <2>2, <2>3 DEF Standing
<1>13. ASSUME NEW key \in Keys, NEW object,
              secrets' = [secrets EXCEPT ![key] = object],
              \/ key \in worker.toApply /\ object = replica
              \/ key \in worker.toDelete /\ object = NoObject
       PROVE  Right(r, key)'
  <2>0. secrets \in [Keys -> Secret \cup {NoObject}] /\ replica \in Secret /\ ~OwnedBy(NoObject, r)
    BY <1>0, <1>1, BuildType DEF TypeInv, TypeOK, OwnedBy
  <2>1. PICK s : s = object
    OBVIOUS
  <2>2. secrets'[key] = s
    BY <1>13, <2>0, <2>1
  <2>3. s = replica => namespaces[key[1]] # "absent" /\ namespaces'[key[1]] # "absent"
    <3>1. SharedView(Territory)'
      BY SharedViewStep
    <3>2. namespaces'[key[1]] # "absent" \/ s = NoObject
      BY <2>2, <3>1 DEF SharedView
    <3>3. CASE secrets'[key] = secrets[key]
      BY <1>0, <2>0, <2>2, <3>2, <3>3, ControllerAssumption DEF SharedView
    <3>4. CASE secrets'[key] # secrets[key]
      <4>1. namespaces[key[1]] # "absent"
        <5>1. CASE Users
          BY <3>4, <5>1, UsersWrites
        <5>2. CASE Reconciler \/ Manager
          BY <3>4, <5>2, OwnWrites
        <5> QED BY <5>1, <5>2 DEF Move
      <4> QED BY <2>0, <3>2, <4>1, ControllerAssumption
    <3> QED BY <3>3, <3>4
  <2>4. RightFor(r, key, s)
    BY <1>1, <1>13, <2>1, <2>3, PlannedIsRight
  <2>5. namespaces'[key[1]] = "absent" => ~OwnedBy(s, r)
    BY <1>13, <2>0, <2>1, <2>3
  <2>6. RightFor(r, key, s)'
    BY <1>0, <1>2, <2>4, <2>5, RightKept
  <2> QED BY <2>2, <2>6 DEF Right, RightFor
<1>14. ASSUME NEW key \in Keys, key \in worker.toApply,
              secrets' = [secrets EXCEPT ![key] = replica],
              worker' = [worker EXCEPT !.toApply = @ \ {key}, !.applied = @ + 1]
       PROVE  Covering(r)'
  <2>1. worker'.toApply = worker.toApply \ {key} /\ worker'.toDelete = worker.toDelete
    BY <1>1, <1>14 DEF Job
  <2>2. worker' \in Job /\ worker'.step = "sync" /\ worker'.registry = r
    BY <1>0, <1>1, <1>14 DEF TypeInv, TypeOK, Idle, Job
  <2> QED BY <1>4, <1>6, <1>13, <1>14, <2>1, <2>2
<1>15. ASSUME NEW key \in Keys, key \in worker.toDelete,
              secrets' = [secrets EXCEPT ![key] = NoObject],
              worker' = [worker EXCEPT !.toDelete = @ \ {key}, !.deleted = @ + 1]
       PROVE  Covering(r)'
  <2>1. worker'.toDelete = worker.toDelete \ {key} /\ worker'.toApply = worker.toApply
    BY <1>1, <1>15 DEF Job
  <2>2. worker' \in Job /\ worker'.step = "sync" /\ worker'.registry = r
    BY <1>0, <1>1, <1>15 DEF TypeInv, TypeOK, Idle, Job
  <2> QED BY <1>4, <1>6, <1>13, <1>15, <2>1, <2>2
<1> QED
  BY <1>0, <1>1, <1>7, <1>8, <1>9, <1>10, <1>11, <1>12, <1>14, <1>15, ReconcileGoesOn

(* What is to come comes, or has looked and covers what is not right. *)
LEMMA ComingGoesOn ==
    ASSUME NEW Territory, Apart(Territory), SharingInv(Territory), Move(Territory),
           NEW r \in Registries, Exists(r)', ~Coming(r)', Coming(r)
    PROVE  Covering(r)'
<1>0. TypeInv /\ LocalInv /\ JobInv /\ [Next]_vars
  BY DEF SharingInv, LocalInv, Move, Next
<1>1. ~Attended(r)
  BY <1>0, AttendedKept
<1>2. Busy(r) /\ worker.step # "sync" /\ worker \in Job
  BY <1>0, <1>1 DEF Coming, Busy, TypeInv, TypeOK
<1>3. CASE worker' = worker
  BY <1>2, <1>3 DEF Coming, Busy
<1>4. CASE worker' = Failed
  BY <1>2, <1>4, FailedComes
<1>5. CASE worker' = [worker EXCEPT !.fresh = FALSE]
  <2>1. worker'.step = worker.step /\ worker'.registry = r /\ worker' # Idle
    BY <1>2, <1>5 DEF Job, Busy, Idle
  <2> QED BY <1>2, <2>1 DEF Coming, Busy
<1>6. CASE UpdateStatus
  BY <1>0, <1>2, <1>6, EndIsCurrent DEF Syncing
<1>7. CASE Restart
  BY <1>7, RestartComes
<1>8. CASE Plan
  BY <1>2, <1>8, PlanCovers
<1> QED BY <1>0, <1>2, <1>3, <1>4, <1>5, <1>6, <1>7, <1>8, ReconcileGoesOn

(* So whatever was due to a manager is due to it after its step, or everything is right. *)
LEMMA DueStep ==
    ASSUME NEW Territory, Apart(Territory), SharingInv(Territory), Move(Territory),
           NEW r \in Registries, Exists(r)', Exists(r) => Due(r)
    PROVE  Due(r)'
<1>1. ASSUME ~Coming(r)' PROVE Exists(r)
  BY <1>1, ChangeComes DEF SharingInv, LocalInv, Move, Next
<1> QED BY <1>1, ComingGoesOn, CoveringGoesOn, StandingStays DEF Due

-----------------------------------------------------------------------------
(* What a manager hears takes nothing from it that was to come. *)
LEMMA HeardKeepsComing ==
    ASSUME LocalInv, SharedOK', Heard, NEW r \in Registries, Coming(r)
    PROVE  Coming(r)'
<1>0. TypeInv /\ CachesCoherent /\ UNCHANGED <<queueVars, missed>>
  BY DEF LocalInv, Heard
<1>1. CASE Attended(r)
  <2>1. CASE registryPullSecrets'[r] = registryPullSecrets[r]
    BY <1>0, <1>1, <2>1, HeardFacts DEF queueVars, Coming, Attended, Pending
  <2>2. CASE registryPullSecrets'[r] # registryPullSecrets[r]
    BY <1>0, <2>2, HeardFacts DEF Coming, Attended, Pending
  <2> QED BY <2>1, <2>2
<1>2. CASE Busy(r) /\ worker.step # "sync"
  <2>1. worker'.step = worker.step
    BY DEF Heard, Job
  <2> QED BY <1>0, <1>2, <2>1, HeardFacts DEF Coming
<1> QED BY <1>1, <1>2 DEF Coming

(* Nor does it take what was under way, unless that is to be done again. *)
LEMMA HeardKeepsCovering ==
    ASSUME LocalInv, SharedOK', SyncedExists', Heard, NEW r \in Registries, Exists(r)',
           ~Coming(r)', Covering(r), \A key \in Keys : Right(r, key) => Right(r, key)'
    PROVE  Covering(r)'
<1>0. TypeInv /\ CachesCoherent /\ LocalInv'
  BY HeardKeepsLocal DEF LocalInv
<1>1. Busy(r)'
  BY <1>0, HeardFacts DEF Covering
<1>2. Current(r, worker)'
  BY <1>0, <1>1 DEF LocalInv, WorkerIsCurrent, Coming, Attended
<1>3. /\ worker' \in Job /\ worker'.step = "sync"
      /\ worker'.toApply = worker.toApply /\ worker'.toDelete = worker.toDelete
  <2>1. CASE worker' = worker
    BY <2>1 DEF Covering, Syncing
  <2>2. CASE worker \in Job /\ worker' = [worker EXCEPT !.fresh = FALSE]
    <3>1. worker' \in Job /\ worker'.step = worker.step
      BY <2>2 DEF Job
    <3>2. worker'.toApply = worker.toApply /\ worker'.toDelete = worker.toDelete
      BY <2>2 DEF Job
    <3> QED BY <3>1, <3>2 DEF Covering, Syncing
  <2> QED BY <2>1, <2>2 DEF Heard
<1>4. \A key \in Keys \ (worker'.toApply \cup worker'.toDelete) : Right(r, key)'
  BY <1>3 DEF Covering
<1> QED BY <1>1, <1>2, <1>3, <1>4 DEF Covering, Syncing

(* Where everything is right, every expected replica is in place and nothing else is. *)
LEMMA StandingIsReplicated ==
    ASSUME NEW Territory, TypeInv, SharedView(Territory), NEW r \in Registries, Standing(r)
    PROVE  Replicated(r)
<1>1. synced[r] # NoObject /\ Current(r, synced[r]) /\ ViewOf(synced[r])
  BY DEF Standing, SharedView
<1>2. ExpectedKeys(r) = TargetsOf(synced[r])
  BY <1>1, ExpectedAreTargets
<1>3. ReplicaOf(r) = BuildPullSecret(r, CredentialsOf(synced[r]))
  BY DEF ReplicaOf, CredentialsOf
<1>4. /\ CredentialsOf(synced[r]) = CredentialsOf(Demand(r))
      /\ \A key : key \in Wanted(r) <=> key \in TargetsOf(synced[r]) /\ key[1] \in Present
  BY <1>1, WantedOf
<1>5. ASSUME NEW key \in Keys
      PROVE  IF key \in TargetsOf(synced[r])
             THEN namespaces[key[1]] = "active" =>
                     secrets[key] = BuildPullSecret(r, CredentialsOf(Demand(r)))
             ELSE ~OwnedBy(secrets[key], r)
  <2>1. namespaces[key[1]] = "active" => key[1] \in Present
    BY DEF Present, Keys
  <2> QED BY <1>4, <2>1 DEF Standing, Right, RightFor
<1> QED BY <1>2, <1>3, <1>4, <1>5 DEF Replicated
=============================================================================

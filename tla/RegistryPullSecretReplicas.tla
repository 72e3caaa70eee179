----------------------- MODULE RegistryPullSecretReplicas -----------------------
(* What reconciles make of the Secrets of the cluster, proved for any cluster: what
   they never touch, whatever the lag of the caches, what they have put in place when
   they end, if the caches are up to date when they are read, and that two
   RegistryPullSecrets never both succeed with the same Secret. *)
EXTENDS RegistryPullSecretRefinement

(* Every way a step moves the worker. *)
WorkerMoves ==
    \/ worker' = worker
    \/ worker' = Idle
    \/ \E r \in Registries : StartReconcile(r)
    \/ Plan
    \/ worker \in Job /\ worker' = Failed
    \/ worker \in Job /\ worker' = [worker EXCEPT !.fresh = FALSE]
    \/ /\ worker \in Job /\ worker.step = "sync"
       /\ \E key \in Keys :
            \/ worker' = [worker EXCEPT !.toApply = @ \ {key}, !.applied = @ + 1]
            \/ worker' = [worker EXCEPT !.toDelete = @ \ {key}, !.deleted = @ + 1]

(* A worker waits, starts, ends, or does one thing at a time. *)
LEMMA WorkerStep ==
    ASSUME TypeInv, [Next]_vars
    PROVE  WorkerMoves
<1>w. worker \in Job \/ worker = Idle
  BY DEF TypeInv, TypeOK
<1>1. CASE worker' = worker
  BY <1>1 DEF WorkerMoves
<1>2. ASSUME NEW r \in Registries, NEW object, StoreRegistry(r, object) PROVE WorkerMoves
  <2>1. CASE Busy(r)
    BY <1>w, <1>2, <2>1 DEF StoreRegistry, Busy, WorkerMoves
  <2> QED BY <1>1, <1>2, <2>1 DEF StoreRegistry
<1>3. ASSUME Reconciler PROVE WorkerMoves
  <2>1. CASE \E r \in Registries : ForgetDeleted(r) \/ GetFails(r)
    BY <1>1, <2>1 DEF ForgetDeleted, GetFails
  <2>2. CASE ReadFails
    BY <1>w, <2>2 DEF ReadFails, Idle, WorkerMoves
  <2>3. CASE UpdateStatus
    BY <2>3 DEF UpdateStatus, Return, WorkerMoves
  <2>4. ASSUME NEW key \in Keys, ApplySecret(key) \/ DeleteSecret(key) PROVE WorkerMoves
    <3>1. worker.step = "sync" /\ worker \in Job
      BY <1>w, <2>4 DEF ApplySecret, DeleteSecret, DeletionsTurn, Idle
    <3> QED BY <2>4, <3>1 DEF ApplySecret, DeleteSecret, WorkerMoves
  <2> QED BY <1>3, <2>1, <2>2, <2>3, <2>4 DEF Reconciler, WorkerMoves
<1>4. ASSUME Manager PROVE WorkerMoves
  BY <1>4
     DEF Manager, DeliverRegistryEvent, DeliverSecretEvent, RefreshPolicy, RefreshNamespaces,
         BackoffExpires, Restart, WorkerMoves
<1>5. ASSUME Users PROVE WorkerMoves
  BY <1>1, <1>2, <1>5
     DEF Users, CreateRegistry, EditRegistry, DeleteRegistry, EditPolicy, CreateNamespace,
         TerminateNamespace, FinalizeNamespace, PurgeSecret, PutSecret, RemoveSecret
<1> QED BY <1>1, <1>3, <1>4, <1>5 DEF Next, vars

(* Only the two loops of a reconcile change a Secret and the worker in one step: the
   first writes the replica where the plan says, the second, once the first is
   through, deletes what the plan says. *)
LEMMA WritesArePlanned ==
    ASSUME TypeInv, [Next]_vars, NEW key \in Keys, OperatorWrites(key)
    PROVE  /\ worker \in Job /\ worker.step = "sync" /\ worker.credentials \in Credentials
           /\ \/ /\ key \in worker.toApply
                 /\ secrets'[key] = BuildPullSecret(worker.registry, worker.credentials)
              \/ /\ key \in worker.toDelete /\ worker.toApply = {}
                 /\ secrets'[key] = NoObject
<1>1. \/ \E target \in Keys : ApplySecret(target) \/ DeleteSecret(target)
      \/ UNCHANGED secrets \/ UNCHANGED worker
  BY DEF Next, Reconciler, Manager, Users, vars, apiVars, ForgetDeleted, StartReconcile, GetFails,
         ReadFails, Plan, UpdateStatus, DeliverRegistryEvent, DeliverSecretEvent, RefreshPolicy,
         RefreshNamespaces, BackoffExpires, Restart, CreateRegistry, EditRegistry, DeleteRegistry,
         EditPolicy, CreateNamespace, TerminateNamespace, FinalizeNamespace, PurgeSecret, PutSecret,
         RemoveSecret
<1>2. PICK target \in Keys : ApplySecret(target) \/ DeleteSecret(target)
  BY <1>1 DEF OperatorWrites
<1>3. worker \in Job /\ worker.step = "sync" /\ worker.credentials \in Credentials
  BY <1>2 DEF ApplySecret, DeleteSecret, DeletionsTurn, TypeInv, TypeOK, CredentialsResolved, Idle
<1>4. CASE ApplySecret(target)
  <2>1. \/ secrets' = secrets
        \/ secrets' = [secrets EXCEPT ![target] =
                         BuildPullSecret(worker.registry, worker.credentials)]
    BY <1>4 DEF ApplySecret, WriteSecret
  <2> QED BY <1>3, <1>4, <2>1 DEF ApplySecret, OperatorWrites, TypeInv, TypeOK
<1>5. CASE DeleteSecret(target)
  <2>1. secrets' = secrets \/ secrets' = [secrets EXCEPT ![target] = NoObject]
    BY <1>5 DEF DeleteSecret, WriteSecret
  <2> QED BY <1>3, <1>5, <2>1 DEF DeleteSecret, DeletionsTurn, OperatorWrites, TypeInv, TypeOK
<1> QED BY <1>2, <1>4, <1>5

-----------------------------------------------------------------------------
(* A plan never wants two replicas in one namespace, whatever overrides, explicit and
   derived names say, and none in a namespace that is excluded or was not listed
   (EffectiveTargets, NamespaceSelected). *)
THEOREM OneTargetPerNamespace ==
    ASSUME NEW selection \in NamespaceSelection, NEW server, NEW excluded, NEW inventory,
           NEW key1 \in EffectiveTargets(selection, server, excluded, inventory),
           NEW key2 \in EffectiveTargets(selection, server, excluded, inventory),
           key1[1] = key2[1]
    PROVE  /\ key1 = key2
           /\ key1[1] \in inventory \ Elements(excluded)
<1>1. PICK n \in inventory : /\ NamespaceSelected(selection, excluded, n)
                             /\ key1 \in {n} \X TargetNames(selection, server, n)
  BY DEF EffectiveTargets
<1>2. PICK n2 \in inventory : key2 \in {n2} \X TargetNames(selection, server, n2)
  BY DEF EffectiveTargets
<1>3. /\ key1 = <<n, key1[2]>> /\ key2 = <<n, key2[2]>>
      /\ key1[2] \in TargetNames(selection, server, n)
      /\ key2[2] \in TargetNames(selection, server, n)
  BY <1>1, <1>2
<1>4. key1[2] = key2[2]
  <2> DEFINE overrides == selection.namespaceOverrides
             ours == {i \in DOMAIN overrides : overrides[i].namespace = n}
  <2>1. DOMAIN overrides \subseteq Nat
    <3>1. overrides \in Seq([namespace : Namespaces, secretName : SecretNames])
      BY DEF NamespaceSelection
    <3>2. DOMAIN overrides = 1..Len(overrides) /\ Len(overrides) \in Nat
      BY <3>1, LenProperties
    <3> QED BY <3>2
  <2>2. \A i, j \in ours : i <= j /\ j <= i => i = j
    BY <2>1
  <2>3. CASE ours # {}
    <3>1. PICK i \in ours : key1[2] = overrides[i].secretName /\ \A j \in ours : j <= i
      BY <1>3, <2>3 DEF TargetNames
    <3>2. PICK i2 \in ours : key2[2] = overrides[i2].secretName /\ \A j \in ours : j <= i2
      BY <1>3, <2>3 DEF TargetNames
    <3> QED BY <2>2, <3>1, <3>2
  <2>4. CASE ours = {}
    BY <1>3, <2>4 DEF TargetNames
  <2> QED BY <2>3, <2>4
<1> QED BY <1>1, <1>3, <1>4 DEF NamespaceSelected

(* The selections validateTargets covers whole: the inventory it is given holds the
   namespaces the selection names, those it leaves out are unknown to it. *)
ByName(job) == job.object.spec.namespaces.policy = "Inclusive"

(* ListedForeignUntouched is about steps; what makes each of them harmless is that
   the plan in the worker names no Secret that was foreign when it was made. *)
ForeignSpared ==
    worker \in Job /\ worker.step = "sync" /\ ByName(worker)
        => (worker.toApply \cup worker.toDelete) \cap worker.foreign = {}

(* Every target of a selection by name is among those validation looked at, whatever
   namespaces the cluster has (policyAwareNamespaceInventory). *)
LEMMA InclusiveTargetsValidated ==
    ASSUME NEW selection, NEW server, NEW excluded, NEW inventory,
           selection.policy = "Inclusive"
    PROVE  EffectiveTargets(selection, server, excluded, inventory)
             \subseteq EffectiveTargets(selection, server, excluded,
                           PolicyAwareNamespaceInventory(selection, excluded))
<1>1. ASSUME NEW n, NamespaceSelected(selection, excluded, n)
      PROVE  n \in PolicyAwareNamespaceInventory(selection, excluded)
  BY <1>1 DEF NamespaceSelected, PolicyAwareNamespaceInventory
<1> QED BY <1>1 DEF EffectiveTargets

(* A plan that passed validation spares what was foreign in the list. *)
LEMMA PlanSparesForeign ==
    ASSUME TypeInv, Plan
    PROVE  ForeignSpared'
<1> SUFFICES ASSUME worker' \in Job, worker'.step = "sync", ByName(worker')
             PROVE  (worker'.toApply \cup worker'.toDelete) \cap worker'.foreign = {}
  BY DEF ForeignSpared
<1> DEFINE r == worker.registry
           spec == worker.object.spec
           inventory == {n \in Namespaces : cachedNamespaces[n] # "absent"}
           targets == EffectiveTargets(spec.namespaces, worker.credentials.server,
                                       worker.excluded, inventory)
           looked == EffectiveTargets(spec.namespaces, worker.credentials.server, worker.excluded,
                         PolicyAwareNamespaceInventory(spec.namespaces, worker.excluded))
<1>j. worker \in Job
  BY DEF Plan, TypeInv, TypeOK, Idle
<1>1. /\ DesiredSecretsResult(r, spec, worker.credentials, worker.excluded, cachedSecrets) = "Synced"
      /\ worker'.object = worker.object
      /\ worker'.toApply \subseteq targets
      /\ worker'.toDelete = ObsoleteSecrets(r, cachedSecrets, targets)
      /\ worker'.foreign = {key \in Keys : cachedSecrets[key] # NoObject
                                           /\ ~OwnedBy(cachedSecrets[key], r)}
  BY <1>j DEF Plan, Job
<1>2. ValidateTargets(r, looked, cachedSecrets)
  BY <1>1 DEF DesiredSecretsResult, ValidateRegistryPullSecret
<1>3. targets \subseteq looked
  BY <1>1, InclusiveTargetsValidated DEF ByName
<1>4. \A key \in targets : cachedSecrets[key] = NoObject \/ OwnedBy(cachedSecrets[key], r)
  BY <1>2, <1>3 DEF ValidateTargets
<1>5. \A key \in worker'.toDelete : OwnedBy(cachedSecrets[key], r)
  BY <1>1 DEF ObsoleteSecrets
<1> HIDE DEF targets, r
<1> QED BY <1>1, <1>4, <1>5

(* Every other step leaves the plan, shortens it or ends it. *)
LEMMA ForeignStep == TypeInv /\ ForeignSpared /\ [Next]_vars => ForeignSpared'
<1> SUFFICES ASSUME TypeInv, ForeignSpared, [Next]_vars PROVE ForeignSpared'
  OBVIOUS
<1>1. CASE worker' = worker
  BY <1>1 DEF ForeignSpared, ByName
<1>2. CASE worker' = Idle
  BY <1>2 DEF ForeignSpared, Idle, Job
<1>3. ASSUME NEW r \in Registries, StartReconcile(r) PROVE ForeignSpared'
  BY <1>3 DEF StartReconcile, ForeignSpared
<1>4. CASE Plan
  BY <1>4, PlanSparesForeign
<1>5. CASE worker \in Job /\ worker' = Failed
  BY <1>5 DEF Failed, Job, ForeignSpared
<1>6. CASE worker \in Job /\ worker' = [worker EXCEPT !.fresh = FALSE]
  <2>1. /\ worker'.object = worker.object /\ worker'.foreign = worker.foreign
        /\ worker'.toApply = worker.toApply /\ worker'.toDelete = worker.toDelete
        /\ worker'.step = worker.step
    BY <1>6 DEF Job
  <2> QED BY <1>6, <2>1 DEF ForeignSpared, ByName
<1>7. ASSUME NEW key \in Keys, worker \in Job, worker.step = "sync",
             \/ worker' = [worker EXCEPT !.toApply = @ \ {key}, !.applied = @ + 1]
             \/ worker' = [worker EXCEPT !.toDelete = @ \ {key}, !.deleted = @ + 1]
      PROVE  ForeignSpared'
  <2>1. CASE worker' = [worker EXCEPT !.toApply = @ \ {key}, !.applied = @ + 1]
    <3>1. worker'.toApply = worker.toApply \ {key} /\ worker'.toDelete = worker.toDelete
      BY <1>7, <2>1 DEF Job
    <3>2. worker'.object = worker.object /\ worker'.foreign = worker.foreign
      BY <1>7, <2>1 DEF Job
    <3> QED BY <1>7, <3>1, <3>2 DEF ForeignSpared, ByName
  <2>2. CASE worker' = [worker EXCEPT !.toDelete = @ \ {key}, !.deleted = @ + 1]
    <3>1. worker'.toDelete = worker.toDelete \ {key} /\ worker'.toApply = worker.toApply
      BY <1>7, <2>2 DEF Job
    <3>2. worker'.object = worker.object /\ worker'.foreign = worker.foreign
      BY <1>7, <2>2 DEF Job
    <3> QED BY <1>7, <3>1, <3>2 DEF ForeignSpared, ByName
  <2> QED BY <1>7, <2>1, <2>2
<1> QED BY <1>1, <1>2, <1>3, <1>4, <1>5, <1>6, <1>7, WorkerStep DEF WorkerMoves

(* Hearing what another manager does changes no plan. *)
LEMMA HeardKeepsForeign ==
    ASSUME ForeignSpared, Heard
    PROVE  ForeignSpared'
<1>1. CASE worker' = worker
  BY <1>1 DEF ForeignSpared, ByName
<1>2. CASE worker \in Job /\ worker' = [worker EXCEPT !.fresh = FALSE]
  <2>1. /\ worker'.object = worker.object /\ worker'.foreign = worker.foreign
        /\ worker'.toApply = worker.toApply /\ worker'.toDelete = worker.toDelete
        /\ worker'.step = worker.step
    BY <1>2 DEF Job
  <2> QED BY <1>2, <2>1 DEF ForeignSpared, ByName
<1> QED BY <1>1, <1>2 DEF Heard

(* What a step of a reconcile spares: what was foreign in the list it worked from *)
SparesListed ==
    \A key \in Keys : OperatorWrites(key) /\ worker.object.spec.namespaces.policy = "Inclusive"
        => key \notin worker.foreign

(* A plan that spares what is foreign is all that the loops carry out. *)
LEMMA SparingStep ==
    ASSUME TypeInv, ForeignSpared, [Next]_vars
    PROVE  SparesListed
BY WritesArePlanned DEF SparesListed, ForeignSpared, ByName

(* There is no plan at the start. *)
LEMMA ForeignInit == Init => ForeignSpared
BY DEF Init, ForeignSpared, Idle, Job

(* A reconcile of a selection by name creates, overwrites and deletes nothing that was
   another's in the list it worked from, whatever was edited, replaced or lost
   meanwhile (validateTargets, ObsoleteSecrets, the loops of Reconcile). *)
THEOREM OwnershipCorrect == Spec => ListedForeignUntouched
<1>1. TypeInv /\ ForeignSpared /\ [Next]_vars =>
        [\A key \in Keys : OperatorWrites(key)
            /\ worker.object.spec.namespaces.policy = "Inclusive"
          => key \notin worker.foreign]_vars
  BY SparingStep DEF SparesListed
<1> QED BY <1>1, ForeignInit, ForeignStep, TypeCorrect, PTL DEF Spec, ListedForeignUntouched

-----------------------------------------------------------------------------
(* What a reconcile reads determines what it has to write.  The worker holds what it
   has read in fields of the same names as the record of the last success. *)
CredentialsOf(inputs) == ResolveRegistryCredentials(inputs.object.spec, inputs.source)

TargetsOf(inputs) ==
    EffectiveTargets(inputs.object.spec.namespaces, CredentialsOf(inputs).server,
                     inputs.excluded, inputs.inventory)

Syncing == worker \in Job /\ worker.step = "sync"

(* The reconciles whose replicas are in place or being put there *)
InUse == ({synced[r] : r \in Registries} \ {NoObject}) \cup (IF Syncing THEN {worker} ELSE {})

(* What users and the rest of the cluster are relied upon to do: they write no
   replica that is in place in a live namespace, they do not write the operator's
   labels, and no namespace is created anew under the name of one listed before.
   The controller watches neither replicas nor namespaces and would not notice. *)
UsersKeepOff ==
    /\ \A key \in Keys : secrets'[key] # secrets[key] /\ worker' = worker =>
         /\ \A r \in Registries : ~OwnedBy(secrets'[key], r)
         /\ namespaces[key[1]] = "active" => \A inputs \in InUse : key \notin TargetsOf(inputs)
    /\ \A n \in Namespaces : namespaces[n] # "active" /\ namespaces'[n] = "active" =>
         \A inputs \in InUse : n \notin inputs.inventory

(* The list of Secrets a reconcile plans with is up to date, however old the other
   caches are and however much changes after the list. *)
ListsCurrent == Plan => \A key \in Keys : cachedSecrets[key] = secrets[key]

(* Validation refuses a selection by name that claims the replica of another
   RegistryPullSecret, but does not see where an Exclusive selection reaches: those
   are relied upon to claim none. *)
ExclusivesKeepOff ==
    Plan /\ worker.object.spec.namespaces.policy = "Exclusive" =>
        \A key \in Keys, r \in Registries \ {worker.registry} :
            OwnedBy(cachedSecrets[key], r) => key \notin TargetsOf(worker')

Rely == UsersKeepOff /\ ListsCurrent /\ ExclusivesKeepOff

(* Replicated, said of any reconcile: its replicas are right wherever the namespace
   is live, and no other Secret carries the labels of r *)
CarriedOut(r, inputs) ==
    /\ CredentialsOf(inputs) \in Credentials /\ TargetsOf(inputs) \subseteq Keys
    /\ \A key \in Keys :
         IF key \in TargetsOf(inputs)
         THEN namespaces[key[1]] = "active" =>
                 secrets[key] = BuildPullSecret(r, CredentialsOf(inputs))
         ELSE ~OwnedBy(secrets[key], r)

(* Only a reconcile that went through all its Secrets reports success. *)
JobInv ==
    worker \in Job =>
        /\ worker.credentials = CredentialsOf(worker)
        /\ worker.step = "status" => worker.result # "Synced"

(* How far the reconcile in the worker has come: whatever is not on its lists any
   more is as it should be, and what is on them belongs to nobody else. *)
PlanInv ==
    Syncing =>
        /\ worker.toApply \subseteq TargetsOf(worker) /\ TargetsOf(worker) \subseteq Keys
        /\ worker.toDelete \cap TargetsOf(worker) = {}
        /\ \A key \in Keys :
             /\ key \in TargetsOf(worker) \ worker.toApply /\ namespaces[key[1]] = "active"
                  => secrets[key] = BuildPullSecret(worker.registry, worker.credentials)
             /\ key \notin TargetsOf(worker) \cup worker.toDelete
                  => ~OwnedBy(secrets[key], worker.registry)
             /\ key \in worker.toApply \cup worker.toDelete
                  => \A other \in Registries \ {worker.registry} : ~OwnedBy(secrets[key], other)

SettledCarriedOut ==
    \A r \in Registries : Exists(r) /\ ~Triggered(r) =>
        synced[r] # NoObject /\ CarriedOut(r, synced[r])

(* SettledIsReplicated alone is not inductive: a reconcile has to arrive there. *)
ReplicasInv == JobInv /\ PlanInv /\ SettledCarriedOut

-----------------------------------------------------------------------------
(* The reference definition of the expected replicas agrees with the planner. *)
LEMMA ExpectedAreTargets ==
    ASSUME TypeInv, NEW r \in Registries, synced[r] # NoObject
    PROVE  ExpectedKeys(r) = TargetsOf(synced[r])
<1> DEFINE selection == synced[r].object.spec.namespaces
           listed == Elements(selection.namespaces)
           chosen == IF selection.policy = "Inclusive" THEN listed ELSE Namespaces \ listed
           eligible == (chosen \cap synced[r].inventory) \ Elements(synced[r].excluded)
           selected == {n \in synced[r].inventory :
                          NamespaceSelected(selection, synced[r].excluded, n)}
           server == ResolveRegistryCredentials(synced[r].object.spec, synced[r].source).server
<1>1. synced[r] \in Inputs
  BY DEF TypeInv, TypeOK
<1>2. synced[r].object.spec \in Specs /\ synced[r].inventory \subseteq Namespaces
  BY <1>1 DEF Inputs, RegistryPullSecret
<1>3. selection.policy \in {"Inclusive", "Exclusive"}
  BY <1>2, ControllerAssumption DEF NamespaceSelection
<1>4. eligible = selected
  BY <1>2, <1>3 DEF NamespaceSelected
<1>5. ExpectedKeys(r) = UNION {{n} \X TargetNames(selection, server, n) : n \in eligible}
  BY DEF ExpectedKeys
<1>6. TargetsOf(synced[r]) = UNION {{n} \X TargetNames(selection, server, n) : n \in selected}
  BY DEF TargetsOf, CredentialsOf, EffectiveTargets
<1> HIDE DEF eligible, selected, server, selection
<1> QED BY <1>4, <1>5, <1>6

(* A target lies in a namespace that was listed. *)
LEMMA TargetListed ==
    ASSUME NEW inputs, NEW key \in TargetsOf(inputs)
    PROVE  key[1] \in inputs.inventory
BY DEF TargetsOf, EffectiveTargets

(* A replica is owned by the RegistryPullSecret it was built for and by no other. *)
LEMMA BuiltIsOwned ==
    ASSUME NEW r \in Registries, NEW credentials \in Credentials, NEW other
    PROVE  OwnedBy(BuildPullSecret(r, credentials), other) <=> other = r
<1>1. BuildPullSecret(r, credentials) # NoObject
  BY BuildType, ControllerAssumption
<1> QED BY <1>1 DEF OwnedBy, BuildPullSecret

(* A Secret that needs no apply is the replica. *)
LEMMA NoApplyNeeded ==
    ASSUME NEW existing \in Secret \cup {NoObject}, NEW desired \in Secret,
           ~SecretNeedsApply(existing, desired)
    PROVE  existing = desired
<1>1. existing \in Secret /\ existing.labels = desired.labels /\ existing.type = desired.type
        /\ existing.data = desired.data
  BY DEF SecretNeedsApply
<1> QED BY <1>1 DEF Secret

-----------------------------------------------------------------------------
(* No trigger is taken away, and what the last success was stays on record. *)
TriggersKept ==
    \A r \in Registries : Exists(r)' /\ ~Triggered(r)' =>
        Exists(r) /\ ~Triggered(r) /\ synced'[r] = synced[r]

(* A step that leaves what r has in place as it is, where it still matters *)
Undisturbed(r, inputs) ==
    /\ \A key \in Keys : secrets'[key] # secrets[key] =>
         ~OwnedBy(secrets'[key], r) /\ (key \in TargetsOf(inputs) => namespaces[key[1]] # "active")
    /\ \A n \in Namespaces : namespaces[n] # "active" /\ namespaces'[n] = "active" =>
         n \notin inputs.inventory

(* The worker goes on with the same plan. *)
SamePlan ==
    /\ worker'.registry = worker.registry /\ worker'.object = worker.object
    /\ worker'.source = worker.source /\ worker'.excluded = worker.excluded
    /\ worker'.inventory = worker.inventory /\ worker'.credentials = worker.credentials
    /\ worker'.toApply = worker.toApply /\ worker'.toDelete = worker.toDelete

(* Whatever takes no trigger away and leaves the replicas of the settled alone keeps
   them carried out. *)
LEMMA SettledKept ==
    ASSUME SettledCarriedOut, TriggersKept,
           \A r \in Registries : Exists(r) /\ ~Triggered(r) => Undisturbed(r, synced[r])
    PROVE  SettledCarriedOut'
<1> SUFFICES ASSUME NEW r \in Registries, Exists(r)', ~Triggered(r)'
             PROVE  synced'[r] # NoObject /\ CarriedOut(r, synced[r])'
  BY DEF SettledCarriedOut
<1>1. /\ Exists(r) /\ ~Triggered(r) /\ synced'[r] = synced[r]
      /\ synced[r] # NoObject /\ CarriedOut(r, synced[r]) /\ Undisturbed(r, synced[r])
  BY DEF SettledCarriedOut, TriggersKept
<1>2. PICK inputs : inputs = synced[r]
  OBVIOUS
<1>3. \A key \in TargetsOf(inputs) : key[1] \in inputs.inventory
  BY TargetListed
<1>4. \A key \in Keys :
        IF key \in TargetsOf(inputs)
        THEN namespaces'[key[1]] = "active" =>
                secrets'[key] = BuildPullSecret(r, CredentialsOf(inputs))
        ELSE ~OwnedBy(secrets'[key], r)
  <2> SUFFICES ASSUME NEW key \in Keys
               PROVE  IF key \in TargetsOf(inputs)
                      THEN namespaces'[key[1]] = "active" =>
                              secrets'[key] = BuildPullSecret(r, CredentialsOf(inputs))
                      ELSE ~OwnedBy(secrets'[key], r)
    OBVIOUS
  <2>1. key[1] \in Namespaces
    BY DEF Keys
  <2> QED BY <1>1, <1>2, <1>3, <2>1 DEF CarriedOut, Undisturbed
<1> QED BY <1>1, <1>2, <1>4 DEF CarriedOut

(* A plan survives whatever does not touch its Secrets. *)
LEMMA PlanKept ==
    ASSUME TypeInv, JobInv, PlanInv, Syncing' => Syncing /\ SamePlan,
           Syncing => Undisturbed(worker.registry, worker),
           \A key \in Keys : secrets'[key] # secrets[key] =>
                \A r \in Registries : ~OwnedBy(secrets'[key], r)
    PROVE  PlanInv'
<1> SUFFICES ASSUME Syncing, SamePlan PROVE PlanInv'
  BY DEF PlanInv
<1> DEFINE targets == TargetsOf(worker)
<1>1. PICK t : t = targets
  OBVIOUS
<1>2. /\ TargetsOf(worker)' = t
      /\ worker'.toApply = worker.toApply /\ worker'.toDelete = worker.toDelete
      /\ worker'.registry = worker.registry /\ worker'.credentials = worker.credentials
  BY <1>1 DEF SamePlan, TargetsOf, CredentialsOf
<1>3. ASSUME NEW key \in Keys
      PROVE  /\ key \in t \ worker.toApply /\ namespaces'[key[1]] = "active"
                  => secrets'[key] = BuildPullSecret(worker.registry, worker.credentials)
             /\ key \notin t \cup worker.toDelete => ~OwnedBy(secrets'[key], worker.registry)
             /\ key \in worker.toApply \cup worker.toDelete
                  => \A other \in Registries \ {worker.registry} : ~OwnedBy(secrets'[key], other)
  <2>1. key[1] \in Namespaces
    BY DEF Keys
  <2>2. key \in t => key[1] \in worker.inventory
    BY <1>1, TargetListed
  <2> QED BY <1>1, <2>1, <2>2 DEF PlanInv, Undisturbed
<1> HIDE DEF targets
<1>4. worker.toApply \subseteq t /\ t \subseteq Keys /\ worker.toDelete \cap t = {}
  BY <1>1 DEF PlanInv, targets
<1> QED BY <1>2, <1>3, <1>4 DEF PlanInv

(* A step that writes no Secret and keeps every trigger keeps the invariant. *)
LEMMA FrameKeepsReplicas ==
    ASSUME TypeInv, ReplicasInv, JobInv', TriggersKept, Syncing' => Syncing /\ SamePlan,
           UNCHANGED <<secrets, namespaces>>
    PROVE  ReplicasInv'
<1>1. \A r, inputs : Undisturbed(r, inputs)
  BY DEF Undisturbed
<1> QED BY <1>1, SettledKept, PlanKept DEF ReplicasInv

(* So does a step that does not move the worker, as long as users keep off. *)
LEMMA RelyKeepsReplicas ==
    ASSUME TypeInv, ReplicasInv, JobInv', TriggersKept, UNCHANGED worker, UsersKeepOff
    PROVE  ReplicasInv'
<1>1. ASSUME NEW r \in Registries, NEW inputs \in InUse PROVE Undisturbed(r, inputs)
  BY <1>1 DEF Undisturbed, UsersKeepOff
<1>2. \A r \in Registries : Exists(r) /\ ~Triggered(r) => Undisturbed(r, synced[r])
  BY <1>1 DEF ReplicasInv, SettledCarriedOut, InUse
<1>3. Syncing => Undisturbed(worker.registry, worker)
  BY <1>1 DEF InUse, Syncing, Job
<1>4. SettledCarriedOut'
  BY <1>2, SettledKept DEF ReplicasInv
<1>5. PlanInv'
  BY <1>3, PlanKept DEF ReplicasInv, UsersKeepOff, Syncing, SamePlan
<1> QED BY <1>4, <1>5 DEF ReplicasInv

-----------------------------------------------------------------------------
(* What a reconcile has read stays what it works with until it ends. *)
LEMMA JobKept ==
    ASSUME JobInv, worker \in Job, worker'.object = worker.object,
           worker'.source = worker.source, worker'.credentials = worker.credentials,
           worker'.step = "status" => worker'.result # "Synced"
    PROVE  JobInv'
BY DEF JobInv, CredentialsOf

(* So it does through every step: a new reconcile starts from what it reads, and the
   others shorten its lists or fail it. *)
LEMMA JobStep == TypeInv /\ JobInv /\ [Next]_vars => JobInv'
<1> SUFFICES ASSUME TypeInv, JobInv, [Next]_vars PROVE JobInv'
  OBVIOUS
<1>i. Idle \notin Job
  BY DEF Idle, Job
<1>w. worker \in Job \/ worker = Idle
  BY DEF TypeInv, TypeOK
<1>1. CASE worker' = worker
  BY <1>1 DEF JobInv, CredentialsOf
<1>2. CASE worker' = Idle
  BY <1>2, <1>i DEF JobInv
<1>3. ASSUME NEW r \in Registries, StartReconcile(r) PROVE JobInv'
  <2>1. /\ worker'.credentials = CredentialsOf(worker')
        /\ worker'.step = "status" => worker'.result # "Synced"
    BY <1>3 DEF StartReconcile, CredentialsOf
  <2> QED BY <2>1 DEF JobInv, CredentialsOf
<1>4. CASE Plan
  <2>1. worker \in Job /\ worker.step # "status"
    BY <1>4, <1>w DEF Plan, Idle
  <2>2. /\ worker'.object = worker.object /\ worker'.source = worker.source
        /\ worker'.credentials = worker.credentials
        /\ worker'.step = "status" => worker'.result # "Synced"
    BY <1>4, <2>1 DEF Plan, Job
  <2> QED BY <2>1, <2>2, JobKept
<1>5. CASE worker \in Job /\ worker' = Failed
  <2>1. /\ worker'.object = worker.object /\ worker'.source = worker.source
        /\ worker'.credentials = worker.credentials /\ worker'.result = "SyncFailed"
    BY <1>5 DEF Failed, Job
  <2> QED BY <1>5, <2>1, JobKept
<1>6. CASE worker \in Job /\ worker' = [worker EXCEPT !.fresh = FALSE]
  <2>1. /\ worker'.object = worker.object /\ worker'.source = worker.source
        /\ worker'.credentials = worker.credentials
        /\ worker'.step = worker.step /\ worker'.result = worker.result
    BY <1>6 DEF Job
  <2> QED BY <1>6, <2>1, JobKept DEF JobInv
<1>7. ASSUME NEW key \in Keys, worker \in Job, worker.step = "sync",
             \/ worker' = [worker EXCEPT !.toApply = @ \ {key}, !.applied = @ + 1]
             \/ worker' = [worker EXCEPT !.toDelete = @ \ {key}, !.deleted = @ + 1]
      PROVE  JobInv'
  <2>1. /\ worker'.object = worker.object /\ worker'.source = worker.source
        /\ worker'.credentials = worker.credentials /\ worker'.step = "sync"
    BY <1>7 DEF Job
  <2> QED BY <1>7, <2>1, JobKept
<1> QED BY <1>1, <1>2, <1>3, <1>4, <1>5, <1>6, <1>7, WorkerStep DEF WorkerMoves

-----------------------------------------------------------------------------
(* Triggered reads the queues, the worker's name and the undelivered events. *)
LEMMA SameTriggers ==
    ASSUME TypeInv, UNCHANGED <<registryPullSecrets, synced, registryEvents>>,
           queue \cup backoff \subseteq queue' \cup backoff',
           \A r \in Registries : Busy(r) => Busy(r)' \/ r \in queue' \cup backoff'
    PROVE  TriggersKept
BY DEF TriggersKept, Triggered, Exists

(* A plan that passed validation and needs neither apply nor delete is carried out;
   what it writes or deletes is nobody else's. *)
LEMMA PlanKeepsReplicas ==
    ASSUME SafetyInv, ReplicasInv, JobInv', ListsCurrent, ExclusivesKeepOff, Plan
    PROVE  ReplicasInv'
<1> DEFINE r == worker.registry
           spec == worker.object.spec
           inventory == {n \in Namespaces : cachedNamespaces[n] # "absent"}
           targets == EffectiveTargets(spec.namespaces, worker.credentials.server,
                                       worker.excluded, inventory)
           replica == BuildPullSecret(r, worker.credentials)
           needed == {key \in targets : SecretNeedsApply(cachedSecrets[key], replica)}
<1>j. worker \in Job /\ worker.step = "plan" /\ worker.credentials \in Credentials /\ worker # Idle
  BY DEF Plan, SafetyInv, LocalInv, TypeInv, TypeOK, CredentialsResolved, Idle
<1>t. r \in Registries /\ spec \in Specs
  BY <1>j DEF Job, RegistryPullSecret
<1>1. SettledCarriedOut'
  <2>1. worker'.registry = worker.registry /\ worker'.step \in {"sync", "status"}
    BY <1>j DEF Plan, Job
  <2>2. \A x \in Registries : Busy(x) => Busy(x)'
    BY <2>1 DEF Busy, Idle
  <2>3. TriggersKept
    BY <2>2, SameTriggers DEF Plan, apiVars, cacheVars, queueVars, SafetyInv, LocalInv
  <2>4. \A x, inputs : Undisturbed(x, inputs)
    BY DEF Undisturbed, Plan, apiVars
  <2> QED BY <2>3, <2>4, SettledKept DEF ReplicasInv
<1>2. ASSUME Syncing' PROVE PlanInv'
  <2>1. /\ DesiredSecretsResult(r, spec, worker.credentials, worker.excluded, cachedSecrets) = "Synced"
        /\ worker'.registry = r /\ worker'.object = worker.object
        /\ worker'.source = worker.source /\ worker'.excluded = worker.excluded
        /\ worker'.credentials = worker.credentials /\ worker'.inventory = inventory
        /\ worker'.toApply = needed
        /\ worker'.toDelete = ObsoleteSecrets(r, cachedSecrets, targets)
    BY <1>2, <1>j DEF Syncing, Plan, Job
  <2>2. TargetsOf(worker)' = targets
    BY <2>1, <1>j DEF TargetsOf, CredentialsOf, ReplicasInv, JobInv
  <2>3. \A key \in Keys : cachedSecrets[key] = secrets[key]
    BY DEF ListsCurrent
  <2>4. secrets' = secrets /\ namespaces' = namespaces
    BY DEF Plan, apiVars
  <2>5. replica \in Secret
    BY <1>j, <1>t, BuildType
  <2>6. ASSUME NEW key \in Keys, key \in targets \ needed PROVE secrets[key] = replica
    <3>1. secrets[key] \in Secret \cup {NoObject} /\ ~SecretNeedsApply(secrets[key], replica)
      BY <2>3, <2>6 DEF SafetyInv, LocalInv, TypeInv, TypeOK
    <3> QED BY <2>5, <3>1, NoApplyNeeded
  <2>7. ASSUME NEW key \in Keys, key \notin targets \cup worker'.toDelete
        PROVE  ~OwnedBy(secrets[key], r)
    BY <2>1, <2>3, <2>7 DEF ObsoleteSecrets
  <2>8. ASSUME NEW key \in Keys, key \in needed \cup worker'.toDelete,
               NEW other \in Registries \ {r}
        PROVE  ~OwnedBy(secrets[key], other)
    <3>1. CASE key \in needed /\ spec.namespaces.policy = "Exclusive"
      <4>1. key \in TargetsOf(worker')
        BY <2>2, <3>1 DEF TargetsOf, CredentialsOf
      <4> QED BY <2>3, <2>8, <3>1, <4>1 DEF ExclusivesKeepOff
    <3>2. CASE key \in needed /\ spec.namespaces.policy = "Inclusive"
      <4> DEFINE looked == EffectiveTargets(spec.namespaces, worker.credentials.server, worker.excluded,
                             PolicyAwareNamespaceInventory(spec.namespaces, worker.excluded))
      <4>1. ValidateTargets(r, looked, cachedSecrets)
        BY <2>1 DEF DesiredSecretsResult, ValidateRegistryPullSecret
      <4>2. key \in looked
        BY <3>2, InclusiveTargetsValidated
      <4>3. secrets[key] # NoObject => OwnedBy(secrets[key], r)
        BY <2>3, <4>1, <4>2 DEF ValidateTargets
      <4> QED BY <2>8, <4>3 DEF OwnedBy
    <3>3. CASE key \in worker'.toDelete
      BY <2>1, <2>3, <2>8, <3>3 DEF ObsoleteSecrets, OwnedBy
    <3>4. spec.namespaces.policy \in {"Inclusive", "Exclusive"}
      BY <1>t, ControllerAssumption DEF NamespaceSelection
    <3> QED BY <2>8, <3>1, <3>2, <3>3, <3>4
  <2>9. /\ worker'.toApply \subseteq targets /\ targets \subseteq Keys
        /\ worker'.toDelete \cap targets = {}
    <3>1. /\ TargetsDerivable(worker.credentials.server)
          /\ spec.namespaces \in NamespaceSelection /\ worker.credentials.server \in Servers
      BY <1>j, <1>t, <2>1, ResultType, ControllerAssumption DEF Credentials
    <3>2. targets \subseteq Keys
      BY <3>1, TargetsType
    <3> QED BY <2>1, <3>2 DEF ObsoleteSecrets
  <2> HIDE DEF targets, needed, replica, r
  <2>10. worker'.registry = r /\ BuildPullSecret(r, worker.credentials) = replica
    BY <2>1 DEF replica, r
  <2> QED BY <2>1, <2>2, <2>4, <2>6, <2>7, <2>8, <2>9, <2>10 DEF PlanInv
<1> QED BY <1>1, <1>2 DEF ReplicasInv, PlanInv

(* A write the plan calls for harms no other RegistryPullSecret. *)
LEMMA WriteSparesSettled ==
    ASSUME SafetyInv, ReplicasInv, Syncing,
           worker'.registry = worker.registry, worker' # Idle,
           NEW key \in worker.toApply \cup worker.toDelete, NEW object,
           secrets' = secrets \/ secrets' = [secrets EXCEPT ![key] = object],
           \A other \in Registries \ {worker.registry} : ~OwnedBy(object, other),
           UNCHANGED <<registryPullSecrets, namespaces, synced, registryEvents, queueVars>>
    PROVE  SettledCarriedOut'
<1>0. key \in Keys /\ secrets \in [Keys -> Secret \cup {NoObject}]
  BY DEF Syncing, Job, SafetyInv, LocalInv, TypeInv, TypeOK
<1>1. TriggersKept
  <2>1. \A r \in Registries : Busy(r) => Busy(r)'
    BY DEF Busy
  <2> QED BY <2>1, SameTriggers DEF SafetyInv, LocalInv, queueVars
<1>2. ASSUME NEW r \in Registries, Exists(r), ~Triggered(r) PROVE Undisturbed(r, synced[r])
  <2>1. r # worker.registry
    <3>1. Idle \notin Job
      BY DEF Idle, Job
    <3> QED BY <1>2, <3>1 DEF Triggered, Busy, Syncing
  <2>2. CarriedOut(r, synced[r])
    BY <1>2 DEF ReplicasInv, SettledCarriedOut
  <2>3. ~OwnedBy(secrets[key], r) /\ ~OwnedBy(object, r)
    BY <1>0, <2>1 DEF ReplicasInv, PlanInv
  <2>4. ASSUME key \in TargetsOf(synced[r]), namespaces[key[1]] = "active" PROVE FALSE
    <3>1. /\ secrets[key] = BuildPullSecret(r, CredentialsOf(synced[r]))
          /\ CredentialsOf(synced[r]) \in Credentials
      BY <1>0, <2>2, <2>4 DEF CarriedOut
    <3> QED BY <2>3, <3>1, BuiltIsOwned
  <2> QED BY <1>0, <2>3, <2>4 DEF Undisturbed
<1> QED BY <1>1, <1>2, SettledKept DEF ReplicasInv

(* One round of the apply loop *)
LEMMA ApplyKeepsReplicas ==
    ASSUME SafetyInv, ReplicasInv, JobInv', NEW key \in Keys, ApplySecret(key)
    PROVE  ReplicasInv'
<1> DEFINE r == worker.registry
           replica == BuildPullSecret(r, worker.credentials)
           shorter == [worker EXCEPT !.toApply = @ \ {key}, !.applied = @ + 1]
<1>j. /\ worker \in Job /\ worker.step = "sync" /\ worker.credentials \in Credentials
      /\ r \in Registries /\ key \in worker.toApply
  BY DEF ApplySecret, SafetyInv, LocalInv, TypeInv, TypeOK, CredentialsResolved, Idle, Job
<1>0. \A other : OwnedBy(replica, other) <=> other = r
  BY <1>j, BuiltIsOwned
<1>1. /\ UNCHANGED <<registryPullSecrets, namespaces, synced, registryEvents, queueVars>>
      /\ secrets' = secrets \/ secrets' = [secrets EXCEPT ![key] = replica]
      /\ worker' = Failed \/ (worker' = shorter /\ secrets' = [secrets EXCEPT ![key] = replica])
  BY DEF ApplySecret, WriteSecret
<1>2. /\ shorter.registry = r /\ shorter.object = worker.object /\ shorter.source = worker.source
      /\ shorter.excluded = worker.excluded /\ shorter.inventory = worker.inventory
      /\ shorter.credentials = worker.credentials /\ shorter.toApply = worker.toApply \ {key}
      /\ shorter.toDelete = worker.toDelete /\ shorter.step = "sync"
      /\ Failed.registry = r /\ Failed.step = "status"
  <2>1. shorter.toApply = worker.toApply \ {key} /\ shorter.toDelete = worker.toDelete
    BY <1>j DEF Job
  <2> QED BY <1>j, <2>1 DEF Failed, Job
<1>3. worker'.registry = r /\ worker' # Idle
  <2>1. worker'.step \in {"sync", "status"} /\ worker'.registry = r
    BY <1>1, <1>2
  <2> QED BY <2>1 DEF Idle
<1>4. SettledCarriedOut'
  BY <1>j, <1>0, <1>1, <1>3, WriteSparesSettled DEF Syncing
<1>5. CASE worker' = Failed
  <2>1. PlanInv'
    BY <1>2, <1>5 DEF PlanInv, Syncing
  <2> QED BY <1>4, <2>1 DEF ReplicasInv
<1>6. CASE worker' = shorter /\ secrets' = [secrets EXCEPT ![key] = replica]
  <2>1. PICK t : t = TargetsOf(worker)
    OBVIOUS
  <2>2. TargetsOf(worker)' = t
    BY <1>2, <1>6, <2>1 DEF TargetsOf, CredentialsOf
  <2>3. /\ \A k \in Keys : secrets'[k] = IF k = key THEN replica ELSE secrets[k]
        /\ namespaces' = namespaces
    BY <1>1, <1>6 DEF SafetyInv, LocalInv, TypeInv, TypeOK
  <2>4. /\ worker.toApply \subseteq t /\ t \subseteq Keys /\ worker.toDelete \cap t = {}
        /\ \A k \in Keys :
             /\ k \in t \ worker.toApply /\ namespaces[k[1]] = "active" => secrets[k] = replica
             /\ k \notin t \cup worker.toDelete => ~OwnedBy(secrets[k], r)
             /\ k \in worker.toApply \cup worker.toDelete
                  => \A other \in Registries \ {r} : ~OwnedBy(secrets[k], other)
    BY <1>j, <2>1 DEF ReplicasInv, PlanInv, Syncing
  <2>5. /\ worker'.toApply = worker.toApply \ {key} /\ worker'.toDelete = worker.toDelete
        /\ worker'.registry = r /\ BuildPullSecret(r, worker'.credentials) = replica
    BY <1>2, <1>6
  <2> HIDE DEF shorter, replica, r
  <2>6. PlanInv'
    BY <1>0, <1>j, <2>2, <2>3, <2>4, <2>5 DEF PlanInv
  <2> QED BY <1>4, <2>6 DEF ReplicasInv
<1> QED BY <1>1, <1>5, <1>6

(* One round of the delete loop *)
LEMMA DeleteKeepsReplicas ==
    ASSUME SafetyInv, ReplicasInv, JobInv', NEW key \in Keys, DeleteSecret(key)
    PROVE  ReplicasInv'
<1> DEFINE r == worker.registry
           replica == BuildPullSecret(r, worker.credentials)
           shorter == [worker EXCEPT !.toDelete = @ \ {key}, !.deleted = @ + 1]
<1>j. /\ worker \in Job /\ worker.step = "sync"
      /\ r \in Registries /\ key \in worker.toDelete
  BY DEF DeleteSecret, DeletionsTurn, SafetyInv, LocalInv, TypeInv, TypeOK, Idle, Job
<1>0. \A other : ~OwnedBy(NoObject, other)
  BY DEF OwnedBy
<1>1. /\ UNCHANGED <<registryPullSecrets, namespaces, synced, registryEvents, queueVars>>
      /\ secrets' = secrets \/ secrets' = [secrets EXCEPT ![key] = NoObject]
      /\ worker' = Failed \/ (worker' = shorter /\ secrets' = [secrets EXCEPT ![key] = NoObject])
  BY DEF DeleteSecret, WriteSecret
<1>2. /\ shorter.registry = r /\ shorter.object = worker.object /\ shorter.source = worker.source
      /\ shorter.excluded = worker.excluded /\ shorter.inventory = worker.inventory
      /\ shorter.credentials = worker.credentials /\ shorter.toDelete = worker.toDelete \ {key}
      /\ shorter.toApply = worker.toApply /\ shorter.step = "sync"
      /\ Failed.registry = r /\ Failed.step = "status"
  <2>1. shorter.toDelete = worker.toDelete \ {key} /\ shorter.toApply = worker.toApply
    BY <1>j DEF Job
  <2> QED BY <1>j, <2>1 DEF Failed, Job
<1>3. worker'.registry = r /\ worker' # Idle
  <2>1. worker'.step \in {"sync", "status"} /\ worker'.registry = r
    BY <1>1, <1>2
  <2> QED BY <2>1 DEF Idle
<1>4. SettledCarriedOut'
  BY <1>j, <1>0, <1>1, <1>3, WriteSparesSettled DEF Syncing
<1>5. CASE worker' = Failed
  <2>1. PlanInv'
    BY <1>2, <1>5 DEF PlanInv, Syncing
  <2> QED BY <1>4, <2>1 DEF ReplicasInv
<1>6. CASE worker' = shorter /\ secrets' = [secrets EXCEPT ![key] = NoObject]
  <2>1. PICK t : t = TargetsOf(worker)
    OBVIOUS
  <2>2. TargetsOf(worker)' = t
    BY <1>2, <1>6, <2>1 DEF TargetsOf, CredentialsOf
  <2>3. /\ \A k \in Keys : secrets'[k] = IF k = key THEN NoObject ELSE secrets[k]
        /\ namespaces' = namespaces
    BY <1>1, <1>6 DEF SafetyInv, LocalInv, TypeInv, TypeOK
  <2>4. /\ worker.toApply \subseteq t /\ t \subseteq Keys /\ worker.toDelete \cap t = {}
        /\ \A k \in Keys :
             /\ k \in t \ worker.toApply /\ namespaces[k[1]] = "active" => secrets[k] = replica
             /\ k \notin t \cup worker.toDelete => ~OwnedBy(secrets[k], r)
             /\ k \in worker.toApply \cup worker.toDelete
                  => \A other \in Registries \ {r} : ~OwnedBy(secrets[k], other)
    BY <1>j, <2>1 DEF ReplicasInv, PlanInv, Syncing
  <2>5. /\ worker'.toDelete = worker.toDelete \ {key} /\ worker'.toApply = worker.toApply
        /\ worker'.registry = r /\ BuildPullSecret(r, worker'.credentials) = replica
    BY <1>2, <1>6
  <2> HIDE DEF shorter, replica, r
  <2>6. PlanInv'
    BY <1>0, <1>j, <2>2, <2>3, <2>4, <2>5 DEF PlanInv
  <2> QED BY <1>4, <2>6 DEF ReplicasInv
<1> QED BY <1>1, <1>5, <1>6

(* The end of a reconcile: one that failed, or whose status write did, is retried;
   one that succeeded has carried out its plan. *)
LEMMA UpdateStatusKeepsReplicas ==
    ASSUME SafetyInv, ReplicasInv, JobInv', UpdateStatus
    PROVE  ReplicasInv'
<1> DEFINE success == [object   |-> worker.object,   source    |-> worker.source,
                       excluded |-> worker.excluded, inventory |-> worker.inventory]
<1>j. worker \in Job /\ worker # Idle /\ worker' = Idle
  BY DEF UpdateStatus, Finished, Return, Idle, Job, SafetyInv, LocalInv, TypeInv, TypeOK
<1>r. PICK r \in Registries : r = worker.registry
  BY <1>j DEF Job
<1>1. UNCHANGED <<registryPullSecrets, namespaces, secrets, queue>>
  BY DEF UpdateStatus
<1>2. PlanInv'
  <2>1. Idle \notin Job
    BY DEF Idle, Job
  <2> QED BY <1>j, <2>1 DEF PlanInv, Syncing
<1>3. \A other : Stale(registryEvents, other) => Stale(registryEvents', other)
  <2>1. CASE StoreStatus
    BY <1>1, <1>j, <2>1, StoreStatusKeeps DEF SafetyInv, LocalInv
  <2>2. CASE UNCHANGED registryEvents
    BY <2>2
  <2> QED BY <2>1, <2>2 DEF UpdateStatus
<1>4. \/ backoff' = backoff \cup {r} /\ synced' = synced
      \/ /\ backoff' = backoff /\ synced' = [synced EXCEPT ![r] = success]
         /\ worker.result = "Synced" /\ Finished
  BY <1>r DEF UpdateStatus, Return
<1>5. ASSUME NEW x \in Registries, x # r, Exists(x)', ~Triggered(x)'
      PROVE  synced'[x] # NoObject /\ CarriedOut(x, synced[x])'
  <2>1. Exists(x) /\ ~Triggered(x) /\ synced'[x] = synced[x]
    BY <1>1, <1>3, <1>4, <1>5, <1>r
       DEF Exists, Triggered, Busy, SafetyInv, LocalInv, TypeInv, TypeOK
  <2>2. synced[x] # NoObject /\ CarriedOut(x, synced[x])
    BY <2>1 DEF ReplicasInv, SettledCarriedOut
  <2> QED BY <1>1, <2>1, <2>2 DEF CarriedOut
<1>6. ASSUME Exists(r)', r \notin backoff'
      PROVE  synced'[r] # NoObject /\ CarriedOut(r, synced[r])'
  <2>1. /\ synced'[r] = success /\ Syncing
        /\ worker.toApply = {} /\ worker.toDelete = {}
    BY <1>j, <1>4, <1>6
       DEF Finished, Syncing, ReplicasInv, JobInv, SafetyInv, LocalInv, TypeInv, TypeOK
  <2>2. success \in Inputs
    BY <1>j DEF Job, Inputs
  <2>3. PICK t : t = TargetsOf(worker)
    OBVIOUS
  <2>4. TargetsOf(success) = t /\ CredentialsOf(success) = worker.credentials
    BY <1>j, <2>3 DEF TargetsOf, CredentialsOf, ReplicasInv, JobInv
  <2>5. worker.credentials \in Credentials
    BY <2>1 DEF Syncing, SafetyInv, LocalInv, TypeInv, CredentialsResolved
  <2>6. CarriedOut(r, success)
    BY <1>r, <2>1, <2>3, <2>4, <2>5 DEF CarriedOut, ReplicasInv, PlanInv
  <2>7. PICK s : s = success
    OBVIOUS
  <2> HIDE DEF success
  <2>8. CarriedOut(r, s) /\ synced'[r] = s /\ s # NoObject
    BY <2>1, <2>2, <2>6, <2>7, ControllerAssumption
  <2> QED BY <1>1, <2>8 DEF CarriedOut
<1>7. SettledCarriedOut'
  BY <1>5, <1>6 DEF SettledCarriedOut, Triggered
<1> QED BY <1>2, <1>7 DEF ReplicasInv

(* Every step of Reconcile; its start and its failures write nothing. *)
LEMMA ReconcilerKeepsReplicas ==
    ASSUME SafetyInv, ReplicasInv, JobInv', Rely, Reconciler
    PROVE  ReplicasInv'
<1> USE DEF Rely
<1>0. TypeInv
  BY DEF SafetyInv, LocalInv
<1>1. ASSUME NEW r \in Registries, ForgetDeleted(r) PROVE ReplicasInv'
  <2>1. ~Stale(registryEvents, r) => ~Exists(r)
    BY <1>1
       DEF ForgetDeleted, SafetyInv, LocalInv, CachesCoherent, Coherent, Exists, TypeInv, TypeOK
  <2>2. TriggersKept
    BY <1>1, <2>1 DEF ForgetDeleted, apiVars, cacheVars, TriggersKept, Triggered, Exists, Busy
  <2> QED BY <1>0, <1>1, <2>2, RelyKeepsReplicas DEF ForgetDeleted
<1>2. ASSUME NEW r \in Registries, StartReconcile(r) PROVE ReplicasInv'
  <2>1. worker = Idle /\ worker'.registry = r /\ worker'.step \in {"plan", "status"}
    BY <1>2 DEF StartReconcile
  <2>2. Busy(r)'
    BY <2>1 DEF Busy, Idle
  <2>3. TriggersKept
    BY <1>2, <2>1, <2>2
       DEF StartReconcile, apiVars, cacheVars, TriggersKept, Triggered, Exists, Busy
  <2>4. ~Syncing'
    BY <2>1 DEF Syncing
  <2> QED BY <1>0, <1>2, <2>3, <2>4, FrameKeepsReplicas DEF StartReconcile, apiVars
<1>3. ASSUME NEW r \in Registries, GetFails(r) PROVE ReplicasInv'
  <2>1. TriggersKept
    BY <1>3 DEF GetFails, apiVars, cacheVars, TriggersKept, Triggered, Exists, Busy
  <2> QED BY <1>0, <1>3, <2>1, RelyKeepsReplicas DEF GetFails
<1>4. ASSUME ReadFails PROVE ReplicasInv'
  <2>1. worker \in Job
    BY <1>0, <1>4 DEF ReadFails, Idle, TypeInv, TypeOK
  <2>2. worker'.step = "status" /\ worker'.registry = worker.registry
    BY <1>4, <2>1 DEF ReadFails, Failed, Job
  <2>3. \A r \in Registries : Busy(r) => Busy(r)'
    BY <2>2 DEF Busy, Idle
  <2>4. TriggersKept
    BY <1>0, <1>4, <2>3, SameTriggers DEF ReadFails, apiVars, cacheVars, queueVars
  <2> QED BY <1>0, <1>4, <2>2, <2>4, FrameKeepsReplicas DEF ReadFails, apiVars, Syncing
<1> QED
  BY <1>1, <1>2, <1>3, <1>4, PlanKeepsReplicas, ApplyKeepsReplicas, DeleteKeepsReplicas,
     UpdateStatusKeepsReplicas DEF Reconciler

(* Deliveries, the backoff and a restart write nothing, and a restart lists every
   RegistryPullSecret anew. *)
LEMMA ManagerKeepsReplicas ==
    ASSUME SafetyInv, ReplicasInv, JobInv', Rely, Manager
    PROVE  ReplicasInv'
<1> USE DEF Rely
<1>0. TypeInv
  BY DEF SafetyInv, LocalInv
<1>1. ASSUME DeliverRegistryEvent PROVE ReplicasInv'
  <2>1. \A r : Stale(registryEvents, r) => Stale(registryEvents', r) \/ r \in queue'
    <3>1. /\ registryEvents \in Seq(Event(Registries, RegistryPullSecret \cup {NoObject}))
          /\ registryEvents # << >>
          /\ registryEvents' = Tail(registryEvents) /\ Head(registryEvents).key \in queue'
      BY <1>0, <1>1 DEF DeliverRegistryEvent, TypeInv, TypeOK
    <3> QED BY <3>1, DeliverStale
  <2>2. TriggersKept
    BY <1>1, <2>1 DEF DeliverRegistryEvent, apiVars, TriggersKept, Triggered, Exists, Busy
  <2> QED BY <1>0, <1>1, <2>2, RelyKeepsReplicas DEF DeliverRegistryEvent
<1>2. ASSUME \/ DeliverSecretEvent \/ RefreshPolicy \/ RefreshNamespaces
             \/ \E r \in Registries : BackoffExpires(r)
      PROVE  ReplicasInv'
  <2>1. /\ UNCHANGED <<registryPullSecrets, synced, registryEvents, worker>>
        /\ queue \cup backoff \subseteq queue' \cup backoff'
    BY <1>2 DEF DeliverSecretEvent, RefreshPolicy, RefreshNamespaces, BackoffExpires, apiVars,
                cacheVars, queueVars
  <2>2. TriggersKept
    BY <1>0, <2>1, SameTriggers DEF Busy
  <2> QED BY <1>0, <2>1, <2>2, RelyKeepsReplicas
<1>3. ASSUME Restart PROVE ReplicasInv'
  <2>1. TriggersKept
    BY <1>3 DEF Restart, apiVars, TriggersKept, Triggered, Exists
  <2>2. ~Syncing'
    <3>1. Idle \notin Job
      BY DEF Idle, Job
    <3> QED BY <1>3, <3>1 DEF Restart, Syncing
  <2> QED BY <1>0, <1>3, <2>1, <2>2, FrameKeepsReplicas DEF Restart, apiVars
<1> QED BY <1>1, <1>2, <1>3 DEF Manager

(* Users who keep off: an edit of a RegistryPullSecret triggers it, and what else they
   write is no replica in use. *)
LEMMA UsersKeepReplicas ==
    ASSUME SafetyInv, ReplicasInv, JobInv', Rely, Users
    PROVE  ReplicasInv'
<1> USE DEF Rely
<1>0. TypeInv
  BY DEF SafetyInv, LocalInv
<1>1. ASSUME NEW r \in Registries, NEW object \in RegistryPullSecret \cup {NoObject},
             StoreRegistry(r, object), object = NoObject \/ UNCHANGED synced,
             \A x \in Registries \ {r} : synced'[x] = synced[x],
             UNCHANGED <<secrets, namespaces, queueVars>>
      PROVE  ReplicasInv'
  <2>1. \A x : Stale(registryEvents', x) <=> Stale(registryEvents, x) \/ x = r
    BY <1>1, EmitRegistryKeeps DEF StoreRegistry, SafetyInv, LocalInv
  <2>2. \A x \in Registries \ {r} : registryPullSecrets'[x] = registryPullSecrets[x]
    BY <1>0, <1>1 DEF StoreRegistry, TypeInv, TypeOK
  <2>3. /\ worker' \in Job => worker \in Job /\ SamePlan /\ worker'.step = worker.step
        /\ worker \in Job => worker'.registry = worker.registry /\ worker'.step = worker.step
        /\ worker = Idle => worker' = Idle
    <3>1. CASE worker' = worker
      BY <3>1 DEF SamePlan
    <3>2. CASE worker \in Job /\ worker' = [worker EXCEPT !.fresh = FALSE]
      <4>1. /\ worker'.toApply = worker.toApply /\ worker'.toDelete = worker.toDelete
            /\ worker'.registry = worker.registry /\ worker'.object = worker.object
            /\ worker'.source = worker.source /\ worker'.excluded = worker.excluded
            /\ worker'.inventory = worker.inventory /\ worker'.credentials = worker.credentials
            /\ worker'.step = worker.step
        BY <3>2 DEF Job
      <4> QED BY <3>2, <4>1 DEF SamePlan, Job, Idle
    <3> QED BY <1>0, <1>1, <3>1, <3>2 DEF StoreRegistry, Busy, TypeInv, TypeOK
  <2>4. \A x : Busy(x) => Busy(x)'
    BY <1>0, <2>3 DEF Busy, Idle, Job, TypeInv, TypeOK
  <2>5. TriggersKept
    BY <1>1, <2>1, <2>2, <2>4 DEF TriggersKept, Triggered, Exists, queueVars
  <2> QED BY <1>0, <1>1, <2>3, <2>5, FrameKeepsReplicas DEF Syncing
<1>2. ASSUME NEW r \in Registries, NEW spec \in Specs,
             CreateRegistry(r, spec) \/ EditRegistry(r, spec)
      PROVE  ReplicasInv'
  <2>1. CASE CreateRegistry(r, spec)
    <3>1. [spec |-> spec, generation |-> 1] \in RegistryPullSecret
      BY DEF RegistryPullSecret
    <3> QED BY <1>1, <2>1, <3>1 DEF CreateRegistry
  <2>2. CASE EditRegistry(r, spec)
    <3>1. [spec |-> spec, generation |-> registryPullSecrets[r].generation + 1]
            \in RegistryPullSecret
      BY <1>0, <2>2 DEF EditRegistry, Exists, RegistryPullSecret, TypeInv, TypeOK
    <3> QED BY <1>1, <2>2, <3>1 DEF EditRegistry
  <2> QED BY <1>2, <2>1, <2>2
<1>3. ASSUME NEW r \in Registries, DeleteRegistry(r) PROVE ReplicasInv'
  <2>1. \A x \in Registries \ {r} : synced'[x] = synced[x]
    BY <1>0, <1>3 DEF DeleteRegistry, TypeInv, TypeOK
  <2> QED BY <1>1, <1>3, <2>1 DEF DeleteRegistry
<1>4. ASSUME \/ \E setting \in PolicySettings \cup {NoObject} : EditPolicy(setting)
             \/ \E n \in Namespaces :
                  CreateNamespace(n) \/ TerminateNamespace(n) \/ FinalizeNamespace(n)
             \/ \E key \in Keys : PurgeSecret(key)
             \/ \E write \in UserWrites : PutSecret(write.key, write.object)
             \/ \E key \in UserDeletes : RemoveSecret(key)
      PROVE  ReplicasInv'
  <2>1. UNCHANGED <<registryPullSecrets, synced, registryEvents, queueVars, worker>>
    BY <1>4 DEF EditPolicy, CreateNamespace, TerminateNamespace, FinalizeNamespace, PurgeSecret,
                PutSecret, RemoveSecret, cacheVars
  <2>2. TriggersKept
    BY <1>0, <2>1, SameTriggers DEF Busy, queueVars
  <2> QED BY <1>0, <2>1, <2>2, RelyKeepsReplicas
<1> QED BY <1>2, <1>3, <1>4 DEF Users

(* At the start nothing is settled and the worker is idle. *)
LEMMA ReplicasInit == Init => ReplicasInv
<1>1. Idle \notin Job
  BY DEF Idle, Job
<1> QED BY <1>1 DEF Init, ReplicasInv, JobInv, PlanInv, Syncing, SettledCarriedOut, Triggered

(* The inductive step *)
LEMMA ReplicasStep ==
    ASSUME SafetyInv, ReplicasInv, [Next]_vars, [Rely]_vars
    PROVE  ReplicasInv'
<1>1. JobInv'
  BY JobStep DEF SafetyInv, LocalInv, ReplicasInv
<1>2. CASE UNCHANGED vars
  <2>1. TriggersKept
    BY <1>2 DEF vars, apiVars, cacheVars, queueVars, TriggersKept, Triggered, Exists, Busy
  <2> QED BY <1>1, <1>2, <2>1, FrameKeepsReplicas
          DEF vars, apiVars, SafetyInv, LocalInv, Syncing, SamePlan
<1> QED
  BY <1>1, <1>2, ReconcilerKeepsReplicas, ManagerKeepsReplicas, UsersKeepReplicas DEF Next

(* The invariant behind the theorems below: a reconcile in progress has put in place
   whatever is no longer on its lists, and those that ended with nothing pending have
   put in place everything (the loops of Reconcile, its errors and retries). *)
THEOREM ReplicasCorrect == Spec /\ [][Rely]_vars => []ReplicasInv
<1>1. SafetyInv /\ ReplicasInv /\ [Next]_vars /\ [Rely]_vars => ReplicasInv'
  BY ReplicasStep
<1> QED BY <1>1, ReplicasInit, SafetyCorrect, PTL DEF Spec

(* A RegistryPullSecret for which nothing is queued, running or on its way has exactly
   the replicas its last successful reconcile called for: the right content in every
   live target namespace and no Secret of its own anywhere else, whatever faults, lost
   answers, conflicts and restarts there were (applySecret, deleteSecret, the returns of
   Reconcile), if nobody else touches them and the list it planned with was current. *)
THEOREM SettledReplicasCorrect == Spec /\ [][Rely]_vars => []SettledIsReplicated
<1>1. TypeInv /\ ReplicasInv => SettledIsReplicated
  <2> SUFFICES ASSUME TypeInv, ReplicasInv, NEW r \in Registries, Exists(r), ~Triggered(r)
               PROVE  Replicated(r)
    BY DEF SettledIsReplicated
  <2>1. synced[r] # NoObject /\ CarriedOut(r, synced[r])
    BY DEF ReplicasInv, SettledCarriedOut
  <2>2. ExpectedKeys(r) = TargetsOf(synced[r])
    BY <2>1, ExpectedAreTargets
  <2> QED BY <2>1, <2>2 DEF Replicated, CarriedOut, ReplicaOf, CredentialsOf
<1> QED BY <1>1, ReplicasCorrect, TypeCorrect, PTL

(* Reconcile deletes an obsolete replica only when all the replicas it wants are in
   place in the live namespaces: its two loops run in that order, and a failed apply
   ends it before the second. *)
THEOREM MakeBeforeBreakCorrect == Spec /\ [][Rely]_vars => MakeBeforeBreak
<1> DEFINE InPlace ==
      \A key \in Keys : OperatorWrites(key) /\ secrets'[key] = NoObject =>
        LET selection == worker.object.spec.namespaces
        IN  \A wanted \in EffectiveTargets(selection, worker.credentials.server,
                                           worker.excluded, worker.inventory) :
                namespaces[wanted[1]] = "active" =>
                    secrets[wanted] = BuildPullSecret(worker.registry, worker.credentials)
<1>1. TypeInv /\ ReplicasInv /\ [Next]_vars => InPlace
  <2> SUFFICES ASSUME TypeInv, ReplicasInv, [Next]_vars,
                      NEW key \in Keys, OperatorWrites(key), secrets'[key] = NoObject,
                      NEW wanted \in EffectiveTargets(worker.object.spec.namespaces,
                                                      worker.credentials.server,
                                                      worker.excluded, worker.inventory),
                      namespaces[wanted[1]] = "active"
               PROVE  secrets[wanted] = BuildPullSecret(worker.registry, worker.credentials)
    OBVIOUS
  <2>1. /\ worker \in Job /\ worker.step = "sync" /\ worker.credentials \in Credentials
        /\ \/ secrets'[key] = BuildPullSecret(worker.registry, worker.credentials)
           \/ worker.toApply = {}
    BY WritesArePlanned
  <2>2. worker.toApply = {}
    <3>1. BuildPullSecret(worker.registry, worker.credentials) # NoObject
      BY <2>1, BuildType, ControllerAssumption DEF Job
    <3> QED BY <2>1, <3>1
  <2>3. wanted \in TargetsOf(worker)
    BY <2>1 DEF TargetsOf, ReplicasInv, JobInv
  <2> QED BY <2>1, <2>2, <2>3 DEF ReplicasInv, PlanInv, Syncing
<1> QED BY <1>1, ReplicasCorrect, TypeCorrect, PTL DEF Spec, MakeBeforeBreak

(* A worker that waits for the last event before it reads plans with a current list:
   what the bound of the runs convergence and contention means (Reconcile, the List of
   Secrets). *)
THEOREM LagFreeLists == ASSUME ReadLag = 0 PROVE Spec => [][ListsCurrent]_vars
<1>1. SafetyInv => ListsCurrent
  <2> SUFFICES ASSUME SafetyInv, CachesRecent
               PROVE  \A key \in Keys : cachedSecrets[key] = secrets[key]
    BY DEF ListsCurrent, Plan
  <2>1. secretEvents \in Seq(Event(Keys, Secret \cup {NoObject})) /\ Len(secretEvents) <= 0
    BY DEF CachesRecent, SafetyInv, LocalInv, TypeInv, TypeOK
  <2>2. secretEvents = << >>
    BY <2>1, EmptySeq
  <2>3. DOMAIN secrets = Keys
    BY DEF SafetyInv, LocalInv, TypeInv, TypeOK
  <2> QED BY <2>2, <2>3, EmptyCoherent DEF SafetyInv, LocalInv, CachesCoherent, Coherent
<1> QED BY <1>1, SafetyCorrect, PTL

(* Two RegistryPullSecrets for which nothing is left to do have no target in common
   in a live namespace. *)
THEOREM SettledShareNothing ==
    Spec /\ [][Rely]_vars => [](\A r1, r2 \in Registries :
        /\ r1 # r2 /\ Exists(r1) /\ Exists(r2) /\ ~Triggered(r1) /\ ~Triggered(r2)
        => \A key \in ExpectedKeys(r1) \cap ExpectedKeys(r2) : namespaces[key[1]] # "active")
<1> DEFINE Disjoint == \A r1, r2 \in Registries :
        /\ r1 # r2 /\ Exists(r1) /\ Exists(r2) /\ ~Triggered(r1) /\ ~Triggered(r2)
        => \A key \in ExpectedKeys(r1) \cap ExpectedKeys(r2) : namespaces[key[1]] # "active"
<1>1. TypeInv /\ ReplicasInv => Disjoint
  <2> SUFFICES ASSUME TypeInv, ReplicasInv, NEW r1 \in Registries, NEW r2 \in Registries, r1 # r2,
                      Exists(r1), Exists(r2), ~Triggered(r1), ~Triggered(r2),
                      NEW key \in ExpectedKeys(r1) \cap ExpectedKeys(r2),
                      namespaces[key[1]] = "active"
               PROVE  FALSE
    OBVIOUS
  <2>1. ASSUME NEW r \in Registries, Exists(r), ~Triggered(r), key \in ExpectedKeys(r)
        PROVE  /\ secrets[key] = BuildPullSecret(r, CredentialsOf(synced[r]))
               /\ CredentialsOf(synced[r]) \in Credentials
    <3>1. synced[r] # NoObject /\ CarriedOut(r, synced[r])
      BY <2>1 DEF ReplicasInv, SettledCarriedOut
    <3>2. key \in TargetsOf(synced[r])
      BY <2>1, <3>1, ExpectedAreTargets
    <3> QED BY <3>1, <3>2 DEF CarriedOut
  <2> QED BY <2>1, BuiltIsOwned
<1> QED BY <1>1, ReplicasCorrect, TypeCorrect, PTL

-----------------------------------------------------------------------------
(* The last success of r was with the spec it has: what it wanted, r claims. *)
Claims(r) ==
    Exists(r) /\ synced[r] # NoObject /\ synced[r].object = registryPullSecrets[r]

(* No other RegistryPullSecret has or can create this Secret: it is r's or a foreign
   one, or there is none and nothing can be created in its namespace. *)
Held(r, key) ==
    IF secrets[key] = NoObject
    THEN namespaces[key[1]] # "active"
    ELSE \A other \in Registries \ {r} : ~OwnedBy(secrets[key], other)

(* Nothing of r is on its way to the cache but the object as it is. *)
Seen(r) ==
    /\ cachedRegistries[r] = registryPullSecrets[r]
    /\ \A i \in DOMAIN registryEvents :
         registryEvents[i].key = r => registryEvents[i].object = registryPullSecrets[r]

(* What users may do to the Secrets: anything but to write the operator's labels, to
   delete a replica from a live namespace and to bring a namespace back. *)
UsersLeaveReplicas ==
    /\ \A key \in Keys : secrets'[key] # secrets[key] /\ worker' = worker =>
         /\ \A r \in Registries : ~OwnedBy(secrets'[key], r)
         /\ namespaces[key[1]] = "active" /\ secrets'[key] = NoObject
              => \A inputs \in InUse : key \notin TargetsOf(inputs)
    /\ \A n \in Namespaces : namespaces[n] # "active" /\ namespaces'[n] = "active" =>
         \A inputs \in InUse : n \notin inputs.inventory

(* An Exclusive selection, which validation does not look at, finds nothing foreign
   where it selects. *)
ExclusivesFindNothing ==
    Plan /\ Syncing' /\ worker.object.spec.namespaces.policy = "Exclusive" =>
        \A key \in Keys : key \in TargetsOf(worker') /\ cachedSecrets[key] # NoObject
            => OwnedBy(cachedSecrets[key], worker.registry)

(* As long as a spec stays, its reconciles want what the last successful one wanted
   wherever the namespace is live: no exclusion and no other server takes it away. *)
TargetsStand ==
    Plan /\ Syncing' /\ synced[worker.registry] # NoObject
         /\ synced[worker.registry].object = worker.object
    => \A key \in TargetsOf(synced[worker.registry]) :
         namespaces[key[1]] = "active" => key \in TargetsOf(worker')

RelyOfClaims == UsersLeaveReplicas /\ ListsCurrent /\ ExclusivesFindNothing /\ TargetsStand

(* No reconcile goes back to an older object. *)
NoStepBack ==
    /\ \A r \in Registries : synced[r] # NoObject =>
         synced[r].object.generation <= registryPullSecrets[r].generation
    /\ worker \in Job /\ worker.fresh => Seen(worker.registry)
    /\ \A r \in Registries : Claims(r) =>
         Seen(r) /\ (Busy(r) => worker.object = registryPullSecrets[r])

(* What the plan in the worker means to those who claim: it deletes nothing of theirs,
   and where it wants what they have the apply is still to come and will be refused. *)
PlanRespectsClaims ==
    Syncing =>
        /\ worker.toApply \subseteq TargetsOf(worker) /\ TargetsOf(worker) \subseteq Keys
        /\ worker.toDelete \cap TargetsOf(worker) = {}
        /\ \A key \in TargetsOf(worker) \ worker.toApply : Held(worker.registry, key)
        /\ \A r \in Registries \ {worker.registry} : Claims(r) =>
             \A key \in TargetsOf(synced[r]) :
               /\ key \notin worker.toDelete
               /\ key \in TargetsOf(worker) =>
                    /\ key \in worker.toApply
                    /\ secrets[key] = NoObject /\ namespaces[key[1]] # "active"
        /\ Claims(worker.registry) =>
             \A key \in TargetsOf(synced[worker.registry]) :
               namespaces[key[1]] = "active" => key \in TargetsOf(worker)

(* Who claims a Secret holds it, and nobody else claims it. *)
ClaimsHeld ==
    /\ \A r \in Registries : Claims(r) =>
         \A key \in TargetsOf(synced[r]) : key \in Keys /\ Held(r, key)
    /\ \A r1, r2 \in Registries : r1 # r2 /\ Claims(r1) /\ Claims(r2) =>
         TargetsOf(synced[r1]) \cap TargetsOf(synced[r2]) = {}

(* NoSharedTarget alone is not inductive: the claims of the one have to be held when
   the other gets there. *)
ClaimsInv == JobInv /\ NoStepBack /\ PlanRespectsClaims /\ ClaimsHeld

-----------------------------------------------------------------------------
(* Every edit of a spec raises the generation. *)
LEMMA GenerationsGrow ==
    ASSUME TypeInv, [Next]_vars, NEW r \in Registries, Exists(r), Exists(r)',
           registryPullSecrets'[r] # registryPullSecrets[r]
    PROVE  registryPullSecrets'[r].generation = registryPullSecrets[r].generation + 1
<1>1. \/ UNCHANGED registryPullSecrets
      \/ \E x \in Registries, spec \in Specs : CreateRegistry(x, spec) \/ EditRegistry(x, spec)
      \/ \E x \in Registries : DeleteRegistry(x)
  BY DEF Next, Reconciler, Manager, Users, vars, apiVars, ForgetDeleted, StartReconcile, GetFails,
         ReadFails, Plan, ApplySecret, DeleteSecret, UpdateStatus, DeliverRegistryEvent,
         DeliverSecretEvent, RefreshPolicy, RefreshNamespaces, BackoffExpires, Restart, EditPolicy,
         CreateNamespace, TerminateNamespace, FinalizeNamespace, PurgeSecret, PutSecret,
         RemoveSecret
<1>2. ASSUME NEW x \in Registries, NEW spec \in Specs,
             CreateRegistry(x, spec) \/ EditRegistry(x, spec)
      PROVE  registryPullSecrets'[r].generation = registryPullSecrets[r].generation + 1
  BY <1>2 DEF CreateRegistry, EditRegistry, StoreRegistry, Exists, TypeInv, TypeOK
<1>3. ASSUME NEW x \in Registries, DeleteRegistry(x)
      PROVE  registryPullSecrets'[r].generation = registryPullSecrets[r].generation + 1
  BY <1>3 DEF DeleteRegistry, StoreRegistry, Exists, TypeInv, TypeOK
<1> QED BY <1>1, <1>2, <1>3

(* Only a reconcile that succeeds makes a claim. *)
NewClaim(r) ==
    UpdateStatus /\ r = worker.registry /\ worker.fresh /\ worker.result = "Synced"
        /\ synced' = Recorded

(* Every other claim was there before, and the step left it alone. *)
LEMMA ClaimsMove ==
    ASSUME SafetyInv, NoStepBack, [Next]_vars, NEW r \in Registries, Claims(r)'
    PROVE  \/ NewClaim(r)
           \/ /\ Claims(r) /\ synced'[r] = synced[r]
              /\ registryPullSecrets'[r] = registryPullSecrets[r]
<1>0. TypeInv /\ TypeInv' /\ CachesCoherent /\ SyncedExists
  BY TypeStep DEF SafetyInv, LocalInv
<1> DEFINE Kept == /\ Claims(r) /\ synced'[r] = synced[r]
                   /\ registryPullSecrets'[r] = registryPullSecrets[r]
<1>1. ASSUME registryPullSecrets'[r] = registryPullSecrets[r], synced'[r] = synced[r]
      PROVE  Kept
  BY <1>1 DEF Claims, Exists
<1>2. CASE Frame
  BY <1>1, <1>2 DEF Frame
<1>3. CASE UpdateStatus
  <2>1. CASE r # worker.registry
    BY <1>0, <1>1, <1>3, <2>1, UpdateStatusFacts DEF Recorded, TypeInv, TypeOK
  <2>2. CASE r = worker.registry
    BY <1>0, <1>1, <1>3, <2>2, UpdateStatusFacts DEF NewClaim
  <2> QED BY <2>1, <2>2
<1>4. CASE \E x \in Registries : ForgetDeleted(x) \/ StartReconcile(x)
  BY <1>1, <1>4 DEF ForgetDeleted, StartReconcile, apiVars
<1>5. CASE ManagerMoves
  BY <1>1, <1>5
     DEF ManagerMoves, DeliverRegistryEvent, DeliverSecretEvent, Restart, apiVars
<1>6. ASSUME NEW x \in Registries, NEW object \in RegistryPullSecret \cup {NoObject},
             UsersStore(x, object)
      PROVE  Kept
  <2>1. CASE x # r
    BY <1>0, <1>1, <1>6, <2>1, UsersStoreFacts DEF UsersStore
  <2>2. CASE x = r
    <3>1. registryPullSecrets'[r] = object /\ object # NoObject /\ synced'[r] = synced[r]
      BY <1>0, <1>6, <2>2, UsersStoreFacts DEF UsersStore, Claims, Exists
    <3>2. synced[r] # NoObject /\ synced[r].object = object /\ Exists(r) /\ Exists(r)'
      BY <1>0, <3>1 DEF Claims, SyncedExists, Exists
    <3>3. CASE object = registryPullSecrets[r]
      BY <1>1, <3>1, <3>3
    <3>4. CASE object # registryPullSecrets[r]
      <4>1. object.generation = registryPullSecrets[r].generation + 1
        BY <1>0, <3>1, <3>2, <3>4, GenerationsGrow
      <4>2. object.generation <= registryPullSecrets[r].generation
        BY <3>2 DEF NoStepBack
      <4>3. registryPullSecrets[r].generation \in Nat
        BY <1>0, <3>2 DEF TypeInv, TypeOK, Exists, RegistryPullSecret
      <4> QED BY <4>1, <4>2, <4>3
    <3> QED BY <3>3, <3>4
  <2> QED BY <2>1, <2>2
<1> QED BY <1>0, <1>2, <1>3, <1>4, <1>5, <1>6, KindsOfSteps DEF ReconcilerMoves, UsersMove

(* Seen is not lost when the API server and the cache stay as they are. *)
LEMMA SeenKept ==
    ASSUME NEW r \in Registries, Seen(r), registryPullSecrets'[r] = registryPullSecrets[r],
           UNCHANGED <<cachedRegistries, registryEvents>>
    PROVE  Seen(r)'
BY DEF Seen

(* An event that announces another object, or this one as it is, keeps it seen. *)
LEMMA SeenEmitted ==
    ASSUME TypeInv, NEW r \in Registries, Seen(r), NEW x \in Registries, NEW object,
           registryPullSecrets'[r] = registryPullSecrets[r],
           x # r \/ object = registryPullSecrets[r],
           UNCHANGED cachedRegistries, registryEvents' = Emit(registryEvents, x, object)
    PROVE  Seen(r)'
<1>1. registryEvents \in Seq(Event(Registries, RegistryPullSecret \cup {NoObject}))
  BY DEF TypeInv, TypeOK
<1> DEFINE event == [key |-> x, object |-> object]
           longer == Append(registryEvents, event)
<1>2. registryEvents' = longer
  BY DEF Emit
<1>3. /\ DOMAIN registryEvents = 1..Len(registryEvents) /\ Len(registryEvents) \in Nat
      /\ DOMAIN longer = 1..Len(registryEvents)+1
      /\ \A i \in 1..Len(registryEvents) : longer[i] = registryEvents[i]
      /\ longer[Len(registryEvents)+1] = event
  BY <1>1
<1>4. ASSUME NEW i \in DOMAIN longer, longer[i].key = r
      PROVE  longer[i].object = registryPullSecrets[r]
  <2>1. CASE i = Len(registryEvents) + 1
    BY <1>3, <1>4, <2>1
  <2>2. CASE i # Len(registryEvents) + 1
    <3>1. i \in DOMAIN registryEvents /\ longer[i] = registryEvents[i]
      BY <1>3, <2>2
    <3> QED BY <1>4, <3>1 DEF Seen
  <2> QED BY <2>1, <2>2
<1> QED BY <1>2, <1>4 DEF Seen

(* A delivery to the cache keeps what was seen. *)
LEMMA SeenDelivered ==
    ASSUME TypeInv, NEW r \in Registries, Seen(r), DeliverRegistryEvent
    PROVE  Seen(r)'
<1>1. /\ registryEvents \in Seq(Event(Registries, RegistryPullSecret \cup {NoObject}))
      /\ registryEvents # << >>
      /\ cachedRegistries \in [Registries -> RegistryPullSecret \cup {NoObject}]
  BY DEF DeliverRegistryEvent, TypeInv, TypeOK
<1>2. /\ DOMAIN registryEvents = 1..Len(registryEvents) /\ Len(registryEvents) \in Nat \ {0}
      /\ Head(registryEvents) = registryEvents[1]
      /\ DOMAIN Tail(registryEvents) = 1..(Len(registryEvents) - 1)
      /\ \A i \in 1..(Len(registryEvents) - 1) : Tail(registryEvents)[i] = registryEvents[i + 1]
  BY <1>1, LenProperties, HeadTailProperties, EmptySeq
<1>3. /\ cachedRegistries' = [cachedRegistries EXCEPT ![registryEvents[1].key] =
                                                         registryEvents[1].object]
      /\ registryEvents' = Tail(registryEvents) /\ registryPullSecrets' = registryPullSecrets
  BY <1>2 DEF DeliverRegistryEvent, Delivered, apiVars
<1>4. cachedRegistries'[r] = registryPullSecrets[r]
  <2>1. 1 \in DOMAIN registryEvents
    BY <1>2
  <2> QED BY <1>1, <1>3, <2>1 DEF Seen
<1>5. ASSUME NEW i \in DOMAIN registryEvents', registryEvents'[i].key = r
      PROVE  registryEvents'[i].object = registryPullSecrets[r]
  <2>1. i + 1 \in DOMAIN registryEvents /\ registryEvents'[i] = registryEvents[i + 1]
    BY <1>2, <1>3
  <2> QED BY <1>5, <2>1 DEF Seen
<1> QED BY <1>3, <1>4, <1>5 DEF Seen

(* A manager starts with no success on record. *)
LEMMA NoStepBackInit == Init => NoStepBack
BY DEF Init, NoStepBack, Claims, Idle, Job

(* What was seen stays seen until the object is written again. *)
LEMMA SeenStep ==
    ASSUME SafetyInv, [Next]_vars, NEW r \in Registries, Seen(r),
           registryPullSecrets'[r] = registryPullSecrets[r]
    PROVE  Seen(r)'
<1>0. TypeInv /\ TypeInv' /\ CachesCoherent
  BY TypeStep DEF SafetyInv, LocalInv
<1>1. CASE Frame
  BY <1>1, SeenKept DEF Frame
<1>2. CASE UpdateStatus
  <2>1. CASE UNCHANGED registryEvents
    BY <1>0, <1>2, <2>1, UpdateStatusFacts, SeenKept
  <2>2. CASE registryEvents' = Emit(registryEvents, worker.registry,
                                    registryPullSecrets[worker.registry])
    <3>1. worker.registry \in Registries /\ UNCHANGED cachedRegistries
      BY <1>0, <1>2, UpdateStatusFacts DEF Job
    <3> QED BY <1>0, <2>2, <3>1, SeenEmitted
  <2>3. StoreStatus \/ UNCHANGED registryEvents
    BY <1>2 DEF UpdateStatus
  <2> QED BY <2>1, <2>2, <2>3 DEF StoreStatus
<1>3. CASE \E x \in Registries : ForgetDeleted(x) \/ StartReconcile(x)
  BY <1>3, SeenKept DEF ForgetDeleted, StartReconcile, cacheVars
<1>4. CASE ManagerMoves
  <2>1. CASE DeliverRegistryEvent
    BY <1>0, <2>1, SeenDelivered
  <2>2. CASE DeliverSecretEvent
    BY <2>2, SeenKept DEF DeliverSecretEvent
  <2>3. CASE Restart
    BY <2>3 DEF Restart, Seen, apiVars
  <2> QED BY <1>4, <2>1, <2>2, <2>3 DEF ManagerMoves
<1>5. ASSUME NEW x \in Registries, NEW object \in RegistryPullSecret \cup {NoObject},
             UsersStore(x, object)
      PROVE  Seen(r)'
  <2>1. x # r \/ object = registryPullSecrets[r]
    BY <1>0, <1>5, UsersStoreFacts
  <2> QED BY <1>0, <1>5, <2>1, SeenEmitted DEF UsersStore, StoreRegistry
<1> QED BY <1>0, <1>1, <1>2, <1>3, <1>4, <1>5, KindsOfSteps DEF ReconcilerMoves, UsersMove

(* NoStepBack is inductive: only what the API server holds is read, and only what was
   read from it as it is becomes a claim. *)
LEMMA NoStepBackStep ==
    ASSUME SafetyInv, NoStepBack, [Next]_vars
    PROVE  NoStepBack'
<1>0. TypeInv /\ TypeInv' /\ CachesCoherent /\ FreshIsCurrent /\ SyncedExists
  BY TypeStep DEF SafetyInv, LocalInv
<1>i. Idle \notin Job
  BY DEF Idle, Job
<1>1. ASSUME NEW r \in Registries, synced'[r] # NoObject
      PROVE  synced'[r].object.generation <= registryPullSecrets'[r].generation
  <2>1. ASSUME synced'[r] = synced[r], registryPullSecrets'[r] = registryPullSecrets[r]
        PROVE  synced'[r].object.generation <= registryPullSecrets'[r].generation
    BY <1>1, <2>1 DEF NoStepBack
  <2>2. CASE UNCHANGED <<synced, registryPullSecrets>>
    BY <2>1, <2>2
  <2>3. CASE UpdateStatus
    <3>1. CASE synced' = Recorded /\ worker.fresh /\ r = worker.registry
      <4>1. synced'[r].object = worker.object
        BY <1>0, <3>1 DEF Recorded, TypeInv, TypeOK
      <4>2. /\ worker.object = registryPullSecrets[r] /\ worker.object \in RegistryPullSecret
            /\ registryPullSecrets'[r] = registryPullSecrets[r]
        BY <1>0, <2>3, <3>1, UpdateStatusFacts DEF FreshIsCurrent, Job
      <4>3. worker.object.generation \in Nat
        BY <4>2 DEF RegistryPullSecret
      <4> QED BY <4>1, <4>2, <4>3
    <3>2. CASE synced' = synced \/ r # worker.registry
      BY <1>0, <2>1, <2>3, <3>2, UpdateStatusFacts DEF Recorded, TypeInv, TypeOK
    <3> QED BY <1>0, <2>3, <3>1, <3>2, UpdateStatusFacts
  <2>4. ASSUME NEW x \in Registries, NEW object \in RegistryPullSecret \cup {NoObject},
               UsersStore(x, object)
        PROVE  synced'[r].object.generation <= registryPullSecrets'[r].generation
    <3>1. CASE x # r
      BY <1>0, <2>1, <2>4, <3>1, UsersStoreFacts DEF UsersStore
    <3>2. CASE x = r
      <4>1. registryPullSecrets'[r] = object /\ object # NoObject /\ synced'[r] = synced[r]
        BY <1>0, <1>1, <2>4, <3>2, UsersStoreFacts DEF UsersStore
      <4>2. Exists(r) /\ Exists(r)'
        BY <1>0, <1>1, <4>1 DEF SyncedExists, Exists
      <4>3. CASE object = registryPullSecrets[r]
        BY <2>1, <4>1, <4>3
      <4>4. CASE object # registryPullSecrets[r]
        <5>1. object.generation = registryPullSecrets[r].generation + 1
          BY <1>0, <4>1, <4>2, <4>4, GenerationsGrow
        <5>2. synced[r].object.generation <= registryPullSecrets[r].generation
          BY <1>1, <4>1 DEF NoStepBack
        <5>3. registryPullSecrets[r] \in RegistryPullSecret /\ synced[r] \in Inputs
          BY <1>0, <1>1, <4>1, <4>2 DEF TypeInv, TypeOK, Exists
        <5>4. registryPullSecrets[r].generation \in Nat /\ synced[r].object.generation \in Nat
          BY <5>3 DEF RegistryPullSecret, Inputs
        <5> QED BY <4>1, <5>1, <5>2, <5>4
      <4> QED BY <4>3, <4>4
    <3> QED BY <3>1, <3>2
  <2>5. UNCHANGED <<synced, registryPullSecrets>> \/ UpdateStatus \/ UsersMove
    BY <1>0, KindsOfSteps
       DEF Frame, ReconcilerMoves, ManagerMoves, ForgetDeleted, StartReconcile,
           DeliverRegistryEvent, DeliverSecretEvent, Restart, apiVars
  <2> QED BY <2>2, <2>3, <2>4, <2>5 DEF UsersMove
<1>2. ASSUME worker' \in Job, worker'.fresh PROVE Seen(worker.registry)'
  <2>1. ASSUME worker \in Job, worker.fresh, worker'.registry = worker.registry,
               registryPullSecrets'[worker.registry] = registryPullSecrets[worker.registry]
        PROVE  Seen(worker.registry)'
    <3>1. PICK r \in Registries : r = worker.registry
      BY <2>1 DEF Job
    <3>2. Seen(r)'
      BY <2>1, <3>1, SeenStep DEF NoStepBack
    <3> QED BY <2>1, <3>1, <3>2 DEF Seen
  <2>2. CASE Frame
    BY <1>2, <1>0, <1>i, <2>1, <2>2 DEF Frame, SameReconcile
  <2>3. ASSUME NEW x \in Registries, StartReconcile(x) PROVE Seen(worker.registry)'
    <3>1. ~Stale(registryEvents, x) /\ worker'.registry = x
      BY <1>2, <2>3 DEF StartReconcile
    <3>2. Seen(x)
      BY <1>0, <3>1 DEF Seen, Stale, CachesCoherent, Coherent, TypeInv, TypeOK
    <3>3. registryPullSecrets'[x] = registryPullSecrets[x]
      BY <2>3 DEF StartReconcile, apiVars
    <3>4. Seen(x)'
      BY <3>2, <3>3, SeenStep
    <3> QED BY <3>1, <3>4 DEF Seen
  <2>4. CASE UpdateStatus \/ Restart
    BY <1>0, <1>2, <1>i, <2>4, UpdateStatusFacts DEF Restart
  <2>5. CASE \E x \in Registries : ForgetDeleted(x)
    BY <1>2, <2>1, <2>5 DEF ForgetDeleted, apiVars
  <2>6. CASE DeliverRegistryEvent \/ DeliverSecretEvent
    BY <1>2, <2>1, <2>6 DEF DeliverRegistryEvent, DeliverSecretEvent, apiVars
  <2>7. ASSUME NEW x \in Registries, NEW object \in RegistryPullSecret \cup {NoObject},
               UsersStore(x, object)
        PROVE  Seen(worker.registry)'
    <3>1. /\ worker \in Job /\ worker.fresh /\ worker.registry # x
          /\ worker'.registry = worker.registry
      BY <1>0, <1>2, <1>i, <2>7, UsersStoreFacts
    <3>2. registryPullSecrets'[worker.registry] = registryPullSecrets[worker.registry]
      BY <1>0, <2>7, <3>1, UsersStoreFacts DEF Job
    <3> QED BY <2>1, <3>1, <3>2 DEF Seen
  <2> QED BY <1>0, <2>2, <2>3, <2>4, <2>5, <2>6, <2>7, KindsOfSteps
          DEF ReconcilerMoves, ManagerMoves, UsersMove
<1>3. ASSUME NEW r \in Registries, Claims(r)' PROVE Seen(r)'
  <2>1. CASE NewClaim(r)
    <3>1. Seen(r)
      BY <1>0, <2>1, UpdateStatusFacts DEF NewClaim, NoStepBack
    <3>2. registryPullSecrets'[r] = registryPullSecrets[r]
      BY <1>0, <2>1, UpdateStatusFacts DEF NewClaim
    <3> QED BY <3>1, <3>2, SeenStep
  <2>2. CASE Claims(r) /\ registryPullSecrets'[r] = registryPullSecrets[r]
    BY <2>2, SeenStep DEF NoStepBack
  <2> QED BY <1>3, <2>1, <2>2, ClaimsMove
<1>4. ASSUME NEW r \in Registries, Claims(r)', Busy(r)'
      PROVE  worker'.object = registryPullSecrets'[r]
  <2>1. ~NewClaim(r)
    BY <1>0, <1>4, UpdateStatusFacts DEF NewClaim, Busy
  <2>2. Claims(r) /\ registryPullSecrets'[r] = registryPullSecrets[r]
    BY <1>4, <2>1, ClaimsMove
  <2>3. ASSUME Busy(r), worker'.object = worker.object
        PROVE  worker'.object = registryPullSecrets'[r]
    BY <2>2, <2>3 DEF NoStepBack
  <2>4. CASE Frame
    BY <1>4, <1>i, <2>3, <2>4 DEF Frame, SameReconcile, Busy
  <2>5. ASSUME NEW x \in Registries, StartReconcile(x)
        PROVE  worker'.object = registryPullSecrets'[r]
    BY <1>4, <2>2, <2>5 DEF StartReconcile, Busy, NoStepBack, Seen
  <2>6. CASE UpdateStatus \/ Restart
    BY <1>0, <1>4, <2>6, UpdateStatusFacts DEF Restart, Busy
  <2>7. CASE \E x \in Registries : ForgetDeleted(x)
    BY <1>4, <2>3, <2>7 DEF ForgetDeleted, Busy
  <2>8. CASE DeliverRegistryEvent \/ DeliverSecretEvent
    BY <1>4, <2>3, <2>8 DEF DeliverRegistryEvent, DeliverSecretEvent, Busy
  <2>9. ASSUME NEW x \in Registries, NEW object \in RegistryPullSecret \cup {NoObject},
               UsersStore(x, object)
        PROVE  worker'.object = registryPullSecrets'[r]
    BY <1>0, <1>4, <1>i, <2>3, <2>9, UsersStoreFacts DEF Busy
  <2> QED BY <1>0, <2>4, <2>5, <2>6, <2>7, <2>8, <2>9, KindsOfSteps
          DEF ReconcilerMoves, ManagerMoves, UsersMove
<1> QED BY <1>1, <1>2, <1>3, <1>4 DEF NoStepBack

-----------------------------------------------------------------------------
(* What is wanted stays held, no namespace of it comes to life, and nothing is created
   in one that is not live. *)
ReplicasLeft ==
    \A inputs \in InUse : \A key \in Keys \cap TargetsOf(inputs) :
        /\ \A r \in Registries : Held(r, key) => Held(r, key)'
        /\ namespaces'[key[1]] = "active" => namespaces[key[1]] = "active"
        /\ secrets[key] = NoObject /\ namespaces[key[1]] # "active" => secrets'[key] = NoObject

(* So it is in every step that does not concern Secrets and namespaces, *)
LEMMA NothingWritten ==
    ASSUME UNCHANGED <<secrets, namespaces>>
    PROVE  ReplicasLeft
BY DEF ReplicasLeft, Held

(* and in every step of users who leave the replicas alone. *)
LEMMA UsersLeave ==
    ASSUME TypeInv, [Next]_vars, UNCHANGED worker, UsersLeaveReplicas
    PROVE  ReplicasLeft
<1>1. ASSUME NEW key \in Keys, secrets'[key] # secrets[key]
      PROVE  secrets'[key] = NoObject \/ namespaces[key[1]] = "active"
  <2>1. \/ UNCHANGED secrets
        \/ \E other \in Keys : PurgeSecret(other) \/ ApplySecret(other) \/ DeleteSecret(other)
        \/ \E write \in UserWrites : PutSecret(write.key, write.object)
        \/ \E other \in UserDeletes : RemoveSecret(other)
    BY DEF Next, Reconciler, Manager, Users, vars, apiVars, ForgetDeleted, StartReconcile,
           GetFails, ReadFails, Plan, UpdateStatus, DeliverRegistryEvent, DeliverSecretEvent,
           RefreshPolicy, RefreshNamespaces, BackoffExpires, Restart, CreateRegistry,
           EditRegistry, DeleteRegistry, EditPolicy, CreateNamespace, TerminateNamespace,
           FinalizeNamespace
  <2>2. ASSUME NEW write \in UserWrites, PutSecret(write.key, write.object)
        PROVE  secrets'[key] = NoObject \/ namespaces[key[1]] = "active"
    BY <1>1, <2>2, ControllerAssumption DEF PutSecret, WriteSecret, TypeInv, TypeOK
  <2>3. ASSUME NEW other \in Keys, PurgeSecret(other) \/ DeleteSecret(other)
        PROVE  secrets'[key] = NoObject \/ namespaces[key[1]] = "active"
    BY <1>1, <2>3 DEF PurgeSecret, DeleteSecret, WriteSecret, TypeInv, TypeOK
  <2>4. ASSUME NEW other \in UserDeletes, RemoveSecret(other)
        PROVE  secrets'[key] = NoObject \/ namespaces[key[1]] = "active"
    BY <1>1, <2>4 DEF RemoveSecret, WriteSecret, TypeInv, TypeOK
  <2>5. ASSUME NEW other \in Keys, ApplySecret(other) PROVE FALSE
    <3>1. worker.step = "sync" /\ worker \in Job
      BY <2>5 DEF ApplySecret, Idle, TypeInv, TypeOK
    <3>2. CASE worker' = Failed
      BY <3>1, <3>2 DEF Failed, Job
    <3>3. CASE worker' = [worker EXCEPT !.toApply = @ \ {other}, !.applied = @ + 1]
      <4>1. worker'.applied = worker.applied + 1 /\ worker.applied \in Nat
        BY <3>1, <3>3 DEF Job
      <4> QED BY <4>1
    <3> QED BY <2>5, <3>2, <3>3 DEF ApplySecret
  <2> QED BY <1>1, <2>1, <2>2, <2>3, <2>4, <2>5
<1>2. ASSUME NEW inputs \in InUse, NEW key \in Keys \cap TargetsOf(inputs)
      PROVE  /\ \A r \in Registries : Held(r, key) => Held(r, key)'
             /\ namespaces'[key[1]] = "active" => namespaces[key[1]] = "active"
             /\ secrets[key] = NoObject /\ namespaces[key[1]] # "active"
                  => secrets'[key] = NoObject
  <2>1. key[1] \in inputs.inventory /\ key[1] \in Namespaces
    BY TargetListed DEF Keys
  <2>2. namespaces'[key[1]] = "active" => namespaces[key[1]] = "active"
    BY <2>1 DEF UsersLeaveReplicas
  <2>3. secrets'[key] # secrets[key] =>
          /\ \A r \in Registries : ~OwnedBy(secrets'[key], r)
          /\ secrets'[key] = NoObject => namespaces[key[1]] # "active"
    BY DEF UsersLeaveReplicas
  <2>4. ASSUME NEW r \in Registries, Held(r, key) PROVE Held(r, key)'
    BY <2>2, <2>3, <2>4 DEF Held
  <2> QED BY <1>1, <2>2, <2>4
<1> QED BY <1>2 DEF ReplicasLeft

(* No step but a success makes a claim. *)
ClaimsStay == \A r \in Registries : Claims(r)' => Claims(r) /\ synced'[r] = synced[r]

(* What is claimed stays held as long as what is wanted is left alone. *)
LEMMA ClaimsKept ==
    ASSUME ClaimsHeld, ClaimsStay, ReplicasLeft
    PROVE  ClaimsHeld'
<1>1. ASSUME NEW r \in Registries, Claims(r)'
      PROVE  /\ Claims(r) /\ TargetsOf(synced[r])' = TargetsOf(synced[r])
             /\ \A key \in TargetsOf(synced[r]) : key \in Keys /\ Held(r, key)'
  <2>1. Claims(r) /\ synced'[r] = synced[r] /\ synced[r] \in InUse
    BY <1>1 DEF ClaimsStay, Claims, InUse
  <2>2. TargetsOf(synced[r])' = TargetsOf(synced[r])
    BY <2>1 DEF TargetsOf, CredentialsOf
  <2> QED BY <2>1, <2>2 DEF ClaimsHeld, ReplicasLeft
<1>2. ASSUME NEW r1 \in Registries, NEW r2 \in Registries, r1 # r2, Claims(r1)', Claims(r2)'
      PROVE  (TargetsOf(synced[r1]) \cap TargetsOf(synced[r2]))' = {}
  BY <1>1, <1>2 DEF ClaimsHeld
<1> QED BY <1>1, <1>2 DEF ClaimsHeld

(* PlanRespectsClaims after a step, with what it reads of the worker given by name *)
LEMMA RespectsNext ==
    ASSUME NEW t, NEW me \in Registries, TargetsOf(worker)' = t, worker'.registry = me,
           worker'.toApply \subseteq t, t \subseteq Keys, worker'.toDelete \cap t = {},
           \A key \in t \ worker'.toApply : Held(me, key)',
           \A r \in Registries \ {me} : Claims(r)' =>
             \A key \in TargetsOf(synced[r])' :
               /\ key \notin worker'.toDelete
               /\ key \in t => /\ key \in worker'.toApply
                               /\ secrets'[key] = NoObject /\ namespaces'[key[1]] # "active",
           Claims(me)' => \A key \in TargetsOf(synced[me])' :
                            namespaces'[key[1]] = "active" => key \in t
    PROVE  PlanRespectsClaims'
<1>1. \A key \in t \ worker'.toApply : Held(worker.registry, key)'
  BY DEF Held
<1>2. Claims(worker.registry)' => Claims(me)'
  BY DEF Claims, Exists
<1>3. TargetsOf(synced[worker.registry])' = TargetsOf(synced[me])'
  BY DEF TargetsOf, CredentialsOf
<1> QED BY <1>1, <1>2, <1>3 DEF PlanRespectsClaims

(* The plan goes on respecting the claims, too. *)
LEMMA RespectKept ==
    ASSUME ClaimsHeld, PlanRespectsClaims, ClaimsStay, ReplicasLeft,
           Syncing' => Syncing /\ SamePlan
    PROVE  PlanRespectsClaims'
<1> SUFFICES ASSUME Syncing, SamePlan PROVE PlanRespectsClaims'
  BY DEF PlanRespectsClaims
<1>1. PICK t : t = TargetsOf(worker)
  OBVIOUS
<1>r. PICK me \in Registries : me = worker.registry
  BY DEF Syncing, Job
<1>2. /\ TargetsOf(worker)' = t
      /\ worker'.toApply = worker.toApply /\ worker'.toDelete = worker.toDelete
      /\ worker'.registry = me /\ worker \in InUse
  <2>1. TargetsOf(worker)' = t
    BY <1>1 DEF SamePlan, TargetsOf, CredentialsOf
  <2>2. worker \in InUse
    BY DEF Syncing, Job, InUse
  <2> QED BY <1>r, <2>1, <2>2 DEF SamePlan
<1>3. /\ worker.toApply \subseteq t /\ t \subseteq Keys /\ worker.toDelete \cap t = {}
      /\ \A key \in t \ worker.toApply : Held(me, key)
  BY <1>1, <1>r DEF PlanRespectsClaims
<1>4. \A key \in t \ worker.toApply : Held(me, key)'
  BY <1>1, <1>2, <1>3 DEF ReplicasLeft
<1>5. ASSUME NEW r \in Registries, Claims(r)'
      PROVE  /\ Claims(r) /\ TargetsOf(synced[r])' = TargetsOf(synced[r])
             /\ TargetsOf(synced[r]) \subseteq Keys /\ synced[r] \in InUse
  <2>1. Claims(r) /\ synced'[r] = synced[r] /\ synced[r] \in InUse
    BY <1>5 DEF ClaimsStay, Claims, InUse
  <2>2. TargetsOf(synced[r])' = TargetsOf(synced[r])
    BY <2>1 DEF TargetsOf, CredentialsOf
  <2> QED BY <2>1, <2>2 DEF ClaimsHeld
<1>6. ASSUME NEW r \in Registries \ {me}, Claims(r)', NEW key \in TargetsOf(synced[r])'
      PROVE  /\ key \notin worker'.toDelete
             /\ key \in t => /\ key \in worker'.toApply
                             /\ secrets'[key] = NoObject /\ namespaces'[key[1]] # "active"
  BY <1>1, <1>r, <1>2, <1>5, <1>6 DEF PlanRespectsClaims, ReplicasLeft
<1>7. ASSUME Claims(me)', NEW key \in TargetsOf(synced[me])', namespaces'[key[1]] = "active"
      PROVE  key \in t
  BY <1>1, <1>r, <1>5, <1>7 DEF PlanRespectsClaims, ReplicasLeft
<1> QED BY <1>2, <1>3, <1>4, <1>6, <1>7, RespectsNext

(* A new plan respects the claims of the others: what they hold is not its own, so it
   does not delete it and, where it wants it, validation or the rely refuses; and it
   wants all that the last success of the same spec put in place. *)
LEMMA PlanRespects ==
    ASSUME SafetyInv, JobInv, NoStepBack, ClaimsHeld, Plan,
           ListsCurrent, ExclusivesFindNothing, TargetsStand
    PROVE  PlanRespectsClaims'
<1> DEFINE r == worker.registry
           spec == worker.object.spec
           inventory == {n \in Namespaces : cachedNamespaces[n] # "absent"}
           targets == EffectiveTargets(spec.namespaces, worker.credentials.server,
                                       worker.excluded, inventory)
           replica == BuildPullSecret(r, worker.credentials)
           needed == {key \in targets : SecretNeedsApply(cachedSecrets[key], replica)}
<1> SUFFICES ASSUME Syncing' PROVE PlanRespectsClaims'
  BY DEF PlanRespectsClaims
<1>j. worker \in Job /\ worker.step = "plan" /\ worker.credentials \in Credentials /\ worker # Idle
  BY DEF Plan, SafetyInv, LocalInv, TypeInv, TypeOK, CredentialsResolved, Idle
<1>t. r \in Registries /\ spec \in Specs
  BY <1>j DEF Job, RegistryPullSecret
<1>1. /\ DesiredSecretsResult(r, spec, worker.credentials, worker.excluded, cachedSecrets) = "Synced"
      /\ worker'.registry = r /\ worker'.object = worker.object
      /\ worker'.source = worker.source /\ worker'.excluded = worker.excluded
      /\ worker'.credentials = worker.credentials /\ worker'.inventory = inventory
      /\ worker'.toApply = needed
      /\ worker'.toDelete = ObsoleteSecrets(r, cachedSecrets, targets)
  BY <1>j DEF Syncing, Plan, Job
<1>2. TargetsOf(worker)' = targets /\ TargetsOf(worker') = targets
  BY <1>1, <1>j DEF TargetsOf, CredentialsOf, JobInv
<1>3. \A key \in Keys : cachedSecrets[key] = secrets[key]
  BY DEF ListsCurrent
<1>4. UNCHANGED <<secrets, namespaces, registryPullSecrets, synced>>
  BY DEF Plan, apiVars
<1>5. replica \in Secret /\ \A other : OwnedBy(replica, other) <=> other = r
  BY <1>j, <1>t, BuildType, BuiltIsOwned
<1>6. targets \subseteq Keys
  <2>1. /\ TargetsDerivable(worker.credentials.server)
        /\ spec.namespaces \in NamespaceSelection /\ worker.credentials.server \in Servers
    BY <1>j, <1>t, <1>1, ResultType, ControllerAssumption DEF Credentials
  <2> QED BY <2>1, TargetsType
<1>7. ASSUME NEW key \in targets, secrets[key] # NoObject PROVE OwnedBy(secrets[key], r)
  <2>1. CASE spec.namespaces.policy = "Exclusive"
    BY <1>2, <1>3, <1>6, <1>7, <2>1 DEF ExclusivesFindNothing
  <2>2. CASE spec.namespaces.policy = "Inclusive"
    <3> DEFINE looked == EffectiveTargets(spec.namespaces, worker.credentials.server, worker.excluded,
                           PolicyAwareNamespaceInventory(spec.namespaces, worker.excluded))
    <3>1. ValidateTargets(r, looked, cachedSecrets)
      BY <1>1 DEF DesiredSecretsResult, ValidateRegistryPullSecret
    <3>2. key \in looked
      BY <1>7, <2>2, InclusiveTargetsValidated
    <3> QED BY <1>3, <1>6, <1>7, <3>1, <3>2 DEF ValidateTargets
  <2>3. spec.namespaces.policy \in {"Inclusive", "Exclusive"}
    BY <1>t, ControllerAssumption DEF NamespaceSelection
  <2> QED BY <2>1, <2>2, <2>3
<1>m. PICK me \in Registries : me = r
  BY <1>t
<1>8. ASSUME NEW key \in targets \ needed PROVE Held(me, key)'
  <2>1. secrets[key] \in Secret \cup {NoObject} /\ ~SecretNeedsApply(secrets[key], replica)
    BY <1>3, <1>6, <1>8 DEF SafetyInv, LocalInv, TypeInv, TypeOK
  <2>2. secrets[key] = replica /\ replica # NoObject
    BY <1>5, <2>1, NoApplyNeeded, ControllerAssumption
  <2>3. secrets'[key] = replica
    BY <1>4, <2>2
  <2> QED BY <1>5, <1>m, <2>2, <2>3 DEF Held
<1>9. ASSUME NEW x \in Registries \ {r}, Claims(x), NEW key \in TargetsOf(synced[x])
      PROVE  /\ key \notin worker'.toDelete
             /\ key \in targets => /\ key \in needed
                                   /\ secrets[key] = NoObject /\ namespaces[key[1]] # "active"
  <2>1. key \in Keys /\ Held(x, key)
    BY <1>9 DEF ClaimsHeld
  <2>2. ~OwnedBy(secrets[key], r)
    BY <1>t, <1>9, <2>1 DEF Held, OwnedBy
  <2>3. key \notin worker'.toDelete
    BY <1>1, <1>3, <2>2 DEF ObsoleteSecrets
  <2>4. key \in targets => secrets[key] = NoObject
    BY <1>7, <2>2
  <2>5. key \in targets => key \in needed
    BY <1>3, <2>1, <2>4 DEF SecretNeedsApply
  <2> QED BY <2>1, <2>3, <2>4, <2>5 DEF Held
<1>10. ASSUME Claims(r), NEW key \in TargetsOf(synced[r]), namespaces[key[1]] = "active"
       PROVE  key \in targets
  <2>1. worker.object = registryPullSecrets[r] /\ synced[r] # NoObject
        /\ synced[r].object = worker.object
    BY <1>j, <1>t, <1>10 DEF NoStepBack, Claims, Busy
  <2> QED BY <1>2, <1>10, <2>1 DEF TargetsStand
<1>11. worker'.toApply \subseteq targets /\ worker'.toDelete \cap targets = {}
  BY <1>1 DEF ObsoleteSecrets
<1> HIDE DEF targets, needed, replica, r
<1>12. ASSUME NEW x \in Registries, Claims(x)'
       PROVE  Claims(x) /\ TargetsOf(synced[x])' = TargetsOf(synced[x])
  BY <1>4, <1>12 DEF Claims, Exists, TargetsOf, CredentialsOf
<1>13. \A key \in targets \ worker'.toApply : Held(me, key)'
  BY <1>1, <1>8
<1>14. ASSUME NEW x \in Registries \ {me}, Claims(x)', NEW key \in TargetsOf(synced[x])'
       PROVE  /\ key \notin worker'.toDelete
              /\ key \in targets => /\ key \in worker'.toApply
                                    /\ secrets'[key] = NoObject /\ namespaces'[key[1]] # "active"
  <2>1. Claims(x) /\ key \in TargetsOf(synced[x]) /\ x \in Registries \ {r}
    BY <1>m, <1>12, <1>14
  <2> QED BY <1>1, <1>4, <1>9, <2>1
<1>15. ASSUME Claims(me)', NEW key \in TargetsOf(synced[me])', namespaces'[key[1]] = "active"
       PROVE  key \in targets
  <2>1. Claims(r) /\ key \in TargetsOf(synced[r])
    BY <1>m, <1>12, <1>15
  <2> QED BY <1>4, <1>10, <1>15, <2>1
<1> QED BY <1>1, <1>2, <1>6, <1>11, <1>m, <1>13, <1>14, <1>15, RespectsNext

(* A write of the worker that harms no other claim, and with which it holds the Secret
   if it wants it or has claimed it, respects what is claimed and goes on to. *)
LEMMA WriteKeepsClaims ==
    ASSUME Syncing, PlanRespectsClaims, ClaimsHeld,
           UNCHANGED <<namespaces, registryPullSecrets, synced>>,
           NEW me \in Registries, me = worker.registry, NEW key \in Keys,
           \A other \in Keys \ {key} : secrets'[other] = secrets[other],
           \A r \in Registries \ {me} : Claims(r) => key \notin TargetsOf(synced[r]),
           Claims(me) /\ key \in TargetsOf(synced[me]) => Held(me, key)',
           Syncing' /\ key \in TargetsOf(worker) \ worker'.toApply => Held(me, key)',
           Syncing' =>
              /\ worker'.registry = me /\ worker'.object = worker.object
              /\ worker'.source = worker.source /\ worker'.excluded = worker.excluded
              /\ worker'.inventory = worker.inventory
              /\ worker'.toDelete \subseteq worker.toDelete
              /\ worker'.toApply \subseteq worker.toApply
              /\ worker.toApply \subseteq worker'.toApply \cup {key}
    PROVE  ClaimsHeld' /\ PlanRespectsClaims'
<1>1. ASSUME NEW r \in Registries, Claims(r)'
      PROVE  Claims(r) /\ TargetsOf(synced[r])' = TargetsOf(synced[r])
  BY <1>1 DEF Claims, Exists, TargetsOf, CredentialsOf
<1>2. \A r \in Registries, other \in Keys \ {key} : Held(r, other) => Held(r, other)'
  BY DEF Held
<1>3. ClaimsHeld'
  <2>1. ASSUME NEW r \in Registries, Claims(r)', NEW other \in TargetsOf(synced[r])'
        PROVE  other \in Keys /\ Held(r, other)'
    <3>1. Claims(r) /\ other \in TargetsOf(synced[r]) /\ other \in Keys /\ Held(r, other)
      BY <1>1, <2>1 DEF ClaimsHeld
    <3> QED BY <1>2, <3>1
  <2>2. ASSUME NEW r1 \in Registries, NEW r2 \in Registries, r1 # r2, Claims(r1)', Claims(r2)'
        PROVE  (TargetsOf(synced[r1]) \cap TargetsOf(synced[r2]))' = {}
    BY <1>1, <2>2 DEF ClaimsHeld
  <2> QED BY <2>1, <2>2 DEF ClaimsHeld
<1>4. ASSUME Syncing' PROVE PlanRespectsClaims'
  <2>1. PICK t : t = TargetsOf(worker)
    OBVIOUS
  <2>2. TargetsOf(worker)' = t /\ worker'.registry = me
    BY <1>4, <2>1 DEF TargetsOf, CredentialsOf
  <2>3. /\ worker.toApply \subseteq t /\ t \subseteq Keys /\ worker.toDelete \cap t = {}
        /\ \A other \in t \ worker.toApply : Held(me, other)
    BY <2>1 DEF PlanRespectsClaims
  <2>4. /\ worker'.toApply \subseteq t /\ t \subseteq Keys /\ worker'.toDelete \cap t = {}
    BY <1>4, <2>3
  <2>5. ASSUME NEW other \in t \ worker'.toApply PROVE Held(me, other)'
    <3>1. CASE other = key
      BY <1>4, <2>1, <2>5, <3>1
    <3>2. CASE other # key
      BY <1>2, <1>4, <2>3, <2>5, <3>2
    <3> QED BY <3>1, <3>2
  <2>6. ASSUME NEW r \in Registries \ {me}, Claims(r)', NEW other \in TargetsOf(synced[r])'
        PROVE  /\ other \notin worker'.toDelete
               /\ other \in t => /\ other \in worker'.toApply
                                 /\ secrets'[other] = NoObject /\ namespaces'[other[1]] # "active"
    <3>1. Claims(r) /\ other \in TargetsOf(synced[r]) /\ other # key
      BY <1>1, <2>6
    <3>2. /\ other \notin worker.toDelete
          /\ other \in t => /\ other \in worker.toApply
                            /\ secrets[other] = NoObject /\ namespaces[other[1]] # "active"
      BY <2>1, <3>1 DEF PlanRespectsClaims
    <3> QED BY <1>4, <2>3, <3>1, <3>2
  <2>7. ASSUME Claims(me)', NEW other \in TargetsOf(synced[me])', namespaces'[other[1]] = "active"
        PROVE  other \in t
    BY <1>1, <2>1, <2>7 DEF PlanRespectsClaims
  <2> QED BY <2>2, <2>4, <2>5, <2>6, <2>7, RespectsNext
<1> QED BY <1>3, <1>4 DEF PlanRespectsClaims

(* A step that moves the worker and nothing that is claimed *)
LEMMA FailedKeepsClaims ==
    ASSUME ClaimsHeld, ~Syncing', UNCHANGED <<secrets, namespaces, registryPullSecrets, synced>>
    PROVE  ClaimsHeld' /\ PlanRespectsClaims'
<1>1. ClaimsStay
  BY DEF ClaimsStay, Claims, Exists
<1> QED BY <1>1, NothingWritten, ClaimsKept DEF PlanRespectsClaims

(* One round of the apply loop: what another claims is not there, and cannot be created. *)
LEMMA ApplyKeepsClaims ==
    ASSUME SafetyInv, PlanRespectsClaims, ClaimsHeld, NEW key \in Keys, ApplySecret(key)
    PROVE  ClaimsHeld' /\ PlanRespectsClaims'
<1> DEFINE replica == BuildPullSecret(worker.registry, worker.credentials)
           shorter == [worker EXCEPT !.toApply = @ \ {key}, !.applied = @ + 1]
<1>j. /\ worker \in Job /\ worker.step = "sync" /\ worker.credentials \in Credentials
      /\ key \in worker.toApply /\ Syncing
  BY DEF ApplySecret, SafetyInv, LocalInv, TypeInv, TypeOK, CredentialsResolved, Idle, Syncing
<1>m. PICK me \in Registries : me = worker.registry
  BY <1>j DEF Job
<1>0. replica \in Secret /\ \A other : OwnedBy(replica, other) <=> other = me
  BY <1>j, <1>m, BuiltIsOwned, BuildType
<1>1. UNCHANGED <<registryPullSecrets, namespaces, synced>>
  BY DEF ApplySecret
<1>2. \/ secrets' = secrets /\ worker' = Failed
      \/ /\ Accepted(key, replica) /\ secrets' = [secrets EXCEPT ![key] = replica]
         /\ worker' = Failed \/ worker' = shorter
  BY DEF ApplySecret, WriteSecret
<1>3. worker' = Failed => ~Syncing'
  BY <1>j DEF Failed, Job, Syncing
<1>4. CASE secrets' = secrets /\ worker' = Failed
  BY <1>1, <1>3, <1>4, FailedKeepsClaims
<1>5. CASE Accepted(key, replica) /\ secrets' = [secrets EXCEPT ![key] = replica]
           /\ (worker' = Failed \/ worker' = shorter)
  <2>1. ASSUME NEW r \in Registries \ {me}, Claims(r) PROVE key \notin TargetsOf(synced[r])
    <3> SUFFICES ASSUME key \in TargetsOf(synced[r]) PROVE FALSE
      OBVIOUS
    <3>1. secrets[key] = NoObject /\ namespaces[key[1]] # "active"
      BY <1>j, <1>m, <2>1 DEF PlanRespectsClaims
    <3>2. cachedSecrets[key] # NoObject /\ ~Stale(secretEvents, key)
      BY <1>5, <3>1 DEF Accepted
    <3>3. cachedSecrets[key] = secrets[key]
      BY <3>2 DEF SafetyInv, LocalInv, CachesCoherent, Coherent, TypeInv, TypeOK
    <3> QED BY <3>1, <3>2, <3>3
  <2>2. /\ secrets'[key] = replica
        /\ \A other \in Keys \ {key} : secrets'[other] = secrets[other]
    BY <1>5 DEF SafetyInv, LocalInv, TypeInv, TypeOK
  <2>3. Held(me, key)'
    BY <1>0, <2>2, ControllerAssumption DEF Held
  <2>4. worker' = shorter =>
          /\ worker'.registry = me /\ worker'.object = worker.object
          /\ worker'.source = worker.source /\ worker'.excluded = worker.excluded
          /\ worker'.inventory = worker.inventory
    BY <1>j, <1>m DEF Job
  <2>5. worker' = shorter =>
          worker'.toDelete = worker.toDelete /\ worker'.toApply = worker.toApply \ {key}
    BY <1>j DEF Job
  <2>6. Syncing' =>
          /\ worker'.registry = me /\ worker'.object = worker.object
          /\ worker'.source = worker.source /\ worker'.excluded = worker.excluded
          /\ worker'.inventory = worker.inventory
          /\ worker'.toDelete \subseteq worker.toDelete
          /\ worker'.toApply \subseteq worker.toApply
          /\ worker.toApply \subseteq worker'.toApply \cup {key}
    BY <1>3, <1>5, <2>4, <2>5
  <2> HIDE DEF replica, shorter
  <2> QED BY <1>j, <1>m, <1>1, <2>1, <2>2, <2>3, <2>6, WriteKeepsClaims
<1> QED BY <1>2, <1>4, <1>5

(* One round of the delete loop: another's claim is not on its list, and what its own
   last success put in place is only where the namespace is not live. *)
LEMMA DeleteKeepsClaims ==
    ASSUME SafetyInv, PlanRespectsClaims, ClaimsHeld, NEW key \in Keys, DeleteSecret(key)
    PROVE  ClaimsHeld' /\ PlanRespectsClaims'
<1> DEFINE shorter == [worker EXCEPT !.toDelete = @ \ {key}, !.deleted = @ + 1]
<1>j. worker \in Job /\ worker.step = "sync" /\ key \in worker.toDelete /\ Syncing
  BY DEF DeleteSecret, DeletionsTurn, SafetyInv, LocalInv, TypeInv, TypeOK, Idle, Syncing
<1>m. PICK me \in Registries : me = worker.registry
  BY <1>j DEF Job
<1>1. UNCHANGED <<registryPullSecrets, namespaces, synced>>
  BY DEF DeleteSecret
<1>2. \/ secrets' = secrets /\ worker' = Failed
      \/ /\ secrets' = [secrets EXCEPT ![key] = NoObject]
         /\ worker' = Failed \/ worker' = shorter
  BY DEF DeleteSecret, WriteSecret
<1>3. worker' = Failed => ~Syncing'
  BY <1>j DEF Failed, Job, Syncing
<1>4. CASE secrets' = secrets /\ worker' = Failed
  BY <1>1, <1>3, <1>4, FailedKeepsClaims
<1>5. CASE secrets' = [secrets EXCEPT ![key] = NoObject]
           /\ (worker' = Failed \/ worker' = shorter)
  <2>1. /\ \A r \in Registries \ {me} : Claims(r) => key \notin TargetsOf(synced[r])
        /\ key \notin TargetsOf(worker)
        /\ Claims(me) /\ key \in TargetsOf(synced[me]) => namespaces[key[1]] # "active"
    BY <1>j, <1>m DEF PlanRespectsClaims
  <2>2. /\ secrets'[key] = NoObject
        /\ \A other \in Keys \ {key} : secrets'[other] = secrets[other]
    BY <1>5 DEF SafetyInv, LocalInv, TypeInv, TypeOK
  <2>3. Claims(me) /\ key \in TargetsOf(synced[me]) => Held(me, key)'
    BY <1>1, <2>1, <2>2 DEF Held
  <2>4. worker' = shorter =>
          /\ worker'.registry = me /\ worker'.object = worker.object
          /\ worker'.source = worker.source /\ worker'.excluded = worker.excluded
          /\ worker'.inventory = worker.inventory
    BY <1>j, <1>m DEF Job
  <2>5. worker' = shorter =>
          worker'.toDelete = worker.toDelete \ {key} /\ worker'.toApply = worker.toApply
    BY <1>j DEF Job
  <2>6. Syncing' =>
          /\ worker'.registry = me /\ worker'.object = worker.object
          /\ worker'.source = worker.source /\ worker'.excluded = worker.excluded
          /\ worker'.inventory = worker.inventory
          /\ worker'.toDelete \subseteq worker.toDelete
          /\ worker'.toApply \subseteq worker.toApply
          /\ worker.toApply \subseteq worker'.toApply \cup {key}
    BY <1>3, <1>5, <2>4, <2>5
  <2> HIDE DEF shorter
  <2> QED BY <1>j, <1>m, <1>1, <2>1, <2>2, <2>3, <2>6, WriteKeepsClaims
<1> QED BY <1>2, <1>4, <1>5

(* The end of a reconcile that succeeds: all it wants is off its list and so is held,
   and what others claim would still be on it. *)
LEMMA UpdateStatusKeepsClaims ==
    ASSUME SafetyInv, JobInv, NoStepBack, PlanRespectsClaims, ClaimsHeld, [Next]_vars,
           UpdateStatus
    PROVE  ClaimsHeld' /\ PlanRespectsClaims'
<1>0. TypeInv /\ CachesCoherent
  BY DEF SafetyInv, LocalInv
<1>1. /\ worker \in Job /\ worker' = Idle
      /\ UNCHANGED <<registryPullSecrets, namespaces, secrets>>
  BY <1>0, UpdateStatusFacts
<1>m. PICK me \in Registries : me = worker.registry
  BY <1>1 DEF Job
<1>2. ~Syncing'
  BY <1>1 DEF Syncing, Idle, Job
<1>3. \A r \in Registries, key \in Keys : Held(r, key) => Held(r, key)'
  BY <1>1 DEF Held
<1>t. PICK t : t = TargetsOf(worker)
  OBVIOUS
<1>4. ASSUME NEW r \in Registries, Claims(r)', ~NewClaim(r)
      PROVE  /\ Claims(r) /\ TargetsOf(synced[r])' = TargetsOf(synced[r])
             /\ \A key \in TargetsOf(synced[r]) : key \in Keys /\ Held(r, key)'
  <2>1. Claims(r) /\ synced'[r] = synced[r]
    BY <1>4, ClaimsMove
  <2>2. TargetsOf(synced[r])' = TargetsOf(synced[r])
    BY <2>1 DEF TargetsOf, CredentialsOf
  <2> QED BY <1>3, <2>1, <2>2 DEF ClaimsHeld
<1>5. ASSUME NewClaim(me)
      PROVE  /\ TargetsOf(synced[me])' = t /\ t \subseteq Keys
             /\ \A key \in t : Held(me, key)'
             /\ \A r \in Registries \ {me} : Claims(r) => TargetsOf(synced[r]) \cap t = {}
  <2>1. Syncing /\ worker.toApply = {}
    BY <1>1, <1>5 DEF NewClaim, UpdateStatus, Finished, JobInv, Syncing
  <2>2. TargetsOf(synced[me])' = t
    <3>1. /\ synced'[me].object = worker.object /\ synced'[me].source = worker.source
          /\ synced'[me].excluded = worker.excluded /\ synced'[me].inventory = worker.inventory
      BY <1>0, <1>m, <1>5 DEF NewClaim, Recorded, TypeInv, TypeOK
    <3> QED BY <1>t, <3>1 DEF TargetsOf, CredentialsOf
  <2>3. t \subseteq Keys /\ \A key \in t : Held(me, key)
    BY <1>m, <1>t, <2>1 DEF PlanRespectsClaims
  <2>4. \A r \in Registries \ {me} : Claims(r) => TargetsOf(synced[r]) \cap t = {}
    BY <1>m, <1>t, <2>1 DEF PlanRespectsClaims
  <2> QED BY <1>3, <2>2, <2>3, <2>4
<1>6. ASSUME NEW r \in Registries, Claims(r)', NEW key \in TargetsOf(synced[r])'
      PROVE  key \in Keys /\ Held(r, key)'
  <2>1. CASE NewClaim(r)
    BY <1>m, <1>5, <1>6, <2>1 DEF NewClaim
  <2>2. CASE ~NewClaim(r)
    BY <1>4, <1>6, <2>2
  <2> QED BY <2>1, <2>2
<1>7. ASSUME NEW r1 \in Registries, NEW r2 \in Registries, r1 # r2, Claims(r1)', Claims(r2)'
      PROVE  (TargetsOf(synced[r1]) \cap TargetsOf(synced[r2]))' = {}
  <2>1. CASE ~NewClaim(r1) /\ ~NewClaim(r2)
    BY <1>4, <1>7, <2>1 DEF ClaimsHeld
  <2>2. CASE NewClaim(r1)
    <3>1. r1 = me /\ ~NewClaim(r2)
      BY <1>m, <1>7, <2>2 DEF NewClaim
    <3> QED BY <1>4, <1>5, <1>7, <2>2, <3>1
  <2>3. CASE NewClaim(r2)
    <3>1. r2 = me /\ ~NewClaim(r1)
      BY <1>m, <1>7, <2>3 DEF NewClaim
    <3> QED BY <1>4, <1>5, <1>7, <2>3, <3>1
  <2> QED BY <2>1, <2>2, <2>3
<1> QED BY <1>2, <1>6, <1>7 DEF ClaimsHeld, PlanRespectsClaims

(* A step that leaves the worker's plan, what is on record and what is wanted alone *)
LEMMA OtherStepsKeepClaims ==
    ASSUME SafetyInv, NoStepBack, PlanRespectsClaims, ClaimsHeld, [Next]_vars,
           ~UpdateStatus, Syncing' => Syncing /\ SamePlan, ReplicasLeft
    PROVE  ClaimsHeld' /\ PlanRespectsClaims'
<1>1. ClaimsStay
  BY ClaimsMove DEF ClaimsStay, NewClaim
<1> QED BY <1>1, ClaimsKept, RespectKept

(* ClaimsInv is inductive. *)
LEMMA ClaimsStep ==
    ASSUME SafetyInv, ClaimsInv, [Next]_vars, [RelyOfClaims]_vars
    PROVE  ClaimsInv'
<1> USE DEF ClaimsInv
<1>0. TypeInv /\ SafetyInv
  BY DEF SafetyInv, LocalInv
<1>i. Idle \notin Job
  BY DEF Idle, Job
<1>1. JobInv' /\ NoStepBack'
  BY <1>0, JobStep, NoStepBackStep
<1> SUFFICES ClaimsHeld' /\ PlanRespectsClaims'
  BY <1>1
<1>2. CASE UpdateStatus
  BY <1>2, UpdateStatusKeepsClaims
<1>3. CASE \E key \in Keys : ApplySecret(key) \/ DeleteSecret(key)
  BY <1>3, ApplyKeepsClaims, DeleteKeepsClaims
<1>4. CASE Plan /\ ~UNCHANGED vars
  <2>1. UNCHANGED <<secrets, namespaces, registryPullSecrets, synced>>
    BY <1>4 DEF Plan, apiVars
  <2>2. ClaimsStay
    BY <2>1 DEF ClaimsStay, Claims, Exists
  <2>3. ClaimsHeld'
    BY <2>1, <2>2, NothingWritten, ClaimsKept
  <2> QED BY <1>4, <2>3, PlanRespects DEF RelyOfClaims
<1>5. ASSUME UNCHANGED worker, ~UpdateStatus PROVE ClaimsHeld' /\ PlanRespectsClaims'
  <2>1. ReplicasLeft
    <3>1. CASE UNCHANGED vars
      BY <3>1, NothingWritten DEF vars, apiVars
    <3>2. CASE RelyOfClaims
      BY <1>0, <1>5, <3>2, UsersLeave DEF RelyOfClaims
    <3> QED BY <3>1, <3>2
  <2> QED BY <1>5, <2>1, OtherStepsKeepClaims DEF Syncing, SamePlan
<1>6. ASSUME ~UpdateStatus, UNCHANGED <<secrets, namespaces>>, Syncing' => Syncing /\ SamePlan
      PROVE  ClaimsHeld' /\ PlanRespectsClaims'
  BY <1>6, NothingWritten, OtherStepsKeepClaims
<1>7. CASE Reconciler /\ ~UpdateStatus
  <2>1. CASE \E r \in Registries : ForgetDeleted(r) \/ GetFails(r)
    BY <1>5, <1>7, <2>1 DEF ForgetDeleted, GetFails
  <2>2. ASSUME NEW r \in Registries, StartReconcile(r) PROVE ClaimsHeld' /\ PlanRespectsClaims'
    <3>1. ~Syncing' /\ UNCHANGED <<secrets, namespaces>>
      BY <2>2 DEF StartReconcile, Syncing, apiVars
    <3> QED BY <1>6, <1>7, <3>1
  <2>3. CASE ReadFails
    <3>1. worker \in Job
      BY <1>0, <2>3 DEF ReadFails, Idle, TypeInv, TypeOK
    <3>2. ~Syncing' /\ UNCHANGED <<secrets, namespaces>>
      BY <2>3, <3>1 DEF ReadFails, Failed, Job, Syncing, apiVars
    <3> QED BY <1>6, <1>7, <3>2
  <2>4. CASE Plan
    <3>1. CASE UNCHANGED vars
      BY <1>5, <1>7, <3>1 DEF vars
    <3> QED BY <1>4, <2>4, <3>1
  <2> QED BY <1>3, <1>7, <2>1, <2>2, <2>3, <2>4 DEF Reconciler
<1>8. CASE Manager /\ ~UpdateStatus
  <2>1. CASE Restart
    <3>1. ~Syncing' /\ UNCHANGED <<secrets, namespaces>>
      BY <1>i, <2>1 DEF Restart, Syncing, apiVars
    <3> QED BY <1>6, <1>8, <3>1
  <2>2. CASE UNCHANGED worker
    BY <1>5, <1>8, <2>2
  <2> QED BY <1>8, <2>1, <2>2 DEF Manager, DeliverRegistryEvent, DeliverSecretEvent,
                                  RefreshPolicy, RefreshNamespaces, BackoffExpires
<1>9. CASE Users /\ ~UpdateStatus
  <2>1. ASSUME NEW r \in Registries, NEW object, StoreRegistry(r, object),
               UNCHANGED <<secrets, namespaces>>
        PROVE  ClaimsHeld' /\ PlanRespectsClaims'
    <3>1. CASE worker' = worker
      BY <1>5, <1>9, <3>1
    <3>2. CASE worker' = [worker EXCEPT !.fresh = FALSE] /\ worker \in Job
      <4>1. /\ worker'.registry = worker.registry /\ worker'.object = worker.object
            /\ worker'.source = worker.source /\ worker'.excluded = worker.excluded
            /\ worker'.inventory = worker.inventory /\ worker'.credentials = worker.credentials
            /\ worker'.toApply = worker.toApply /\ worker'.toDelete = worker.toDelete
            /\ worker'.step = worker.step
        BY <3>2 DEF Job
      <4>2. Syncing' => Syncing /\ SamePlan
        BY <3>2, <4>1 DEF Syncing, SamePlan
      <4> QED BY <1>6, <1>9, <2>1, <4>2
    <3> QED BY <1>0, <2>1, <3>1, <3>2 DEF StoreRegistry, Busy, TypeInv, TypeOK
  <2>2. CASE \E r \in Registries : DeleteRegistry(r) \/ \E spec \in Specs :
                CreateRegistry(r, spec) \/ EditRegistry(r, spec)
    BY <2>1, <2>2 DEF DeleteRegistry, CreateRegistry, EditRegistry
  <2>3. CASE UNCHANGED worker
    BY <1>5, <1>9, <2>3
  <2> QED BY <1>9, <2>2, <2>3 DEF Users, EditPolicy, CreateNamespace, TerminateNamespace,
                                  FinalizeNamespace, PurgeSecret, PutSecret, RemoveSecret
<1>10. CASE UNCHANGED vars /\ ~UpdateStatus
  BY <1>5, <1>10 DEF vars
<1> QED BY <1>1, <1>2, <1>7, <1>8, <1>9, <1>10 DEF Next

(* At the start nobody claims anything. *)
LEMMA ClaimsInit == Init => ClaimsInv
<1> SUFFICES ASSUME Init PROVE ClaimsInv
  OBVIOUS
<1>1. Idle \notin Job
  BY DEF Idle, Job
<1>2. \A r \in Registries : ~Claims(r)
  BY DEF Init, Claims
<1>3. JobInv /\ PlanRespectsClaims
  BY <1>1 DEF Init, JobInv, PlanRespectsClaims, Syncing
<1> QED BY <1>2, <1>3, NoStepBackInit DEF ClaimsInv, ClaimsHeld

(* A reconcile that holds the current resourceVersion, and every one of an object whose
   present spec has succeeded before, works on the object as it is: no old copy is
   still on its way to the cache that could make the controller go back (Reconcile's
   Get, the status update's resourceVersion). *)
THEOREM NoStepBackCorrect == Spec => []NoStepBack
<1>1. SafetyInv /\ NoStepBack /\ [Next]_vars => NoStepBack'
  BY NoStepBackStep
<1> QED BY <1>1, NoStepBackInit, SafetyCorrect, PTL DEF Spec

(* The invariant behind the next theorem: what a RegistryPullSecret claims, the Secrets
   of the last success of the spec it has, is its own or cannot be created, no reconcile
   of another takes it, and none of its own gives it up (validateTargets, the loops of
   Reconcile, the API server's answers to Create and Update). *)
THEOREM ClaimsCorrect == Spec /\ [][RelyOfClaims]_vars => []ClaimsInv
<1>1. SafetyInv /\ ClaimsInv /\ [Next]_vars /\ [RelyOfClaims]_vars => ClaimsInv'
  BY ClaimsStep
<1> QED BY <1>1, ClaimsInit, SafetyCorrect, PTL DEF Spec

(* Two RegistryPullSecrets whose present specs have both succeeded have no target in
   common: the second to reach it is refused, by validation or by the API server, and
   stays refused, whatever is edited, lost or restarted (validateTargets lines 185-200,
   applySecret). *)
THEOREM NoSharedTargetCorrect == Spec /\ [][RelyOfClaims]_vars => []NoSharedTarget
<1>1. TypeInv /\ ClaimsInv => NoSharedTarget
  <2> SUFFICES ASSUME TypeInv, ClaimsInv, NEW r1 \in Registries, NEW r2 \in Registries, r1 # r2,
                      Exists(r1), Exists(r2),
                      \A r \in {r1, r2} : synced[r] # NoObject
                                          /\ synced[r].object = registryPullSecrets[r]
               PROVE  ExpectedKeys(r1) \cap ExpectedKeys(r2) = {}
    BY DEF NoSharedTarget
  <2>1. Claims(r1) /\ Claims(r2)
    BY DEF Claims
  <2>2. TargetsOf(synced[r1]) \cap TargetsOf(synced[r2]) = {}
    BY <2>1 DEF ClaimsInv, ClaimsHeld
  <2> QED BY <2>1, <2>2, ExpectedAreTargets DEF Claims
<1> QED BY <1>1, ClaimsCorrect, TypeCorrect, PTL
=============================================================================

# A specification of pull-secrets-operator

The operator replicates the credentials of container registries into the
namespaces of a Kubernetes cluster. This directory holds TLA+ modules that model
it, TLC configurations that check them on small clusters, and theorems that TLAPS
proves for clusters of any size. `PROJECT.json` lists runs, mutants, hazards,
findings and, per definition, the source lines it stands for.

## 1. The system

| Part | State | Operations |
|---|---|---|
| `internal/controller/registrypullsecret_controller.go` | nothing of its own; reads the manager's caches, writes Secrets and one status | `Reconcile`: read the object, the policy, the credentials, the namespaces and the Secrets; plan; apply loop; delete loop; status. `registryPullSecretsForSecret`: which objects a changed Secret concerns |
| `internal/controller/pullsecretpolicy_controller.go` | the same | `Reconcile`: validate a policy object and report on it |
| `internal/sync/planner.go` | pure | eligible namespaces, target names, the default name from a host |
| `internal/sync/credentials.go` | pure | inline or referenced credentials |
| `internal/sync/validation.go` | pure | semantic validation, collisions with Secrets that exist |
| `internal/sync/secret.go` | pure | desired and obsolete Secrets, comparison |
| `api/pullsecrets/v1alpha1` | the custom resources | generated-style boilerplate |
| `cmd/manager` | caches, workqueues, one worker per controller | start, leader election, health |

**How the parts interact.** A change of a `RegistryPullSecret`, and that includes
a write of its status, enqueues its name. A change of any Secret runs the map
function, which enqueues the resources that take their credentials from it.
Policies, namespaces and replicas trigger nothing. A reconcile reads through
caches that lag behind the API server and writes directly to it; an update that
carries an old `resourceVersion` is refused. Any error ends a reconcile, is
reported in the status and puts the name back after a backoff.

**What is hard.** Caches that lag, each resource kind on its own; objects edited,
deleted and recreated under a running reconcile; a collision check on a list and
a write that follows a newer Get; a loop of writes that fails or dies half way; calls
whose answer is lost; an event dropped by the map function; a status write that
triggers the next reconcile; two managers at work at once when leader election is
off. The `hazards` of `PROJECT.json` give each its line.

**What makes each part right.**

- Reconciler: no trigger is lost; a settled status is that of the current
  generation; settled means replicated; what was foreign is not touched; nothing is
  deleted before its replacement is in place; it recovers from any failure and then
  rests. In short it is *level-triggered*: an object leaves its attention only when
  what the object calls for at that moment has been done.
- Policy reconciler: a settled status is true, and what is reported for a
  generation is right for it.
- Planner, validation, rendering: names follow the documented rules; two owners
  of a target are never both accepted.

## 2. The modules

| Module | Stands for |
|---|---|
| `HostNaming` | `DefaultTargetSecretName` and its helpers. A host is the sequence of its labels |
| `PolicyValidation` | lists of namespaces, `ValidatePullSecretPolicy` |
| `Planner` | `NamespaceSelected`, `EffectiveTargets` |
| `SecretRendering` | `ResolveRegistryCredentials`, `BuildPullSecret`, `SecretNeedsApply`, `ObsoleteSecrets` |
| `Validation` | `ValidateRegistryPullSecret`, the outcome of `DesiredSecrets` |
| `WatchStream` | an informer cache: events in order, stale reads (external) |
| `RegistryPullSecretController` | the reconciler in its cluster |
| `PullSecretPolicyController` | the policy reconciler in its cluster |
| `LevelTriggered` | what both reconcilers promise, without caches, queues or retries (abstract) |
| `TwoManagers` | two managers on one API server, as without leader election |
| `MC...` | values of the constants for TLC; `MCHostNaming` also enumerates hosts |
| `WatchStreamProofs`, `LevelTriggeredProofs`, `RegistryPullSecretSafety`, `RegistryPullSecretRefinement`, `RegistryPullSecretReplicas`, `RegistryPullSecretSharing`, `TwoManagersProofs`, `PullSecretPolicyProofs` | the theorems |

Each module extends the ones above it that it uses:
`HostNaming`, `PolicyValidation` -> `Planner` -> `SecretRendering` -> `Validation`
-> `RegistryPullSecretController`, which also extends `WatchStream`, and ->
`TwoManagers`, which instantiates it a second time, as `Second`, by way of
`RegistryPullSecretSharing`: that module is the controller with all its lemmas, and so
the lemmas are there for the second manager, too. Both controllers instantiate
`LevelTriggered` as `Contract`.

### RegistryPullSecretController

| Variables | In the system |
|---|---|
| `registryPullSecrets`, `status`, `policy`, `namespaces`, `secrets` | the objects in the API server |
| `cachedRegistries`, `cachedSecrets`, `cachedPolicy`, `cachedNamespaces` | the informer caches |
| `registryEvents`, `secretEvents` | changes on their way to the caches |
| `queue`, `backoff` | the workqueue and its rate-limited part |
| `worker` | the local variables of the one `Reconcile` in progress |
| `synced`, `missed`, `budget` | bookkeeping: the inputs of the last success, names whose trigger a failing List swallowed, disturbances left of each kind and in all |

One reconcile is a chain of steps, and anything may happen between two of them:

| Action | Code |
|---|---|
| `ForgetDeleted`, `GetFails`, `StartReconcile` | the first Get (77-86), the reads of the policy and the credentials (99-106) |
| `ReadFails` | any of the Gets and Lists after the first failing |
| `Plan` | both Lists, `DesiredSecrets`, `ObsoleteSecrets` (108-126) |
| `ApplySecret` | one round of the apply loop: Get from the cache, then Create or Update (128-139, 262-283) |
| `DeleteSecret` | one round of the delete loop (141-148, 285-291) |
| `UpdateStatus` | the status update and what `Reconcile` returns (88-92, 293-330) |
| `DeliverRegistryEvent`, `DeliverSecretEvent` | the watches of `SetupWithManager` (178-218) |

The rest (`Restart`, `BackoffExpires`, users, the namespace controller) is the
environment. What it may do is what the API server lets it: a Secret's type never
changes, nothing is created in a terminating namespace, a generation grows by one
with each spec edit and starts again at 1 for a recreated object.

**Abstractions.** Names, servers and passwords are opaque; what `url.Parse`,
sanitizing and trimming make of them are constant functions. Base64 is kept as
the pair it encodes. The email is left out. Error texts, conditions' messages and
transition times are left out; `lastSyncTime` survives as a choice: a status that
is otherwise unchanged produces an event or not, by whether the second has
changed. The maps the code iterates over are sets, taken in any order. The reads
of `StartReconcile` are one step and so are the two Lists of `Plan`; a cache may
change between the steps, not inside one. An event reaches cache and map
function at once. The policy and namespace caches catch up in one step, since
no step depends on the order of their changes. A faulty call is lost before or
after it takes effect.

### PullSecretPolicyController

The same frame with one kind of object: `StartReconcile`, `GetFails` and
`UpdateStatus` are `Reconcile` and `updatePullSecretPolicyStatus`; `StatusFor` is
the report as a function of name and spec.

### LevelTriggered

Four variables: per name what it needs and what was done for it last, and the sets of
names that are pending or missed. `Change` makes pending whatever it changes, `Finish`
lets a name leave the pending ones only with `done = needed`, `Announce` moves
triggers about without losing one, `Lose` moves some to the missed. The invariant of it all
is `Settled`. For `RegistryPullSecretController`:

| Abstract | Concrete |
|---|---|
| `needed` | `Needed`: the object as stored, with the credentials Secret it refers to as stored |
| `done` | `Achieved`: both as the last successful reconcile had read them |
| `pending` | `Outstanding`: queued, backing off, in the worker, or with an event of it or its source on the way |
| `missed` | `missed` |
| `Change` | writes of users, writes of Secrets (by the worker, too: a replica may be a source) and the worker's own steps |
| `Finish` | `UpdateStatus` |
| `Announce` | the start of a reconcile, deliveries, restarts |
| `Lose` | the delivery of a Secret's event whose List fails |

For `PullSecretPolicyController` what is needed is the true report and what is done
is the status itself; nothing is ever missed.

### TwoManagers

The variables of `RegistryPullSecretController` are the first manager's; `Second` is an
instance of the same module with caches, events, queue and worker of its own and the API
server shared. An action is an action of one of them or of the users, and the other
hears of it: the event it emitted is appended to the other's stream, and if it changed
the object the other's worker holds, that worker's `resourceVersion` is an old one.
`main.go` line 53 passes the flag `--leader-elect` on, whose default is false;
the manifests set it, and `docs/src/content/docs/getting-started/installation.md` line 40
calls it required for more than one replica. With it, one manager at a time works, and a
failover is the `Restart` of the one-manager model.

Operators commented `Slip:` are not part of the system. Each is a plausible bug
that a mutant puts in the place of the definition after it, to show that a property
notices.

## 3. What the runs show

| Run | Question | Bounds | Result |
|---|---|---|---|
| `host_naming` | is the default name the last meaningful label of every host, and stable under subdomains? | up to 4 labels of 12 kinds: every generic and secondary token class, empty and sanitized labels | holds |
| `core_races` | is no trigger lost, no failure forgotten, no old spec claimed; is the reconciler level-triggered? | one resource, 3 specs (one never valid); any 4 of: 2 edits or deletions, the source rotated or deleted, a fault, a failing List, a restart; caches up to 2 events behind | holds |
| `contention` | can two resources own one Secret, is what was foreign in the list touched? | 2 resources, 3 specs, a foreign Secret; any 3 of: an edit, the foreign tool taking the shared name, a namespace deleted, a restart; caches current at each read | holds |
| `convergence` | is a settled resource replicated exactly, nothing deleted early, does every resource get there, does the controller come to rest? | 3 specs; any 3 of: 2 edits, deletions or recreations, a policy edit, a namespace created, one deleted, a rotation, a fault, a failing List, a restart; caches current at each read; fairness | holds |
| `policy` | is a settled report true, does it come; is the reconciler level-triggered? | 2 names, 3 lists, 3 writes, a fault, a restart; fairness | holds |
| `two_managers` | do two managers without leader election end up right, do they keep the promise of one? | one resource, 2 specs that rename the replica; any 2 of: an edit, a rotation, a restart of either; one event on its way to each; caches current at each read | holds |

Two events in flight are enough for every order of an edit against a rotation
and for an event that is not the last of its object. One fault and one restart
may strike at any step, which covers each error path and each crash point; the retry after them
runs undisturbed, and that is what recovery means. `CHECK_DEADLOCK FALSE`: a
controller with nothing to do rests, by design.

In `two_managers` one event on its way to each manager is enough for each of
them to lag behind the other, which is what the question is about: a manager is outdated as
soon as the other has written. With two, and with a fault in the budget besides, the properties hold
too, in a state space some five times as large that is not part of the regular runs.

Three runs hold under a condition worth knowing: `contention`, `convergence` and
`two_managers` need caches that are current whenever a worker reads (`ReadLag = 0`).
Without it `NoSharedTarget` and `SettledIsReplicated` fail, and the first two of the
following runs show how. `NoSharedTarget` also needs that nobody deletes a replica by hand: a
free name is there for the taking. `ListedForeignUntouched` needs neither: it is proved without
any such condition. It speaks of the list, no more: a foreign Secret that takes a replica's
place after the list is deleted with the rest, since `deleteSecret` goes by the name alone.

The planning of targets is checked against a definition of its own: `ExpectedKeys`
says per namespace that exists what should be there, straight from the selection, the
exclusions and the override, and `SettledIsReplicated` compares what is in the cluster with it.

| Run expected to be violated | What it shows |
|---|---|
| `stale_plan_overwrites` | the collision check and the write look at different moments: one owner's replica is taken over by another |
| `stale_cache` | an obsolete replica stays behind a `Ready=True` |
| `exclusive_overwrites` | an `Exclusive` selection is not checked for collisions where it selects |
| `exclusion_deletes` | an exclusion deletes replicas, the API comment says it does not |
| `server_with_port` | the server is no legal label value and the reconcile never succeeds |
| `host_naming_docker_hub` | `docker.io` has no default name |

Three more departures have no run: neither or both kinds of credentials are
reported as `SyncFailed` (`credentials.go` line 33) where the guide says
`ValidationFailed`; the reasons of the policy's Ready condition are
`SingletonActive` and `NonSingletonName`, not the documented ones; and a failing
List in `registryPullSecretsForSecret` (line 198) loses the change of a source
Secret. `NoLostTrigger` says exactly what is lost then: the names the List would have
returned, until their next reconcile, whatever triggers it.

**Fairness.** Weak for each watch, for the backoff timers and for the steps of the
worker: goroutines of a live process. Weak for the namespace controller, which finishes
what it began. Strong for the start of a name's reconcile: the workqueue hands names
out in order, so a queued name is not passed over forever while the worker keeps being
taken by others. Strong, for `EventuallyQuiet`, also for a status write within the
second of the one before (`QuietWrite`): every status write sets `lastSyncTime`, which
has a resolution of a second, and announces its object, so a controller whose reconciles
all took longer than a second would never rest; one with nothing to write takes
milliseconds. Nothing is assumed of users, faults and restarts, whose number the
budget bounds.

## 4. What is proved

The theorems hold for any number of resources, namespaces and Secrets, any specs,
any budget and any lag of the caches. Assumed are the `ASSUME`s of the modules: the
types of the constants, that the markers of absent things are no real things, and
that there are finitely many keys.

- `WatchStreamProofs`: a cache with its pending events is *coherent*: an object with no
  pending event is cached as it is, and the last event of an object says what it is.
  `EmitCoherent` and `DeliverCoherent` keep that through any write and any delivery. These are
  lemmas about the library's cache, whatever this repository does with it; the proofs about both
  controllers rest on them.
- `RegistryPullSecretSafety`: first `TypeCorrect`, types by induction. `TypeOK` alone is
  not inductive: `Plan` renders with the credentials of the worker, so that a reconcile
  past resolution has credentials has to be part of the invariant. Then the inductive
  invariants of the reconciler, in two parts. `LocalInv` is what holds of a manager whoever works beside it. *Coherent caches*: without
  them a reconcile could read an old object with nothing pending. *FreshIsCurrent*: a worker
  whose `resourceVersion` is current has the current object, so an accepted status write
  describes it. *WorkerIsCurrent*: a reconcile that nothing is to follow, no trigger pending or
  missed, works from the present object and source. `SafetyInv` adds what holds when
  the manager is alone: the settled are up to date by their last success
  (*InputsAreCurrent*) and report so. `NoLostTrigger` by itself is not inductive: it lets a
  resource be up to date while a running reconcile has read something older, and
  that reconcile's success would replace the former; `WorkerIsCurrent` rules it
  out. From `SafetyCorrect` follow `SettledStatusCorrect`, `NoLostTriggerCorrect` and
  `StatusGenerationCorrect`. Most steps change no object, take no trigger away and keep what
  the worker has read: `KindsOfSteps` sorts those out as `Frame`, and what is left is
  the seven steps that start or end a reconcile, deliver an event, restart or write an object.
- `LevelTriggeredProofs`: `SettledCorrect`, what every implementation of
  `LevelTriggered` has.
- `RegistryPullSecretRefinement`: `RefinementCorrect`, `Spec` implements
  `LevelTriggered`. Each step is shown to be one abstract step, under `LocalInv`
  alone. The case that matters is `UpdateStatus`: that a reconcile which
  leaves nothing pending has done what is needed *now* is `WorkerIsCurrent`. The second half
  of the module is about a manager beside another. `StepTells`: a step changes at most one
  object of each kind and announces it. `Heard` is what that means to a manager that looks on:
  its streams grow by the event and a worker that holds the object is outdated, nothing else.
  `HeardKeepsLocal`: it keeps `LocalInv`. `HeardKeepsOutstanding` and `HeardAdds`: it
  loses no trigger by it and gains none but the one announced.
- `RegistryPullSecretReplicas`: what is in the cluster.
  `OwnershipCorrect`, nothing that was foreign in the
  list is touched by a selection by name. The invariant `ForeignSpared` relates the plan in
  the worker to the list it was made from; `InclusiveTargetsValidated` says that
  the inventory validation uses covers every target of such a selection. That lemma is false for
  `Exclusive`, which is the finding of `exclusive_overwrites`.
  `OneTargetPerNamespace` is about `EffectiveTargets` alone: no plan wants two replicas in
  one namespace, or one where it is excluded.

  Then `ReplicasCorrect`, `SettledReplicasCorrect`,
  `MakeBeforeBreakCorrect` and `SettledShareNothing` are about behaviours in which every
  step satisfies `Rely`, and `Rely` says what the reconciler has to rely on since nothing tells it
  otherwise. *UsersKeepOff*: users write no replica, nothing where one is wanted and not
  the operator's labels, and no namespace comes back under a name listed before, for the
  controller watches neither replicas nor namespaces. *ListsCurrent*: the list of Secrets is current
  when a reconcile plans, for a replica the list does not show is not seen as obsolete, and the
  run `stale_cache` shows it stay. *ExclusivesKeepOff*: an `Exclusive` selection wants
  nothing that is another's, for its targets are not validated, and the run `exclusive_overwrites`
  shows the rest. The bounds of `convergence` satisfy all three; of `ListsCurrent` that is a theorem,
  `LagFreeLists`. Faults, lost answers, conflicts, failing Lists, restarts, edits,
  deletions and recreations, rotations, exclusions and namespaces that come and go are as
  they are in the model. `SettledIsReplicated` is far from inductive: `ReplicasInv` says of a
  running reconcile that what it has crossed off its lists is in place, that what it still has to
  delete is its own and that nothing else is, and of one that has ended with nothing
  triggered that all it had planned is in place. TLC checked `ReplicasInv` under `Rely` with
  caches two events behind before it was proved.

  The last part is about two owners, one of which may still be at work: `NoSharedTargetCorrect`.
  A RegistryPullSecret *claims* what it wanted when the spec it has last succeeded. `NoStepBack`,
  which holds without any condition, says that no reconcile returns to an older object
  once a claim is made. `ClaimsHeld` says that a claimed Secret is not another's and cannot be
  created by another; `PlanRespectsClaims`, that a plan made earlier deletes nothing claimed and, where
  it wants what is claimed, still has that write before it and will be refused. Together with
  what holds of a job they are `ClaimsInv`, the inductive invariant. The condition,
  `RelyOfClaims`, has four parts: *UsersLeaveReplicas*, a free name is there for the taking, so
  nobody deletes a replica by hand; *ListsCurrent*, as above; *ExclusivesFindNothing*, an
  `Exclusive` selection meets nothing that is another's; and *TargetsStand*, that under an
  unchanged spec no exclusion and no new server takes a target away in a live namespace.
  None can be left out: without any one of them TLC
  finds `NoSharedTarget` violated. For *TargetsStand* it takes a success, an exclusion, a restart, a
  reconcile that deletes the replica and whose status write is lost, the exclusion lifted, and
  a second owner that succeeds before the first has been retried: both report success of the
  spec they have. The run `contention` satisfies `RelyOfClaims`.
- `RegistryPullSecretSharing`: what a manager makes of the cluster when another works on
  it. A Secret is *Right* if it is what its owner calls for at this moment. A RegistryPullSecret
  is *Due* at a manager when its reconcile is *Coming* (a trigger is pending, missed, or just
  taken up), or the running reconcile is *Covering* (it works from the present inputs and what
  is not right is on its lists), or all is *Standing*: right, recorded and reported.
  `DueStep`: a manager's own steps keep that.
- `TwoManagersProofs`: `BothLocalCorrect`, `LocalInv` of either manager; `TogetherCorrect`, two
  managers at once implement the `LevelTriggered` that one of them does, and from it and
  `SettledCorrect` `NoTriggerLostBetween`; `StatusGenerationOfBoth`, no status write of either
  claims an old spec; `OwnershipOfBoth`, neither touches what was foreign in its list. The
  proof uses each lemma twice, once as it stands and once as a lemma of `Second`. When one
  manager takes a step, that is an abstract step by `StepRefines` and keeps its own `LocalInv`
  by `LocalStep`; the other has `Heard` of it; and the abstract step with what the other has
  gained by hearing is again an abstract step, now of both. `InputsAreCurrent` has no place
  here, which is why `LocalInv` stands on its own: with two managers, what one has settled the
  other may redo from older copies. It is then the other that still has the object before it.

  `BothSettledIsReplicatedRelying` is about the outcome: when neither has anything left to do, the
  replicas are right. Its invariant is that every object is due at one of them: whatever one
  overwrites or deletes from an outdated plan, what outdated the plan is announced to it, so it has
  to come back. `RelyOfBoth` is what it takes beside users who leave the replicas alone and
  current lists. The policy stays and no namespace is added, because nobody is called back for
  those: two managers that planned for different clusters would undo each other's work and both rest.
  And each RegistryPullSecret selects within a `Territory` of its own, where also what carries
  its labels at the start lies: two that contend for
  one Secret, each in its own manager, may both pass the collision check before either has written, the
  race that `stale_plan_overwrites` shows with one worker. The run `two_managers` satisfies all of it.
- `PullSecretPolicyProofs`: `PolicyCorrect`, the invariant `PolicyInv`, and from it
  `PolicyTypesCorrect`, `SettledPolicyCorrect`, `ReportCorrect` and
  `PolicyRefinementCorrect`. It takes *ReportNotAhead*: no status is ahead of its
  object and none outlives it, or a recreated object, whose generations start again at 1, would
  be taken for the one that was reported on.

Only model-checked:

- `NameIsLastMeaningfulLabel` and `SubdomainsKeepTheName`: what a filter makes of every sequence is
  an induction over data, which is out of the provers' reach.
- `EventuallyReplicated`, `EventuallyQuiet` and `EventuallyReported`: liveness, where fairness and ENABLED
  are out of reach, too.

## 5. Plan

Done, in this order: names and planning; the reconciler with its safety properties; the
policy reconciler; the theorems about triggers; the abstract specification and both
refinements; progress beside a terminating namespace; ownership; two managers; replication as
theorems under `Rely`; the refinement by two managers as a theorem; replication by two managers,
and that no target is shared, as theorems.

What is left: planning and validation on their own, for every small selection, policy and
inventory, beyond those the runs use.

## 6. Not modelled

- How a leader is elected: with election a failover is `Restart`, without it two
  managers are `TwoManagers`; the lease itself belongs to a library.
- A call of a dead manager that the API server carries out later, after its successor's:
  in the models a call takes effect before its worker moves on, or never.
- Flags, health checks and metrics of `cmd/manager`; the version string; scheme registration;
  manifests and the Helm chart; the smoke test script. None of them keeps state that a
  reconcile reads.
- `DeepCopy` and the list types of the API: they copy every field, lists and
  pointers included, and so give the models' records the value semantics they have in TLA+.

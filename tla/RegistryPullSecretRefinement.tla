--------------------- MODULE RegistryPullSecretRefinement ---------------------
(* RegistryPullSecretController implements LevelTriggered, for any cluster: with
   Needed read off the API server, Achieved off the last successful reconcile and
   Outstanding off the queue, the worker and the events on their way, each of its
   steps is a step of the abstract specification or none.  The steps of users and
   writes of Secrets are Changes, the end of a reconcile is Finish, the delivery of
   an event, the start of a reconcile and a restart are Announcements, and a failing
   List is a Loss. *)
EXTENDS RegistryPullSecretSafety

CalledFor(r) == [object |-> registryPullSecrets[r],
                 source |-> SourceIn(secrets, registryPullSecrets[r].spec)]

Obtained(r) == [object |-> synced[r].object, source |-> synced[r].source]

DutyFacts ==
    /\ Needed \in [Registries -> Duties \cup {NoObject}]
    /\ Achieved \in [Registries -> Duties \cup {NoObject}]
    /\ \A r \in Registries : Needed[r] = NoObject <=> ~Exists(r)
    /\ \A r \in Registries : Exists(r) => Needed[r] = CalledFor(r)
    /\ \A r \in Registries : synced[r] # NoObject => Achieved[r] = Obtained(r)

(* Needed and Achieved are what the abstract specification takes them for. *)
LEMMA DutyTypes == TypeInv => DutyFacts
<1> SUFFICES ASSUME TypeInv PROVE DutyFacts
  OBVIOUS
<1>0. NoObject \notin Duties
  BY ControllerAssumption
<1>1. ASSUME NEW r \in Registries, Exists(r) PROVE CalledFor(r) \in Duties
  <2>1. /\ registryPullSecrets[r] \in RegistryPullSecret
        /\ registryPullSecrets[r].spec.credentialsSecretRef \in Keys \cup {NoRef}
    BY <1>1, ReferenceType
  <2>2. SourceIn(secrets, registryPullSecrets[r].spec) \in Secret \cup {NoObject}
    BY <2>1 DEF SourceIn, TypeInv, TypeOK
  <2> QED BY <2>1, <2>2 DEF CalledFor, Duties
<1>2. ASSUME NEW r \in Registries, synced[r] # NoObject PROVE Obtained(r) \in Duties
  <2>1. synced[r] \in Inputs
    BY <1>2 DEF TypeInv, TypeOK
  <2> QED BY <2>1 DEF Inputs, Obtained, Duties
<1>3. Needed = [r \in Registries |-> IF Exists(r) THEN CalledFor(r) ELSE NoObject]
  BY DEF Needed, CalledFor
<1>4. Achieved = [r \in Registries |-> IF synced[r] = NoObject THEN NoObject ELSE Obtained(r)]
  BY DEF Achieved, Obtained
<1> HIDE DEF CalledFor, Obtained
<1> QED BY <1>0, <1>1, <1>2, <1>3, <1>4 DEF DutyFacts

(* And so they are after a step. *)
LEMMA DutyTypesNext == TypeInv' => DutyFacts'
BY DutyTypes, PTL

-----------------------------------------------------------------------------
(* A step that takes no trigger away, finishes no reconcile and announces whatever
   it changes is a Change. *)
LEMMA ChangeStep ==
    ASSUME LocalInv, LocalInv',
           \A r \in Registries : synced'[r] = IF Exists(r)' THEN synced[r] ELSE NoObject,
           Outstanding \subseteq Outstanding', UNCHANGED missed,
           \A r \in Registries : Needed'[r] # Needed[r] => r \in Outstanding'
    PROVE  Contract!Change
<1>1. TypeInv /\ TypeInv' /\ SyncedExists
  BY DEF LocalInv
<1>2. Needed' \in [Registries -> Duties \cup {NoObject}]
  BY <1>1, DutyTypesNext DEF DutyFacts
<1>3. Achieved' = [r \in Registries |-> IF Needed'[r] = NoObject THEN NoObject ELSE Achieved[r]]
  <2>1. \A r \in Registries : Needed'[r] = NoObject <=> ~Exists(r)'
    BY <1>1, DutyTypesNext DEF DutyFacts
  <2>2. ASSUME NEW r \in Registries
        PROVE  Achieved'[r] = IF Exists(r)' THEN Achieved[r] ELSE NoObject
    BY <2>2 DEF Achieved
  <2> QED BY <2>1, <2>2 DEF Achieved
<1>4. Outstanding' \in SUBSET Registries
  BY DEF Outstanding
<1> QED BY <1>2, <1>3, <1>4 DEF Contract!Change

(* A step that changes neither objects nor results, keeps the triggers of what
   exists and drops from the missed only what it triggers is an Announcement. *)
LEMMA AnnounceStep ==
    ASSUME LocalInv, UNCHANGED <<registryPullSecrets, secrets, synced>>,
           \A r \in Registries : Exists(r) => (r \in Outstanding => r \in Outstanding'),
           missed' \subseteq missed,
           \A r \in missed : Exists(r) => r \in missed' \cup Outstanding'
    PROVE  Contract!Announce
<1>1. Needed' = Needed /\ Achieved' = Achieved
  BY DEF Needed, Achieved, Exists, SourceIn
<1>2. \A r \in Registries : Needed[r] # NoObject => Exists(r)
  BY DutyTypes DEF LocalInv, DutyFacts
<1>3. Outstanding' \in SUBSET Registries
  BY DEF Outstanding
<1> QED BY <1>1, <1>2, <1>3 DEF Contract!Announce

(* A worker that goes on, and a write of a Secret, are such Changes: the write is
   announced to whoever takes credentials from the Secret. *)
LEMMA FrameRefines ==
    ASSUME LocalInv, LocalInv', Frame
    PROVE  Contract!Change
<1> USE DEF Frame
<1>i. Idle \notin Job
  BY DEF Idle, Job
<1>1. \A r : Busy(r) <=> Busy(r)'
  BY <1>i DEF Busy, SameReconcile
<1>2. /\ \A other : Stale(secretEvents, other) => Stale(secretEvents', other)
      /\ \A other \in Keys : secrets'[other] # secrets[other] => Stale(secretEvents', other)
  <2>1. CASE UNCHANGED <<secrets, secretEvents>>
    BY <2>1
  <2>2. CASE \E key \in Keys, object \in Secret \cup {NoObject} : WriteSecret(key, object)
    BY <2>2, WriteSecretKeeps DEF LocalInv
  <2> QED BY <2>1, <2>2 DEF SecretsMayChange
<1>3. Outstanding \subseteq Outstanding'
  BY <1>1, <1>2 DEF Outstanding, Triggered, Exists
<1>4. ASSUME NEW r \in Registries, Needed'[r] # Needed[r] PROVE r \in Outstanding'
  <2> DEFINE ref == registryPullSecrets[r].spec.credentialsSecretRef
  <2>1. Exists(r) /\ SourceIn(secrets', registryPullSecrets[r].spec)
                     # SourceIn(secrets, registryPullSecrets[r].spec)
    BY <1>4 DEF Needed, Exists, SourceIn
  <2>2. ref \in Keys /\ secrets'[ref] # secrets[ref]
    BY <2>1, ReferenceType DEF SourceIn, LocalInv
  <2>3. Stale(secretEvents', ref)
    BY <1>2, <2>2
  <2> QED BY <2>1, <2>3 DEF Outstanding, Exists
<1>5. \A r \in Registries : synced'[r] = IF Exists(r)' THEN synced[r] ELSE NoObject
  BY DEF LocalInv, SyncedExists, Exists
<1> QED BY <1>3, <1>4, <1>5, ChangeStep

(* So is a user's write of a RegistryPullSecret, which its event announces. *)
LEMMA UsersStoreRefines ==
    ASSUME LocalInv, LocalInv', NEW r \in Registries,
           NEW object \in RegistryPullSecret \cup {NoObject}, UsersStore(r, object)
    PROVE  Contract!Change
<1>0. TypeInv /\ CachesCoherent /\ SyncedExists
  BY DEF LocalInv
<1>1. UNCHANGED <<secrets, secretEvents, queueVars, missed>>
  BY DEF UsersStore
<1>2. Outstanding \subseteq Outstanding'
  BY <1>0, <1>1, UsersStoreFacts DEF Outstanding, Triggered, Exists, queueVars
<1>3. r \in Outstanding'
  BY <1>0, UsersStoreFacts DEF Outstanding, Triggered
<1>4. ASSUME NEW x \in Registries, x # r PROVE Needed'[x] = Needed[x]
  <2>1. registryPullSecrets'[x] = registryPullSecrets[x]
    BY <1>0, <1>4, UsersStoreFacts
  <2> QED BY <1>1, <2>1 DEF Needed, Exists, SourceIn
<1>5. \A x \in Registries : synced'[x] = IF Exists(x)' THEN synced[x] ELSE NoObject
  <2>1. registryPullSecrets'[r] = object
        /\ \A x \in Registries \ {r} : registryPullSecrets'[x] = registryPullSecrets[x]
    BY <1>0, UsersStoreFacts
  <2> QED BY <1>0, <2>1 DEF UsersStore, SyncedExists, Exists
<1> QED BY <1>1, <1>2, <1>3, <1>4, <1>5, ChangeStep

-----------------------------------------------------------------------------
(* The steps of the reconciler that move its worker. *)
LEMMA ForgetDeletedRefines ==
    ASSUME LocalInv, NEW r \in Registries, ForgetDeleted(r)
    PROVE  Contract!Announce
<1>1. ~Stale(registryEvents, r) => ~Exists(r)
  BY DEF ForgetDeleted, LocalInv, CachesCoherent, Coherent, Exists, TypeInv, TypeOK
<1>2. \A x \in Registries : Exists(x) => (x \in Outstanding => x \in Outstanding')
  BY <1>1 DEF ForgetDeleted, Outstanding, Triggered, Exists, Busy, apiVars, cacheVars
<1> QED BY <1>2, AnnounceStep DEF ForgetDeleted, apiVars

(* The start of a reconcile moves a trigger from the queue to the worker. *)
LEMMA StartReconcileRefines ==
    ASSUME LocalInv, NEW r \in Registries, StartReconcile(r)
    PROVE  Contract!Announce
<1>1. worker = Idle /\ worker'.registry = r /\ worker' # Idle
  BY DEF StartReconcile, Idle
<1>2. Busy(r)' /\ \A x : ~Busy(x)
  BY <1>1 DEF Busy
<1>3. r \in Outstanding' /\ Outstanding \subseteq Outstanding'
  BY <1>2 DEF StartReconcile, Outstanding, Triggered, Exists, apiVars, cacheVars
<1> QED BY <1>3, AnnounceStep DEF StartReconcile, apiVars

(* The abstract end of a reconcile, and what the API server announces of it: at most the
   write of the status. *)
Ended(r) ==
    /\ Contract!Finish(r)
    /\ UNCHANGED <<registryPullSecrets, secrets, secretEvents>>
    /\ \/ UNCHANGED registryEvents
       \/ registryEvents' = Emit(registryEvents, r, registryPullSecrets[r])

(* The end of a reconcile: of an object that is gone it is a failure, since the
   status write is refused, and changes nothing; otherwise it is Finish. *)
LEMMA UpdateStatusRefines ==
    ASSUME LocalInv, LocalInv', UpdateStatus
    PROVE  Contract!Change \/ \E r \in Registries : Ended(r)
<1>l. TypeInv /\ CachesCoherent /\ FreshIsCurrent /\ SyncedExists /\ WorkerIsCurrent
  BY DEF LocalInv
<1>0. PICK r \in Registries : r = worker.registry /\ Busy(r) /\ worker.object # NoObject
  BY <1>l, UpdateStatusFacts, ControllerAssumption DEF Job, Busy
<1>1. /\ worker \in Job /\ worker # Idle /\ worker' = Idle
      /\ UNCHANGED <<registryPullSecrets, secrets, secretEvents, queue, missed>>
      /\ backoff \subseteq backoff' /\ backoff' \subseteq backoff \cup {r}
      /\ \A x : x # r => (Stale(registryEvents', x) <=> Stale(registryEvents, x))
      /\ \A x : Stale(registryEvents, x) => Stale(registryEvents', x)
  BY <1>l, <1>0, UpdateStatusFacts
<1>2. \/ UNCHANGED registryEvents
      \/ registryEvents' = Emit(registryEvents, r, registryPullSecrets[r])
  BY <1>l, <1>0, UpdateStatusFacts DEF StoreStatus
<1>3. \/ r \in backoff' /\ synced' = synced
      \/ worker.fresh /\ synced' = Recorded
  BY <1>l, <1>0, UpdateStatusFacts
<1>4. r \in Outstanding
  BY <1>0 DEF Outstanding, Triggered
<1>5. ASSUME NEW x \in Registries, x # r PROVE x \in Outstanding <=> x \in Outstanding'
  <2>1. ~Busy(x) /\ ~Busy(x)'
    BY <1>0, <1>1, <1>5 DEF Busy
  <2>2. Triggered(x) <=> Triggered(x)'
    BY <1>1, <1>5, <2>1 DEF Triggered
  <2> QED BY <1>1, <2>2 DEF Outstanding, Exists
<1>6. Needed' = Needed
  BY <1>1 DEF Needed, Exists, SourceIn
<1>7. \A x \in Registries : x # r => synced'[x] = synced[x]
  BY <1>l, <1>0, <1>3 DEF Recorded, TypeInv, TypeOK
<1>8. CASE ~Exists(r)
  <2>1. ~worker.fresh
    BY <1>l, <1>0, <1>1, <1>8 DEF FreshIsCurrent, Exists
  <2>2. r \in backoff' /\ synced' = synced
    BY <1>3, <2>1
  <2>3. Outstanding \subseteq Outstanding'
    BY <1>5, <2>2 DEF Outstanding, Triggered
  <2>4. \A x \in Registries : synced'[x] = IF Exists(x)' THEN synced[x] ELSE NoObject
    BY <1>l, <1>1, <2>2 DEF SyncedExists, Exists
  <2> QED BY <1>1, <1>6, <2>3, <2>4, ChangeStep
<1>9. CASE Exists(r)
  <2>1. Needed[r] = CalledFor(r) /\ Needed[r] # NoObject
    BY <1>l, <1>9, DutyTypes DEF DutyFacts
  <2>2. Achieved' \in [Registries -> Duties \cup {NoObject}]
    BY DutyTypesNext DEF LocalInv, DutyFacts
  <2>3. \A x \in Registries \ {r} : Achieved'[x] = Achieved[x]
    BY <1>7 DEF Achieved
  <2>4. Outstanding' \in {Outstanding, Outstanding \ {r}}
    BY <1>4, <1>5 DEF Outstanding
  <2>5. ASSUME r \notin Outstanding', r \notin missed PROVE Achieved'[r] = Needed[r]
    <3>1. ~Pending(r)
      BY <1>1, <1>9, <2>5 DEF Outstanding, Triggered, Pending, Exists
    <3>2. Current(r, worker)
      BY <1>l, <1>0, <1>9, <2>5, <3>1 DEF WorkerIsCurrent
    <3>3. synced' = Recorded
      BY <1>3, <2>5 DEF Outstanding, Triggered
    <3>4. /\ synced'[r].object = worker.object /\ synced'[r].source = worker.source
          /\ synced'[r] \in Inputs
      BY <1>l, <1>0, <1>1, <3>3 DEF Recorded, TypeInv, TypeOK, Job, Inputs
    <3>5. Achieved'[r] = [object |-> worker.object, source |-> worker.source]
      BY <3>4, ControllerAssumption DEF Achieved
    <3> QED BY <2>1, <3>2, <3>5 DEF Current, CalledFor, SourceIn
  <2>6. Contract!Finish(r)
    BY <1>1, <1>4, <1>6, <2>1, <2>2, <2>3, <2>4, <2>5 DEF Contract!Finish
  <2> QED BY <1>1, <1>2, <2>6 DEF Ended
<1> QED BY <1>8, <1>9

-----------------------------------------------------------------------------
(* The steps of the manager. *)
LEMMA DeliverRegistryEventRefines ==
    ASSUME LocalInv, DeliverRegistryEvent
    PROVE  Contract!Announce
<1>1. \A x : Stale(registryEvents, x) <=>
              Stale(registryEvents', x) \/ x = Head(registryEvents).key
  BY DeliverStale DEF DeliverRegistryEvent, LocalInv, TypeInv, TypeOK
<1>2. Outstanding \subseteq Outstanding'
  BY <1>1 DEF DeliverRegistryEvent, Outstanding, Triggered, Exists, Busy, apiVars
<1> QED BY <1>2, AnnounceStep DEF DeliverRegistryEvent, apiVars

(* The abstract loss of a trigger, of which the API server announces nothing *)
Lost ==
    /\ Contract!Lose
    /\ UNCHANGED <<registryPullSecrets, secrets, registryEvents>>
    /\ Len(secretEvents') <= Len(secretEvents)

(* The event of a Secret queues whoever it concerns, or its failing List loses them. *)
LEMMA DeliverSecretEventRefines ==
    ASSUME LocalInv, DeliverSecretEvent
    PROVE  Contract!Announce \/ Lost
<1> DEFINE key == Head(secretEvents).key
           concerned == RegistryPullSecretsForSecret(key)
<1>0. UNCHANGED <<registryPullSecrets, secrets, cachedRegistries, registryEvents, backoff,
                  worker, synced>>
  BY DEF DeliverSecretEvent, apiVars
<1>1. \A x : Stale(secretEvents, x) <=> Stale(secretEvents', x) \/ x = key
  BY DeliverStale DEF DeliverSecretEvent, LocalInv, TypeInv, TypeOK
<1>2. ASSUME NEW x \in Outstanding, x \notin concerned, queue \subseteq queue'
      PROVE  x \in Outstanding'
  <2>1. CASE Triggered(x)
    BY <1>0, <1>2, <2>1 DEF Outstanding, Triggered, Busy
  <2>2. CASE ~Triggered(x)
    <3>1. x \in Registries /\ Exists(x) /\ ~Stale(registryEvents, x)
      BY <1>2, <2>2 DEF Outstanding, Triggered
    <3>2. cachedRegistries[x] = registryPullSecrets[x]
      BY <3>1 DEF LocalInv, CachesCoherent, Coherent, TypeInv, TypeOK
    <3>3. registryPullSecrets[x].spec.credentialsSecretRef # key
      BY <1>2, <3>1, <3>2 DEF RegistryPullSecretsForSecret, Exists
    <3> QED BY <1>0, <1>1, <1>2, <2>2, <3>1, <3>3 DEF Outstanding, Exists
  <2> QED BY <2>1, <2>2
<1>3. CASE queue' = queue \cup concerned /\ UNCHANGED missed
  <2>1. \A x \in Registries : x \in concerned => x \in Outstanding'
    BY <1>3 DEF Outstanding, Triggered
  <2>2. \A x \in Registries : x \in Outstanding => x \in Outstanding'
    BY <1>2, <1>3, <2>1
  <2> QED BY <1>0, <1>3, <2>2, AnnounceStep
<1>4. CASE missed' = missed \cup concerned /\ UNCHANGED queue
  <2>1. Needed' = Needed /\ Achieved' = Achieved
    BY <1>0 DEF Needed, Achieved, Exists, SourceIn
  <2>2. Outstanding' \subseteq Outstanding
    BY <1>0, <1>1, <1>4 DEF Outstanding, Triggered, Exists, Busy
  <2>3. Outstanding \ Outstanding' \subseteq missed'
    BY <1>2, <1>4
  <2>4. missed' \in SUBSET Registries
    BY <1>4 DEF LocalInv, TypeInv, TypeOK, RegistryPullSecretsForSecret
  <2>5. Len(secretEvents') <= Len(secretEvents)
    BY HeadTailProperties DEF DeliverSecretEvent, LocalInv, TypeInv, TypeOK
  <2> QED BY <1>0, <1>4, <2>1, <2>2, <2>3, <2>4, <2>5 DEF Contract!Lose, Lost
<1> QED BY <1>3, <1>4 DEF DeliverSecretEvent

(* A restart announces everything that exists. *)
LEMMA RestartRefines ==
    ASSUME LocalInv, Restart
    PROVE  Contract!Announce
<1>1. \A x \in Registries : Exists(x) => x \in Outstanding'
  BY DEF Restart, Outstanding, Triggered, Exists, apiVars
<1>2. missed \subseteq Registries
  BY DEF LocalInv, TypeInv, TypeOK
<1> QED BY <1>1, <1>2, AnnounceStep DEF Restart, apiVars

-----------------------------------------------------------------------------
(* Each step is a step of the abstract specification. *)
LEMMA StepRefines ==
    ASSUME LocalInv, [Next]_vars
    PROVE  Contract!Change \/ Contract!Announce \/ Lost \/ \E r \in Registries : Ended(r)
<1>1. LocalInv' /\ TypeInv /\ TypeInv'
  BY LocalStep DEF LocalInv
<1>2. CASE ReconcilerMoves
  BY <1>1, <1>2, ForgetDeletedRefines, StartReconcileRefines, UpdateStatusRefines
     DEF ReconcilerMoves
<1>3. CASE ManagerMoves
  BY <1>3, DeliverRegistryEventRefines, DeliverSecretEventRefines, RestartRefines
     DEF ManagerMoves
<1>4. CASE UsersMove
  BY <1>1, <1>4, UsersStoreRefines DEF UsersMove
<1> QED BY <1>1, <1>2, <1>3, <1>4, FrameRefines, KindsOfSteps

(* At the start everything that exists is queued and nothing has been done. *)
LEMMA InitRefines == Init => Contract!Init
<1> SUFFICES ASSUME Init PROVE Contract!Init
  OBVIOUS
<1>1. Needed \in [Registries -> Duties \cup {NoObject}]
  BY TypeInit, DutyTypes DEF DutyFacts
<1>2. \A r \in Registries : Needed[r] # NoObject => r \in Outstanding
  BY TypeInit, DutyTypes DEF DutyFacts, Init, Outstanding, Triggered
<1>3. Achieved = [r \in Registries |-> NoObject]
  BY DEF Init, Achieved
<1> QED BY <1>1, <1>2, <1>3 DEF Contract!Init, Init, Outstanding

(* The reconciler in its cluster implements a level-triggered controller: whatever
   lags, conflicts, fails or restarts, a RegistryPullSecret leaves its attention only
   when what it calls for at that moment has been carried out (Reconcile,
   SetupWithManager). *)
THEOREM RefinementCorrect == Spec => ImplementsLevelTriggered
<1>1. LocalInv /\ [Next]_vars => [Contract!Next]_(Contract!vars)
  BY StepRefines DEF Contract!Next, Lost, Ended
<1> QED
  BY <1>1, LocalInit, LocalStep, InitRefines, PTL DEF Spec, ImplementsLevelTriggered, Contract!Spec

-----------------------------------------------------------------------------
(* Beside another manager.  What one does, the API server announces to both: a stream
   with news grows by one event, which says what its object has become. *)
Announced(before, after, stream, longer) ==
    \E key \in DOMAIN before : /\ longer = Emit(stream, key, after[key])
                               /\ after = [before EXCEPT ![key] = after[key]]

(* A stream of the manager that acts *)
Tells(before, after, stream, longer) ==
    Announced(before, after, stream, longer) \/ (after = before /\ Len(longer) <= Len(stream))

(* The same stream of the one that hears of it *)
Told(before, after, stream, longer) ==
    Announced(before, after, stream, longer) \/ (after = before /\ longer = stream)

(* Every step changes at most one object of each kind and announces it. *)
LEMMA StepTells ==
    ASSUME LocalInv, [Next]_vars
    PROVE  /\ Tells(registryPullSecrets, registryPullSecrets', registryEvents, registryEvents')
           /\ Tells(secrets, secrets', secretEvents, secretEvents')
<1>0. /\ TypeInv /\ TypeInv' /\ CachesCoherent
      /\ DOMAIN registryPullSecrets = Registries /\ DOMAIN secrets = Keys
      /\ registryEvents \in Seq(Event(Registries, RegistryPullSecret \cup {NoObject}))
      /\ secretEvents \in Seq(Event(Keys, Secret \cup {NoObject}))
  BY TypeStep DEF LocalInv, TypeInv, TypeOK
<1>1. Len(registryEvents) \in Nat /\ Len(secretEvents) \in Nat
  BY <1>0
<1>2. CASE Frame
  <2>1. CASE UNCHANGED <<secrets, secretEvents>>
    BY <1>1, <1>2, <2>1 DEF Frame, Tells
  <2>2. CASE \E key \in Keys, object \in Secret \cup {NoObject} : WriteSecret(key, object)
    <3>1. PICK key \in Keys : \E object \in Secret \cup {NoObject} : WriteSecret(key, object)
      BY <2>2
    <3>2. secrets' = [secrets EXCEPT ![key] = secrets'[key]]
      BY <1>0, <3>1 DEF WriteSecret, TypeInv, TypeOK
    <3>3. \/ secretEvents' = secretEvents /\ secrets' = secrets
          \/ secretEvents' = Emit(secretEvents, key, secrets'[key])
      BY <1>0, <3>1 DEF WriteSecret, TypeInv, TypeOK
    <3> QED BY <1>0, <1>1, <1>2, <3>2, <3>3 DEF Frame, Tells, Announced
  <2> QED BY <1>2, <2>1, <2>2 DEF Frame, SecretsMayChange
<1>3. CASE UpdateStatus
  <2>1. /\ UNCHANGED <<registryPullSecrets, secrets, secretEvents>>
        /\ worker.registry \in Registries
        /\ StoreStatus \/ UNCHANGED registryEvents
    BY <1>0, <1>3, UpdateStatusFacts DEF Job
  <2>2. registryPullSecrets' =
          [registryPullSecrets EXCEPT ![worker.registry] = registryPullSecrets'[worker.registry]]
    BY <2>1, <1>0 DEF TypeInv, TypeOK
  <2>3. \/ UNCHANGED registryEvents
        \/ registryEvents' = Emit(registryEvents, worker.registry,
                                  registryPullSecrets'[worker.registry])
    BY <2>1 DEF StoreStatus
  <2> QED BY <1>0, <1>1, <2>1, <2>2, <2>3 DEF Tells, Announced
<1>4. CASE \E r \in Registries : ForgetDeleted(r) \/ StartReconcile(r)
  BY <1>1, <1>4 DEF ForgetDeleted, StartReconcile, Tells, apiVars, cacheVars
<1>5. CASE ManagerMoves
  <2>1. CASE DeliverRegistryEvent
    <3>1. Len(Tail(registryEvents)) <= Len(registryEvents)
      BY <1>0, <2>1, HeadTailProperties DEF DeliverRegistryEvent
    <3> QED BY <1>1, <2>1, <3>1 DEF DeliverRegistryEvent, Tells, apiVars
  <2>2. CASE DeliverSecretEvent
    <3>1. Len(Tail(secretEvents)) <= Len(secretEvents)
      BY <1>0, <2>2, HeadTailProperties DEF DeliverSecretEvent
    <3> QED BY <1>1, <2>2, <3>1 DEF DeliverSecretEvent, Tells, apiVars
  <2>3. CASE Restart
    BY <1>1, <2>3 DEF Restart, Tells, apiVars
  <2> QED BY <1>5, <2>1, <2>2, <2>3 DEF ManagerMoves
<1>6. CASE UsersMove
  <2>1. PICK r \in Registries, object \in RegistryPullSecret \cup {NoObject} : UsersStore(r, object)
    BY <1>6 DEF UsersMove
  <2>2. /\ registryPullSecrets' = [registryPullSecrets EXCEPT ![r] = registryPullSecrets'[r]]
        /\ registryEvents' = Emit(registryEvents, r, registryPullSecrets'[r])
    BY <1>0, <2>1 DEF UsersStore, StoreRegistry, TypeInv, TypeOK
  <2> QED BY <1>0, <1>1, <2>1, <2>2 DEF UsersStore, Tells, Announced
<1> QED BY <1>0, <1>2, <1>3, <1>4, <1>5, <1>6, KindsOfSteps DEF ReconcilerMoves

(* A manager hears what another, or a user through another's step, has done. *)
Heard ==
    /\ Told(registryPullSecrets, registryPullSecrets', registryEvents, registryEvents')
    /\ Told(secrets, secrets', secretEvents, secretEvents')
    /\ \/ worker' = worker
       \/ worker \in Job /\ worker' = [worker EXCEPT !.fresh = FALSE]
    /\ \A r \in Registries :
         Busy(r) /\ registryPullSecrets'[r] # registryPullSecrets[r] => ~worker'.fresh
    /\ UNCHANGED <<cachedRegistries, cachedSecrets, cachedPolicy, cachedNamespaces, queueVars,
                   missed>>

(* The types of what managers share *)
SharedOK ==
    /\ registryPullSecrets \in [Registries -> RegistryPullSecret \cup {NoObject}]
    /\ status \in [Registries -> Status]
    /\ policy \in PolicySettings \cup {NoObject}
    /\ namespaces \in [Namespaces -> NamespacePhases]
    /\ secrets \in [Keys -> Secret \cup {NoObject}]
    /\ synced \in [Registries -> Inputs \cup {NoObject}]
    /\ budget \in [Disturbances -> Nat]

(* What a manager hears keeps its types. *)
LEMMA HeardTypes ==
    ASSUME TypeInv, SharedOK', Heard
    PROVE  TypeInv'
<1>1. registryEvents' \in Seq(Event(Registries, RegistryPullSecret \cup {NoObject}))
  <2>1. ASSUME NEW r \in Registries,
               registryEvents' = Emit(registryEvents, r, registryPullSecrets'[r])
        PROVE  registryEvents' \in Seq(Event(Registries, RegistryPullSecret \cup {NoObject}))
    <3>1. registryPullSecrets'[r] \in RegistryPullSecret \cup {NoObject}
      BY DEF SharedOK
    <3> QED BY <2>1, <3>1, EmitType DEF TypeInv, TypeOK
  <2> QED BY <2>1 DEF Heard, Told, Announced, TypeInv, TypeOK
<1>2. secretEvents' \in Seq(Event(Keys, Secret \cup {NoObject}))
  <2>1. ASSUME NEW key \in Keys, secretEvents' = Emit(secretEvents, key, secrets'[key])
        PROVE  secretEvents' \in Seq(Event(Keys, Secret \cup {NoObject}))
    <3>1. secrets'[key] \in Secret \cup {NoObject}
      BY DEF SharedOK
    <3> QED BY <2>1, <3>1, EmitType DEF TypeInv, TypeOK
  <2> QED BY <2>1 DEF Heard, Told, Announced, TypeInv, TypeOK
<1>3. worker' \in Job \cup {Idle} /\ CredentialsResolved'
  <2>1. CASE worker' = worker
    BY <2>1 DEF TypeInv, TypeOK, CredentialsResolved
  <2>2. CASE worker \in Job /\ worker' = [worker EXCEPT !.fresh = FALSE]
    <3>1. worker' \in Job /\ worker'.step = worker.step /\ worker'.credentials = worker.credentials
      BY <2>2 DEF Job
    <3> QED BY <2>2, <3>1 DEF TypeInv, CredentialsResolved
  <2> QED BY <2>1, <2>2 DEF Heard
<1> QED BY <1>1, <1>2, <1>3 DEF Heard, SharedOK, TypeInv, TypeOK, queueVars

(* What an announcement does to a stream, for either kind of object *)
LEMMA ToldKeeps ==
    ASSUME NEW Names, NEW Objects, NEW stream \in Seq(Event(Names, Objects)), NEW longer,
           NEW before \in [Names -> Objects], NEW after \in [Names -> Objects],
           NEW cache \in [Names -> Objects],
           Coherent(before, cache, stream), Told(before, after, stream, longer)
    PROVE  /\ Coherent(after, cache, longer)
           /\ \A x : Stale(stream, x) => Stale(longer, x)
<1>1. CASE after = before /\ longer = stream
  BY <1>1
<1>2. CASE Announced(before, after, stream, longer)
  <2>1. PICK key \in Names : /\ longer = Emit(stream, key, after[key])
                             /\ after = [before EXCEPT ![key] = after[key]]
    BY <1>2 DEF Announced
  <2>2. PICK object \in Objects : object = after[key]
    OBVIOUS
  <2>3. longer = Emit(stream, key, object) /\ after = [before EXCEPT ![key] = object]
    BY <2>1, <2>2
  <2>4. Coherent(after, cache, longer)
    BY <2>3, EmitCoherent
  <2>5. \A x : Stale(longer, x) <=> Stale(stream, x) \/ x = key
    BY <2>3, EmitStale
  <2> QED BY <2>4, <2>5
<1> QED BY <1>1, <1>2 DEF Told

(* What has changed is announced. *)
LEMMA ToldOfChange ==
    ASSUME NEW Names, NEW Objects, NEW stream \in Seq(Event(Names, Objects)), NEW longer,
           NEW before \in [Names -> Objects], NEW after \in [Names -> Objects],
           Told(before, after, stream, longer), NEW x \in Names, after[x] # before[x]
    PROVE  Stale(longer, x)
<1>1. PICK key \in Names : /\ longer = Emit(stream, key, after[key])
                           /\ after = [before EXCEPT ![key] = after[key]]
  BY DEF Told, Announced
<1>2. Stale(longer, x) <=> Stale(stream, x) \/ x = key
  BY <1>1, EmitStale
<1> QED BY <1>1, <1>2

(* A manager that hears of a change keeps its caches coherent and its triggers. *)
LEMMA HeardFacts ==
    ASSUME TypeInv, SharedOK', CachesCoherent, Heard
    PROVE  /\ CachesCoherent'
           /\ \A x : Stale(registryEvents, x) => Stale(registryEvents', x)
           /\ \A x : Stale(secretEvents, x) => Stale(secretEvents', x)
           /\ \A r \in Registries :
                registryPullSecrets'[r] # registryPullSecrets[r] => Stale(registryEvents', r)
           /\ \A key \in Keys : secrets'[key] # secrets[key] => Stale(secretEvents', key)
           /\ \A r : Busy(r) <=> Busy(r)'
<1>1. /\ Coherent(registryPullSecrets', cachedRegistries, registryEvents')
      /\ \A x : Stale(registryEvents, x) => Stale(registryEvents', x)
      /\ \A r \in Registries :
           registryPullSecrets'[r] # registryPullSecrets[r] => Stale(registryEvents', r)
  <2> DEFINE Objects == RegistryPullSecret \cup {NoObject}
  <2>1. /\ registryEvents \in Seq(Event(Registries, Objects))
        /\ registryPullSecrets \in [Registries -> Objects]
        /\ cachedRegistries \in [Registries -> Objects]
    BY DEF TypeInv, TypeOK
  <2>2. registryPullSecrets' \in [Registries -> Objects]
    BY DEF SharedOK
  <2>3. Coherent(registryPullSecrets, cachedRegistries, registryEvents)
    BY DEF CachesCoherent
  <2>4. Told(registryPullSecrets, registryPullSecrets', registryEvents, registryEvents')
    BY DEF Heard
  <2> HIDE DEF Objects
  <2>5. /\ Coherent(registryPullSecrets', cachedRegistries, registryEvents')
        /\ \A x : Stale(registryEvents, x) => Stale(registryEvents', x)
    BY <2>1, <2>2, <2>3, <2>4, ToldKeeps
  <2>6. \A x \in Registries :
          registryPullSecrets'[x] # registryPullSecrets[x] => Stale(registryEvents', x)
    BY <2>1, <2>2, <2>4, ToldOfChange
  <2> QED BY <2>5, <2>6
<1>2. /\ Coherent(secrets', cachedSecrets, secretEvents')
      /\ \A x : Stale(secretEvents, x) => Stale(secretEvents', x)
      /\ \A key \in Keys : secrets'[key] # secrets[key] => Stale(secretEvents', key)
  <2> DEFINE Objects == Secret \cup {NoObject}
  <2>1. /\ secretEvents \in Seq(Event(Keys, Objects))
        /\ secrets \in [Keys -> Objects]
        /\ cachedSecrets \in [Keys -> Objects]
    BY DEF TypeInv, TypeOK
  <2>2. secrets' \in [Keys -> Objects]
    BY DEF SharedOK
  <2>3. Coherent(secrets, cachedSecrets, secretEvents)
    BY DEF CachesCoherent
  <2>4. Told(secrets, secrets', secretEvents, secretEvents')
    BY DEF Heard
  <2> HIDE DEF Objects
  <2>5. /\ Coherent(secrets', cachedSecrets, secretEvents')
        /\ \A x : Stale(secretEvents, x) => Stale(secretEvents', x)
    BY <2>1, <2>2, <2>3, <2>4, ToldKeeps
  <2>6. \A x \in Keys : secrets'[x] # secrets[x] => Stale(secretEvents', x)
    BY <2>1, <2>2, <2>4, ToldOfChange
  <2> QED BY <2>5, <2>6
<1>3. \A r : Busy(r) <=> Busy(r)'
  <2>1. CASE worker \in Job /\ worker' = [worker EXCEPT !.fresh = FALSE]
    BY <2>1 DEF Job, Idle, Busy
  <2> QED BY <2>1 DEF Heard, Busy
<1>4. UNCHANGED <<cachedRegistries, cachedSecrets>>
  BY DEF Heard
<1> QED BY <1>1, <1>2, <1>3, <1>4 DEF CachesCoherent

(* What others do keeps what holds of a manager: it is announced before it could be
   taken for current. *)
LEMMA HeardKeepsLocal ==
    ASSUME LocalInv, SharedOK', SyncedExists', Heard
    PROVE  LocalInv'
<1>0. TypeInv /\ TypeInv' /\ CachesCoherent /\ FreshIsCurrent /\ WorkerIsCurrent
  BY HeardTypes DEF LocalInv
<1>1. CachesCoherent'
  BY <1>0, HeardFacts
<1>2. worker \in Job => /\ worker'.object = worker.object /\ worker'.source = worker.source
                        /\ worker'.registry = worker.registry
                        /\ worker'.fresh => worker.fresh
  BY DEF Heard, Job
<1>3. FreshIsCurrent'
  <2> SUFFICES ASSUME worker' \in Job, worker'.fresh
               PROVE  worker'.object = registryPullSecrets'[worker'.registry]
    BY DEF FreshIsCurrent
  <2>1. worker \in Job /\ worker # Idle /\ worker.registry \in Registries
    BY DEF Heard, Job, Idle
  <2>2. Busy(worker.registry)
    BY <2>1 DEF Busy
  <2>3. registryPullSecrets'[worker.registry] = registryPullSecrets[worker.registry]
    BY <2>1, <2>2 DEF Heard
  <2> QED BY <1>0, <1>2, <2>1, <2>3 DEF FreshIsCurrent
<1>4. WorkerIsCurrent'
  <2> SUFFICES ASSUME NEW r \in Registries, Exists(r)', ~Pending(r)', r \notin missed', Busy(r)'
               PROVE  Current(r, worker)'
    BY DEF WorkerIsCurrent
  <2>1. registryPullSecrets'[r] = registryPullSecrets[r] /\ Busy(r) /\ r \notin missed
    BY <1>0, HeardFacts DEF Pending, Heard
  <2>2. ~Pending(r) /\ Exists(r)
    BY <1>0, <2>1, HeardFacts DEF Pending, Heard, queueVars, Exists
  <2> DEFINE ref == registryPullSecrets[r].spec.credentialsSecretRef
  <2>3. ref \in Keys \cup {NoRef} /\ (ref \in Keys => secrets'[ref] = secrets[ref])
    BY <1>0, <2>1, <2>2, HeardFacts, ReferenceType DEF Pending
  <2>4. Current(r, worker)
    BY <1>0, <2>1, <2>2 DEF WorkerIsCurrent
  <2>5. worker \in Job
    BY <1>0, <2>1 DEF Busy, TypeInv, TypeOK
  <2> QED BY <1>2, <2>1, <2>3, <2>4, <2>5 DEF Current, SourceIn
<1> QED BY <1>0, <1>1, <1>3, <1>4 DEF LocalInv

(* It takes no name from a manager's attention: an object whose reference has changed
   is announced itself. *)
LEMMA HeardKeepsOutstanding ==
    ASSUME LocalInv, SharedOK', Heard
    PROVE  Outstanding \subseteq Outstanding' /\ missed' = missed
<1>0. TypeInv /\ CachesCoherent /\ UNCHANGED <<queueVars, missed>>
  BY DEF LocalInv, Heard
<1> SUFFICES ASSUME NEW r \in Outstanding PROVE r \in Outstanding'
  BY <1>0
<1>1. r \in Registries
  BY DEF Outstanding
<1>2. CASE Triggered(r)
  BY <1>0, <1>1, <1>2, HeardFacts DEF Outstanding, Triggered, queueVars
<1>3. CASE registryPullSecrets'[r] # registryPullSecrets[r]
  BY <1>0, <1>1, <1>3, HeardFacts DEF Outstanding, Triggered
<1>4. CASE registryPullSecrets'[r] = registryPullSecrets[r] /\ ~Triggered(r)
  BY <1>0, <1>1, <1>4, HeardFacts DEF Outstanding, Exists
<1> QED BY <1>2, <1>3, <1>4

(* It adds only what is announced. *)
LEMMA HeardAdds ==
    ASSUME LocalInv, SharedOK', Heard, UNCHANGED <<registryPullSecrets, secretEvents>>, NEW names,
           \A x : Stale(registryEvents', x) => Stale(registryEvents, x) \/ x \in names
    PROVE  Outstanding' \subseteq Outstanding \cup names
<1>0. TypeInv /\ CachesCoherent /\ UNCHANGED queueVars
  BY DEF LocalInv, Heard
<1> QED BY <1>0, HeardFacts DEF Outstanding, Triggered, Exists, queueVars
=============================================================================

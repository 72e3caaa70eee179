------------------------ MODULE PullSecretPolicyProofs ------------------------
(* Theorems about PullSecretPolicyController, for any number of policy objects, any
   lists of exclusions, any budget of disturbances and any number of events on
   their way. *)
EXTENDS PullSecretPolicyController, WatchStreamProofs

Objects == PullSecretPolicy \cup {NoObject}

(* The cache lags, it does not lie. *)
CacheCoherent == Coherent(policies, cachedPolicies, policyEvents)

(* A reconcile whose resourceVersion is current works on the current object. *)
FreshIsCurrent ==
    worker \in Job /\ worker.fresh => worker.object = policies[worker.name]

(* No status is ahead of its object, and none is left of one that is gone: so a
   recreated object, which counts its generations from 1 again, is not taken for
   the one that was reported on. *)
ReportNotAhead ==
    \A p \in PolicyNames :
        IF Exists(p) THEN status[p].observedGeneration <= policies[p].generation
                     ELSE status[p] = NoStatus

PolicyInv ==
    /\ TypeOK
    /\ CacheCoherent
    /\ FreshIsCurrent
    /\ ReportNotAhead
    /\ ReportFitsGeneration
    /\ SettledStatusIsTrue

-----------------------------------------------------------------------------
(* A report is a status, carries its object's generation and is not the empty one. *)
LEMMA StatusForType ==
    ASSUME NEW p, NEW object \in PullSecretPolicy
    PROVE  /\ StatusFor(p, object) \in Status
           /\ StatusFor(p, object).observedGeneration = object.generation
           /\ StatusFor(p, object) # NoStatus
<1>1. object.generation \in Nat \ {0} /\ Len(object.excluded) \in Nat
  <2>1. object.excluded \in Seq(Elements(object.excluded))
    BY PolicyControllerAssumption DEF PullSecretPolicy
  <2> QED BY <2>1, LenProperties DEF PullSecretPolicy
<1>2. ValidatePullSecretPolicy(object.excluded) \in BOOLEAN
  BY DEF ValidatePullSecretPolicy, NoDuplicates
<1>3. StatusFor(p, object).observedGeneration = object.generation
  BY DEF StatusFor
<1>4. StatusFor(p, object) \in Status
  BY <1>1, <1>2 DEF StatusFor, Status, ReadyReasons
<1>5. NoStatus.observedGeneration = 0
  BY DEF NoStatus
<1> QED BY <1>1, <1>3, <1>4, <1>5

(* An event carries its object to the cache later. *)
LEMMA EmitKeeps ==
    ASSUME PolicyInv, NEW p \in PolicyNames, NEW object \in Objects,
           policies' = [policies EXCEPT ![p] = object],
           policyEvents' = Emit(policyEvents, p, object)
    PROVE  /\ Coherent(policies', cachedPolicies, policyEvents')
           /\ policyEvents' \in Seq(Event(PolicyNames, Objects))
           /\ \A q : Stale(policyEvents', q) <=> Stale(policyEvents, q) \/ q = p
<1>1. /\ policyEvents \in Seq(Event(PolicyNames, Objects))
      /\ policies \in [PolicyNames -> Objects] /\ cachedPolicies \in [PolicyNames -> Objects]
  BY DEF PolicyInv, TypeOK, Objects
<1>2. Coherent(policies', cachedPolicies, policyEvents')
  BY <1>1, EmitCoherent DEF PolicyInv, CacheCoherent
<1>3. policyEvents' \in Seq(Event(PolicyNames, Objects))
  BY <1>1, EmitType
<1>4. \A q : Stale(policyEvents', q) <=> Stale(policyEvents, q) \/ q = p
  BY <1>1, EmitStale
<1> QED BY <1>2, <1>3, <1>4

(* What is left of the budget stays a natural number. *)
LEMMA SpendType ==
    ASSUME NEW kind \in Disturbances, Spend(kind), budget \in [Disturbances -> Nat]
    PROVE  budget' \in [Disturbances -> Nat]
<1>1. budget[kind] - 1 \in Nat
  BY DEF Spend
<1> QED BY <1>1 DEF Spend

-----------------------------------------------------------------------------
(* A manager starts with a coherent cache and nothing reported. *)
LEMMA PolicyInit == Init => PolicyInv
<1> SUFFICES ASSUME Init PROVE PolicyInv
  OBVIOUS
<1>1. TypeOK
  <2>1. NoStatus \in Status /\ policyEvents \in Seq(Event(PolicyNames, PullSecretPolicy \cup {NoObject}))
    BY EmptySeq DEF NoStatus, Status, Init
  <2> QED BY <2>1, PolicyControllerAssumption DEF Init, TypeOK
<1>2. CacheCoherent
  BY DEF Init, CacheCoherent, Coherent, Stale
<1>3. FreshIsCurrent
  BY DEF Init, FreshIsCurrent, Idle, Job
<1>4. ReportNotAhead /\ ReportFitsGeneration
  <2>1. NoStatus.observedGeneration = 0
    BY DEF NoStatus
  <2>2. \A p \in PolicyNames : Exists(p) => policies[p].generation \in Nat \ {0}
    BY PolicyControllerAssumption DEF Init, Exists, PullSecretPolicy
  <2> QED BY <2>1, <2>2 DEF Init, ReportNotAhead, ReportFitsGeneration
<1>5. SettledStatusIsTrue
  BY DEF Init, SettledStatusIsTrue, Triggered
<1> QED BY <1>1, <1>2, <1>3, <1>4, <1>5 DEF PolicyInv

(* A reconcile takes a name from the queue and the object from the cache. *)
LEMMA StartReconcileKeeps ==
    ASSUME PolicyInv, NEW p \in PolicyNames, StartReconcile(p)
    PROVE  PolicyInv'
<1> USE DEF PolicyInv
<1>0. UNCHANGED <<policies, status, cachedPolicies, policyEvents, backoff, budget>>
  BY DEF StartReconcile
<1>1. ~Stale(policyEvents, p) => cachedPolicies[p] = policies[p]
  BY DEF CacheCoherent, Coherent, TypeOK
<1>2. CASE cachedPolicies[p] = NoObject
  <2>1. worker' = Idle /\ queue' = queue \ {p} /\ worker = Idle
    BY <1>2 DEF StartReconcile
  <2>2. SettledStatusIsTrue'
    BY <1>0, <1>1, <1>2, <2>1 DEF SettledStatusIsTrue, Triggered, Busy, Exists
  <2>3. FreshIsCurrent'
    BY <2>1 DEF FreshIsCurrent, Idle, Job
  <2> QED BY <1>0, <2>1, <2>2, <2>3
          DEF TypeOK, CacheCoherent, ReportNotAhead, ReportFitsGeneration, Exists
<1>3. CASE cachedPolicies[p] # NoObject
  <2>1. /\ worker' = [step |-> "status", name |-> p, object |-> cachedPolicies[p],
                      fresh |-> ~Stale(policyEvents, p)]
        /\ queue' = queue \ {p} /\ worker = Idle
    BY <1>3 DEF StartReconcile
  <2>2. worker' \in Job /\ worker'.name = p /\ worker' # Idle
    BY <1>3, <2>1 DEF TypeOK, Job, Idle
  <2>3. SettledStatusIsTrue'
    BY <1>0, <2>1, <2>2 DEF SettledStatusIsTrue, Triggered, Busy, Exists
  <2>4. FreshIsCurrent'
    BY <1>0, <1>1, <2>1 DEF FreshIsCurrent
  <2> QED BY <1>0, <2>1, <2>2, <2>3, <2>4
          DEF TypeOK, CacheCoherent, ReportNotAhead, ReportFitsGeneration, Exists
<1> QED BY <1>2, <1>3

(* A failing Get and the end of a backoff only move names. *)
LEMMA RequeueKeeps ==
    ASSUME PolicyInv, NEW p \in PolicyNames, GetFails(p) \/ BackoffExpires(p)
    PROVE  PolicyInv'
<1> USE DEF PolicyInv
<1>1. /\ UNCHANGED <<policies, status, cachedPolicies, policyEvents, worker>>
      /\ queue \cup backoff = queue' \cup backoff'
      /\ queue' \subseteq PolicyNames /\ backoff' \subseteq PolicyNames
      /\ budget' \in [Disturbances -> Nat]
  BY SpendType DEF GetFails, BackoffExpires, TypeOK, Disturbances
<1>2. SettledStatusIsTrue'
  BY <1>1 DEF SettledStatusIsTrue, Triggered, Busy, Exists
<1> QED BY <1>1, <1>2
        DEF TypeOK, CacheCoherent, FreshIsCurrent, ReportNotAhead, ReportFitsGeneration, Exists

(* The end of a reconcile: its name waits for a retry, or the status that was stored
   is the report on the current object. *)
LEMMA UpdateStatusKeeps ==
    ASSUME PolicyInv, UpdateStatus
    PROVE  PolicyInv'
<1> USE DEF PolicyInv
<1>j. worker \in Job /\ worker # Idle
  BY DEF UpdateStatus, TypeOK, Idle
<1>p. PICK p \in PolicyNames : p = worker.name
  BY <1>j DEF Job
<1>1. /\ UNCHANGED <<policies, cachedPolicies, queue>> /\ worker' = Idle
      /\ backoff' = backoff \/ backoff' = backoff \cup {p}
      /\ budget' \in [Disturbances -> Nat]
  BY <1>p, SpendType DEF UpdateStatus, Return, TypeOK, Disturbances
<1>2. \/ UNCHANGED <<status, policyEvents>> /\ p \in backoff'
      \/ worker.fresh /\ StoreStatus
  BY <1>p DEF UpdateStatus, Return, StatusAccepted
<1>3. ASSUME worker.fresh, StoreStatus
      PROVE  /\ Exists(p) /\ policies[p] \in PullSecretPolicy
             /\ status' = [status EXCEPT ![p] = StatusFor(p, policies[p])]
             /\ CacheCoherent'
             /\ policyEvents' \in Seq(Event(PolicyNames, Objects))
             /\ \A q : Stale(policyEvents, q) => Stale(policyEvents', q)
             /\ \A q : q # p => (Stale(policyEvents, q) <=> Stale(policyEvents', q))
  <2>1. worker.object = policies[p] /\ worker.object \in PullSecretPolicy
    BY <1>j, <1>p, <1>3 DEF FreshIsCurrent, Job
  <2>2. Exists(p)
    BY <2>1, PolicyControllerAssumption DEF Exists
  <2>3. CASE policyEvents' = policyEvents
    BY <1>1, <1>3, <1>p, <2>1, <2>2, <2>3 DEF StoreStatus, CacheCoherent, TypeOK, Objects
  <2>4. CASE policyEvents' = Emit(policyEvents, p, policies[p])
    <3>1. policies' = [policies EXCEPT ![p] = policies[p]] /\ policies[p] \in Objects
      BY <1>1, <2>1 DEF TypeOK, Objects
    <3> QED BY <1>1, <1>3, <1>p, <2>1, <2>2, <2>4, <3>1, EmitKeeps DEF StoreStatus, CacheCoherent
  <2> QED BY <1>3, <1>p, <2>3, <2>4 DEF StoreStatus
<1>4. TypeOK'
  <2>1. status' \in [PolicyNames -> Status]
    BY <1>2, <1>3, StatusForType DEF TypeOK
  <2>2. policyEvents' \in Seq(Event(PolicyNames, PullSecretPolicy \cup {NoObject}))
    BY <1>2, <1>3 DEF TypeOK, Objects
  <2> QED BY <1>1, <2>1, <2>2 DEF TypeOK
<1>5. CacheCoherent'
  BY <1>1, <1>2, <1>3 DEF CacheCoherent
<1>6. FreshIsCurrent'
  BY <1>1 DEF FreshIsCurrent, Idle, Job
<1>7. /\ \A q \in PolicyNames : q # p => status'[q] = status[q]
      /\ worker.fresh /\ StoreStatus => status'[p] = StatusFor(p, policies[p])
      /\ ~(worker.fresh /\ StoreStatus) => status'[p] = status[p]
  BY <1>2, <1>3 DEF TypeOK
<1>8. ReportNotAhead' /\ ReportFitsGeneration'
  <2>1. ASSUME worker.fresh, StoreStatus
        PROVE  Exists(p) /\ status'[p].observedGeneration <= policies[p].generation
    BY <1>3, <1>7, <2>1, StatusForType DEF PullSecretPolicy
  <2> QED BY <1>1, <1>7, <2>1 DEF ReportNotAhead, ReportFitsGeneration, Exists
<1>9. SettledStatusIsTrue'
  <2> SUFFICES ASSUME NEW q \in PolicyNames, Exists(q), ~Triggered(q)'
               PROVE  status'[q] = StatusFor(q, policies[q])
    BY <1>1 DEF SettledStatusIsTrue, Exists
  <2>1. CASE q = p
    BY <1>2, <1>7, <2>1 DEF Triggered
  <2>2. CASE q # p
    <3>1. ~Triggered(q)
      BY <1>1, <1>2, <1>3, <1>p, <2>2 DEF Triggered, Busy
    <3> QED BY <1>7, <2>2, <3>1 DEF SettledStatusIsTrue
  <2> QED BY <2>1, <2>2
<1> QED BY <1>4, <1>5, <1>6, <1>8, <1>9

(* The cache catches up with a policy object, whose name is enqueued. *)
LEMMA DeliverPolicyEventKeeps ==
    ASSUME PolicyInv, DeliverPolicyEvent
    PROVE  PolicyInv'
<1> USE DEF PolicyInv, DeliverPolicyEvent
<1>0. /\ policyEvents \in Seq(Event(PolicyNames, Objects)) /\ policyEvents # << >>
      /\ policies \in [PolicyNames -> Objects] /\ cachedPolicies \in [PolicyNames -> Objects]
  BY DEF TypeOK, Objects
<1>1. \A q : Stale(policyEvents, q) <=> Stale(policyEvents', q) \/ q = Head(policyEvents).key
  BY <1>0, DeliverStale
<1>2. CacheCoherent'
  <2>1. Coherent(policies, Delivered(cachedPolicies, policyEvents), Tail(policyEvents))
    BY <1>0, DeliverCoherent DEF CacheCoherent
  <2> QED BY <2>1 DEF CacheCoherent
<1>3. TypeOK'
  <2>1. /\ Head(policyEvents) \in Event(PolicyNames, Objects)
        /\ Tail(policyEvents) \in Seq(Event(PolicyNames, Objects))
        /\ Delivered(cachedPolicies, policyEvents) \in [PolicyNames -> Objects]
    BY <1>0, DeliverType
  <2>2. Head(policyEvents).key \in PolicyNames
    BY <2>1 DEF Event
  <2> QED BY <2>1, <2>2 DEF TypeOK, Objects
<1>4. SettledStatusIsTrue'
  BY <1>1 DEF SettledStatusIsTrue, Triggered, Busy, Exists
<1> QED BY <1>2, <1>3, <1>4 DEF FreshIsCurrent, ReportNotAhead, ReportFitsGeneration, Exists

(* A new process starts from the API server and reconciles everything. *)
LEMMA RestartKeeps ==
    ASSUME PolicyInv, Restart
    PROVE  PolicyInv'
<1> USE DEF PolicyInv, Restart
<1>1. TypeOK'
  <2>1. << >> \in Seq(Event(PolicyNames, PullSecretPolicy \cup {NoObject}))
    BY EmptySeq
  <2> QED BY <2>1, SpendType DEF TypeOK, Disturbances
<1>2. CacheCoherent'
  BY DEF CacheCoherent, Coherent, Stale
<1>3. FreshIsCurrent'
  BY DEF FreshIsCurrent, Idle, Job
<1>4. SettledStatusIsTrue'
  BY DEF SettledStatusIsTrue, Triggered, Exists
<1> QED BY <1>1, <1>2, <1>3, <1>4 DEF ReportNotAhead, ReportFitsGeneration, Exists

(* Users write a policy object: its event is a trigger, its generation a new one and
   the resourceVersion a running reconcile holds an old one. *)
LEMMA StorePolicyKeeps ==
    ASSUME PolicyInv, NEW p \in PolicyNames, NEW object \in Objects, StorePolicy(p, object),
           status' \in [PolicyNames -> Status],
           \A q \in PolicyNames \ {p} : status'[q] = status[q],
           IF object = NoObject THEN status'[p] = NoStatus
                                ELSE status'[p].observedGeneration < object.generation
    PROVE  PolicyInv'
<1> USE DEF PolicyInv
<1>1. /\ Coherent(policies', cachedPolicies, policyEvents')
      /\ policyEvents' \in Seq(Event(PolicyNames, Objects))
      /\ \A q : Stale(policyEvents', q) <=> Stale(policyEvents, q) \/ q = p
  BY EmitKeeps DEF StorePolicy
<1>2. /\ policies' \in [PolicyNames -> Objects] /\ policies'[p] = object
      /\ \A q \in PolicyNames \ {p} : policies'[q] = policies[q]
  BY DEF StorePolicy, TypeOK, Objects
<1>3. \/ worker = Idle /\ worker' = Idle
      \/ /\ worker \in Job /\ worker' \in Job
         /\ worker'.name = worker.name /\ worker'.object = worker.object
         /\ worker'.fresh => worker.fresh /\ worker.name # p
  <2>0. Idle \notin Job
    BY DEF Idle, Job
  <2>1. CASE worker = Idle
    BY <2>1 DEF StorePolicy, Busy
  <2>2. CASE worker \in Job
    BY <2>0, <2>2 DEF StorePolicy, Busy, Job
  <2> QED BY <2>1, <2>2 DEF TypeOK
<1>i. Idle \notin Job
  BY DEF Idle, Job
<1>4. TypeOK'
  BY <1>1, <1>2, <1>3, SpendType DEF StorePolicy, TypeOK, Objects, Disturbances
<1>5. CacheCoherent'
  BY <1>1 DEF StorePolicy, CacheCoherent
<1>6. FreshIsCurrent'
  <2>1. worker \in Job => worker.name \in PolicyNames
    BY DEF Job
  <2> QED BY <1>2, <1>3, <1>i, <2>1 DEF FreshIsCurrent
<1>7. ReportNotAhead' /\ ReportFitsGeneration'
  <2>1. object # NoObject => object.generation \in Nat /\ status'[p].observedGeneration \in Nat
    BY DEF Objects, PullSecretPolicy, Status
  <2>2. /\ IF Exists(p)' THEN status'[p].observedGeneration <= policies'[p].generation
                         ELSE status'[p] = NoStatus
        /\ Exists(p)' => status'[p].observedGeneration # policies'[p].generation
    BY <1>2, <2>1 DEF Exists
  <2> QED BY <1>2, <2>2 DEF ReportNotAhead, ReportFitsGeneration, Exists
<1>8. SettledStatusIsTrue'
  <2> SUFFICES ASSUME NEW q \in PolicyNames, Exists(q)', ~Triggered(q)'
               PROVE  status'[q] = StatusFor(q, policies'[q])
    BY DEF SettledStatusIsTrue
  <2>1. q # p
    BY <1>1 DEF Triggered
  <2>2. Busy(q) => Busy(q)'
    BY <1>3, <1>i DEF Busy
  <2>3. Exists(q) /\ ~Triggered(q)
    BY <1>1, <1>2, <2>1, <2>2 DEF Triggered, Exists, StorePolicy
  <2> QED BY <1>2, <2>1, <2>3 DEF SettledStatusIsTrue
<1> QED BY <1>4, <1>5, <1>6, <1>7, <1>8

(* A new policy object has no report and is announced. *)
LEMMA CreatePolicyKeeps ==
    ASSUME PolicyInv, NEW p \in PolicyNames, NEW list \in ExclusionLists, CreatePolicy(p, list)
    PROVE  PolicyInv'
<1> DEFINE created == [excluded |-> list, generation |-> 1]
<1>1. created \in PullSecretPolicy /\ created.generation = 1
  BY DEF PullSecretPolicy
<1>2. created # NoObject
  BY <1>1, PolicyControllerAssumption
<1>3. /\ status' = status /\ status \in [PolicyNames -> Status]
      /\ status[p].observedGeneration = 0
  BY DEF CreatePolicy, PolicyInv, ReportNotAhead, NoStatus, TypeOK
<1>4. StorePolicy(p, created)
  BY DEF CreatePolicy
<1> HIDE DEF created
<1> QED BY <1>1, <1>2, <1>3, <1>4, StorePolicyKeeps DEF Objects

(* An edit is announced and takes the generation past every report. *)
LEMMA EditPolicyKeeps ==
    ASSUME PolicyInv, NEW p \in PolicyNames, NEW list \in ExclusionLists, EditPolicy(p, list)
    PROVE  PolicyInv'
<1> DEFINE edited == [excluded |-> list, generation |-> policies[p].generation + 1]
<1>1. policies[p] \in PullSecretPolicy /\ status[p].observedGeneration <= policies[p].generation
  BY DEF EditPolicy, Exists, PolicyInv, ReportNotAhead, TypeOK
<1>2. policies[p].generation \in Nat \ {0} /\ status[p].observedGeneration \in Nat
  BY <1>1 DEF PullSecretPolicy, Status, PolicyInv, TypeOK
<1>3. edited \in PullSecretPolicy /\ status[p].observedGeneration < edited.generation
  BY <1>1, <1>2 DEF PullSecretPolicy
<1>4. edited # NoObject
  BY <1>3, PolicyControllerAssumption
<1> QED BY <1>3, <1>4, StorePolicyKeeps DEF EditPolicy, PolicyInv, TypeOK, Objects

(* A deleted object takes its report with it. *)
LEMMA DeletePolicyKeeps ==
    ASSUME PolicyInv, NEW p \in PolicyNames, DeletePolicy(p)
    PROVE  PolicyInv'
<1>1. NoStatus \in Status
  BY DEF NoStatus, Status
<1>2. /\ status' \in [PolicyNames -> Status] /\ status'[p] = NoStatus
      /\ \A q \in PolicyNames \ {p} : status'[q] = status[q]
  BY <1>1 DEF DeletePolicy, PolicyInv, TypeOK
<1> QED BY <1>2, StorePolicyKeeps DEF DeletePolicy, Objects

(* PolicyInv is inductive. *)
LEMMA PolicyStep == PolicyInv /\ [Next]_vars => PolicyInv'
<1> SUFFICES ASSUME PolicyInv, [Next]_vars PROVE PolicyInv'
  OBVIOUS
<1>1. CASE UNCHANGED vars
  BY <1>1 DEF vars, PolicyInv, TypeOK, CacheCoherent, FreshIsCurrent, ReportNotAhead,
              ReportFitsGeneration, SettledStatusIsTrue, Triggered, Busy, Exists
<1> QED
  BY <1>1, StartReconcileKeeps, RequeueKeeps, UpdateStatusKeeps, DeliverPolicyEventKeeps,
     RestartKeeps, CreatePolicyKeeps, EditPolicyKeeps, DeletePolicyKeeps DEF Next

(* The cache never departs from the API server, no status is ahead of its object,
   and what is neither triggered nor being worked on has a true report. *)
THEOREM PolicyCorrect == Spec => []PolicyInv
BY PolicyInit, PolicyStep, PTL DEF Spec

(* The state always has its types. *)
THEOREM PolicyTypesCorrect == Spec => []TypeOK
<1>1. PolicyInv => TypeOK
  BY DEF PolicyInv
<1> QED BY <1>1, PolicyCorrect, PTL

(* With nothing left to do for a policy object its status tells the truth about its
   present spec (updatePullSecretPolicyStatus). *)
THEOREM SettledPolicyCorrect == Spec => []SettledStatusIsTrue
<1>1. PolicyInv => SettledStatusIsTrue
  BY DEF PolicyInv
<1> QED BY <1>1, PolicyCorrect, PTL

(* What is reported for a generation is right for it, also after an object is deleted
   and created again with the same generation (updatePullSecretPolicyStatus). *)
THEOREM ReportCorrect == Spec => []ReportFitsGeneration
<1>1. PolicyInv => ReportFitsGeneration
  BY DEF PolicyInv
<1> QED BY <1>1, PolicyCorrect, PTL

-----------------------------------------------------------------------------
(* The policy reconciler implements LevelTriggered.  What its status says of an object
   that needs a report is never the empty status. *)
ReportFacts ==
    /\ Needed \in [PolicyNames -> Status \cup {NoObject}]
    /\ Reported \in [PolicyNames -> Status \cup {NoObject}]
    /\ \A p \in PolicyNames : Needed[p] = NoObject <=> ~Exists(p)
    /\ \A p \in PolicyNames : ~Exists(p) => Reported[p] = NoObject

(* Reports are what the abstract specification takes them for. *)
LEMMA ReportTypes == PolicyInv => ReportFacts
<1> SUFFICES ASSUME PolicyInv PROVE ReportFacts
  OBVIOUS
<1>0. NoObject \notin Status
  BY PolicyControllerAssumption
<1>1. ASSUME NEW p \in PolicyNames, Exists(p) PROVE StatusFor(p, policies[p]) \in Status
  <2>1. policies[p] \in PullSecretPolicy
    BY <1>1 DEF Exists, PolicyInv, TypeOK
  <2> QED BY <2>1, StatusForType
<1>2. Needed = [p \in PolicyNames |-> IF Exists(p) THEN StatusFor(p, policies[p]) ELSE NoObject]
  BY DEF Needed
<1>3. Reported = [p \in PolicyNames |-> IF status[p] = NoStatus THEN NoObject ELSE status[p]]
  BY DEF Reported
<1>4. status \in [PolicyNames -> Status] /\ \A p \in PolicyNames : ~Exists(p) => status[p] = NoStatus
  BY DEF PolicyInv, TypeOK, ReportNotAhead
<1> QED BY <1>0, <1>1, <1>2, <1>3, <1>4 DEF ReportFacts

(* And so they are after a step. *)
LEMMA ReportTypesNext == PolicyInv' => ReportFacts'
BY ReportTypes, PTL

(* A write of a policy object is a Change, which its event announces. *)
LEMMA StorePolicyRefines ==
    ASSUME PolicyInv, PolicyInv', NEW p \in PolicyNames, NEW object \in Objects,
           StorePolicy(p, object),
           \A q \in PolicyNames : status'[q] = IF Exists(q)' THEN status[q] ELSE NoStatus
    PROVE  Contract!Change
<1>1. \A q : Stale(policyEvents', q) <=> Stale(policyEvents, q) \/ q = p
  BY EmitKeeps DEF StorePolicy
<1>2. \A q \in PolicyNames \ {p} : policies'[q] = policies[q]
  BY DEF StorePolicy, PolicyInv, TypeOK
<1>3. \A q : Busy(q) => Busy(q)'
  <2>1. CASE worker = Idle
    BY <2>1 DEF StorePolicy, Busy
  <2>2. CASE worker \in Job
    <3>1. worker'.name = worker.name /\ worker'.step = "status"
      BY <2>2 DEF StorePolicy, Job
    <3>2. worker' # Idle
      BY <3>1 DEF Idle
    <3> QED BY <3>1, <3>2 DEF Busy
  <2> QED BY <2>1, <2>2 DEF PolicyInv, TypeOK
<1>4. Outstanding \subseteq Outstanding' /\ p \in Outstanding'
  BY <1>1, <1>3 DEF Outstanding, Triggered, StorePolicy
<1>5. \A q \in PolicyNames : Needed'[q] # Needed[q] => q = p
  BY <1>2 DEF Needed, Exists
<1>6. /\ Needed' \in [PolicyNames -> Status \cup {NoObject}]
      /\ \A q \in PolicyNames : Needed'[q] = NoObject <=> ~Exists(q)'
  BY ReportTypesNext DEF ReportFacts
<1>7. Reported' = [q \in PolicyNames |-> IF Needed'[q] = NoObject THEN NoObject ELSE Reported[q]]
  BY <1>6 DEF Reported
<1>8. Outstanding' \in SUBSET PolicyNames
  BY DEF Outstanding
<1> QED BY <1>4, <1>5, <1>6, <1>7, <1>8 DEF Contract!Change

(* A step that only moves names between queue, worker and events, and drops none that
   exists, is an Announcement. *)
LEMMA AnnounceStep ==
    ASSUME PolicyInv, UNCHANGED <<policies, status>>,
           \A q \in PolicyNames : Exists(q) /\ Triggered(q) => Triggered(q)'
    PROVE  Contract!Announce
<1>1. Needed' = Needed /\ Reported' = Reported
  BY DEF Needed, Reported, Exists
<1>2. \A q \in PolicyNames : Needed[q] # NoObject => Exists(q)
  BY ReportTypes DEF ReportFacts
<1>3. \A q \in PolicyNames : Exists(q) => (q \in Outstanding => q \in Outstanding')
  BY DEF Outstanding
<1>4. Outstanding' \in SUBSET PolicyNames
  BY DEF Outstanding
<1> QED BY <1>1, <1>2, <1>3, <1>4 DEF Contract!Announce

(* The end of a reconcile is Finish, or changes nothing. *)
LEMMA UpdateStatusRefines ==
    ASSUME PolicyInv, PolicyInv', UpdateStatus
    PROVE  Contract!Next
<1>j. worker \in Job /\ worker # Idle
  BY DEF UpdateStatus, PolicyInv, TypeOK, Idle
<1>p. PICK p \in PolicyNames : p = worker.name
  BY <1>j DEF Job
<1>1. /\ UNCHANGED <<policies, cachedPolicies, queue>> /\ worker' = Idle
      /\ backoff' = backoff \/ backoff' = backoff \cup {p}
  BY <1>p DEF UpdateStatus, Return
<1>2. \/ UNCHANGED <<status, policyEvents>> /\ p \in backoff'
      \/ worker.fresh /\ StoreStatus
  BY <1>p DEF UpdateStatus, Return, StatusAccepted
<1>3. CASE UNCHANGED <<status, policyEvents>> /\ p \in backoff'
  <2>1. \A q \in PolicyNames : Triggered(q) => Triggered(q)'
    BY <1>1, <1>3, <1>p DEF Triggered, Busy
  <2> QED BY <1>1, <1>3, <2>1, AnnounceStep DEF Contract!Next
<1>4. CASE worker.fresh /\ StoreStatus
  <2>1. worker.object = policies[p] /\ policies[p] \in PullSecretPolicy
    BY <1>j, <1>p, <1>4 DEF PolicyInv, FreshIsCurrent, Job
  <2>2. Exists(p)
    BY <2>1, PolicyControllerAssumption DEF Exists
  <2>3. status' = [status EXCEPT ![p] = StatusFor(p, policies[p])]
    BY <1>4, <1>p, <2>1 DEF StoreStatus
  <2>4. \A q : q # p => (Stale(policyEvents', q) <=> Stale(policyEvents, q))
    <3>1. policies[p] \in Objects /\ policies' = [policies EXCEPT ![p] = policies[p]]
      BY <1>1, <2>1 DEF PolicyInv, TypeOK, Objects
    <3> QED BY <1>4, <1>p, <3>1, EmitKeeps DEF StoreStatus
  <2>5. ASSUME NEW q \in PolicyNames, q # p PROVE q \in Outstanding <=> q \in Outstanding'
    <3>1. ~Busy(q) /\ ~Busy(q)'
      BY <1>1, <1>p, <2>5 DEF Busy
    <3> QED BY <1>1, <2>4, <2>5, <3>1 DEF Outstanding, Triggered
  <2>6. p \in Outstanding
    BY <1>j, <1>p DEF Outstanding, Triggered, Busy
  <2>7. Outstanding' \in {Outstanding, Outstanding \ {p}}
    BY <2>5, <2>6 DEF Outstanding
  <2>8. Needed' = Needed /\ Needed[p] # NoObject /\ Needed[p] = StatusFor(p, policies[p])
    BY <1>1, <2>2, ReportTypes DEF Needed, Exists, ReportFacts
  <2>9. Reported' \in [PolicyNames -> Status \cup {NoObject}]
    BY ReportTypesNext DEF ReportFacts
  <2>10. \A q \in PolicyNames \ {p} : Reported'[q] = Reported[q]
    BY <2>3 DEF Reported, PolicyInv, TypeOK
  <2>11. Reported'[p] = Needed[p]
    <3>1. status'[p] = StatusFor(p, policies[p]) /\ StatusFor(p, policies[p]) # NoStatus
      BY <2>1, <2>3, StatusForType DEF PolicyInv, TypeOK
    <3> QED BY <2>8, <3>1 DEF Reported
  <2>12. Contract!Finish(p)
    BY <2>6, <2>7, <2>8, <2>9, <2>10, <2>11 DEF Contract!Finish
  <2> QED BY <2>12 DEF Contract!Next
<1> QED BY <1>2, <1>3, <1>4

(* A user's edit is a Change: what it leaves of the status is what LevelTriggered
   leaves of the work done. *)
LEMMA UsersRefine ==
    ASSUME PolicyInv, PolicyInv', NEW p \in PolicyNames,
           \/ \E list \in ExclusionLists : CreatePolicy(p, list) \/ EditPolicy(p, list)
           \/ DeletePolicy(p)
    PROVE  Contract!Change
<1>1. /\ \A q \in PolicyNames : ~Exists(q) => status[q] = NoStatus
      /\ \A q \in PolicyNames : ~Exists(q)' => status'[q] = NoStatus
  BY DEF PolicyInv, ReportNotAhead
<1>2. PICK object \in Objects : StorePolicy(p, object)
  <2>1. CASE \E list \in ExclusionLists : CreatePolicy(p, list)
    BY <2>1 DEF CreatePolicy, Objects, PullSecretPolicy
  <2>2. CASE \E list \in ExclusionLists : EditPolicy(p, list)
    <3>1. Exists(p) => policies[p].generation + 1 \in Nat \ {0}
      BY DEF Exists, PolicyInv, TypeOK, PullSecretPolicy
    <3> QED BY <2>2, <3>1 DEF EditPolicy, Objects, PullSecretPolicy
  <2>3. CASE DeletePolicy(p)
    BY <2>3 DEF DeletePolicy, Objects
  <2> QED BY <2>1, <2>2, <2>3
<1>3. \A q \in PolicyNames \ {p} : status'[q] = status[q]
  BY DEF CreatePolicy, EditPolicy, DeletePolicy, PolicyInv, TypeOK
<1>4. status'[p] = IF Exists(p)' THEN status[p] ELSE NoStatus
  <2>1. CASE \E list \in ExclusionLists : CreatePolicy(p, list) \/ EditPolicy(p, list)
    BY <1>1, <2>1 DEF CreatePolicy, EditPolicy
  <2>2. CASE DeletePolicy(p)
    <3>1. ~Exists(p)'
      BY <2>2 DEF DeletePolicy, StorePolicy, Exists, PolicyInv, TypeOK
    <3> QED BY <1>1, <3>1
  <2> QED BY <2>1, <2>2
<1>5. \A q \in PolicyNames : status'[q] = IF Exists(q)' THEN status[q] ELSE NoStatus
  BY <1>1, <1>3, <1>4
<1> QED BY <1>2, <1>5, StorePolicyRefines

(* A name that is moved, and one that is started and exists, stays outstanding; a
   cache that misses an object has an event for it on its way. *)
LEMMA MovesRefine ==
    ASSUME PolicyInv, NEW p \in PolicyNames,
           StartReconcile(p) \/ GetFails(p) \/ BackoffExpires(p)
    PROVE  Contract!Announce
<1>0. UNCHANGED <<policies, status, policyEvents>>
  BY DEF StartReconcile, GetFails, BackoffExpires
<1>1. CASE StartReconcile(p)
  <2>1. Exists(p) /\ cachedPolicies[p] = NoObject => Stale(policyEvents, p)
    BY DEF PolicyInv, CacheCoherent, Coherent, TypeOK, Exists
  <2>2. cachedPolicies[p] # NoObject => Busy(p)'
    BY <1>1 DEF StartReconcile, Idle, Busy
  <2>3. \A q \in PolicyNames : ~Busy(q)
    BY <1>1 DEF StartReconcile, Busy
  <2>4. \A q \in PolicyNames : Exists(q) /\ Triggered(q) => Triggered(q)'
    BY <1>0, <1>1, <2>1, <2>2, <2>3 DEF StartReconcile, Triggered
  <2> QED BY <1>0, <2>4, AnnounceStep
<1>2. CASE GetFails(p) \/ BackoffExpires(p)
  <2>1. \A q \in PolicyNames : Triggered(q) => Triggered(q)'
    BY <1>0, <1>2 DEF GetFails, BackoffExpires, Triggered, Busy
  <2> QED BY <1>0, <2>1, AnnounceStep
<1> QED BY <1>1, <1>2

(* A delivered event leaves its name in the queue, and a new process queues all that
   exists. *)
LEMMA ManagerRefines ==
    ASSUME PolicyInv, DeliverPolicyEvent \/ Restart
    PROVE  Contract!Announce
<1>0. UNCHANGED <<policies, status>>
  BY DEF DeliverPolicyEvent, Restart
<1>1. CASE DeliverPolicyEvent
  <2>1. \A q : Stale(policyEvents, q) <=> q = Head(policyEvents).key \/ Stale(policyEvents', q)
    BY <1>1, DeliverStale DEF DeliverPolicyEvent, PolicyInv, TypeOK
  <2>2. \A q \in PolicyNames : Triggered(q) => Triggered(q)'
    BY <1>1, <2>1 DEF DeliverPolicyEvent, Triggered, Busy
  <2> QED BY <1>0, <2>2, AnnounceStep
<1>2. CASE Restart
  <2>1. \A q \in PolicyNames : Exists(q) => Triggered(q)'
    BY <1>2 DEF Restart, Triggered
  <2> QED BY <1>0, <2>1, AnnounceStep
<1> QED BY <1>1, <1>2

(* At the start everything that exists is queued and no status is written. *)
LEMMA InitRefines == Init => Contract!Init
<1> SUFFICES ASSUME Init PROVE Contract!Init
  OBVIOUS
<1>1. ReportFacts
  BY PolicyInit, ReportTypes
<1>2. \A p \in PolicyNames : Exists(p) => p \in Outstanding
  BY DEF Init, Outstanding, Triggered
<1>3. Reported = [p \in PolicyNames |-> NoObject]
  BY DEF Init, Reported
<1> QED BY <1>1, <1>2, <1>3 DEF ReportFacts, Contract!Init, Outstanding

(* The reconciler implements a level-triggered controller: whatever lags, conflicts,
   fails or restarts, a policy object leaves its attention only with a true report
   (Reconcile, updatePullSecretPolicyStatus, SetupWithManager). *)
THEOREM PolicyRefinementCorrect == Spec => PolicyIsLevelTriggered
<1>1. PolicyInv /\ PolicyInv' /\ [Next]_vars => [Contract!Next]_(Contract!vars)
  <2>1. UNCHANGED vars => UNCHANGED Contract!vars
    BY DEF vars, Contract!vars, Needed, Reported, Outstanding, Triggered, Busy, Exists
  <2> QED BY <2>1, UpdateStatusRefines, UsersRefine, MovesRefine, ManagerRefines
          DEF Next, Contract!Next
<1> QED
  BY <1>1, InitRefines, PolicyCorrect, PTL DEF Spec, PolicyIsLevelTriggered, Contract!Spec
=============================================================================

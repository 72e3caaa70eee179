--------------------- MODULE PullSecretPolicyController ---------------------
(* The PullSecretPolicy reconciler (internal/controller/
   pullsecretpolicy_controller.go): it validates every policy object and reports
   on it in the object's status, and touches nothing else.  Cache, workqueue,
   failing calls and restarts are as in RegistryPullSecretController. *)
EXTENDS PolicyValidation, WatchStream

CONSTANTS
    PolicyNames,        \* names of PullSecretPolicy objects
    ExclusionLists,     \* the excludedNamespaces users write
    NoObject,
    InitialPolicies,
    Budget,             \* bound: how often each kind of disturbance happens
    MaxPending          \* bound: undelivered events

Disturbances == {"spec", "fault", "restart"}

PullSecretPolicy == [excluded : ExclusionLists, generation : Nat \ {0}]

ReadyReasons == {"ValidationFailed", "SingletonActive", "NonSingletonName"}

Status == [observedGeneration : Nat, excludedNamespaceCount : Nat, activeSingleton : BOOLEAN,
           valid : BOOLEAN, ready : ReadyReasons \cup {"None"}]

NoStatus == [observedGeneration |-> 0, excludedNamespaceCount |-> 0, activeSingleton |-> FALSE,
             valid |-> FALSE, ready |-> "None"]

ASSUME PolicyControllerAssumption ==
    /\ NoObject \notin PullSecretPolicy \cup Status
    /\ \A list \in ExclusionLists : list \in Seq(Elements(list))
    /\ InitialPolicies \in [PolicyNames -> PullSecretPolicy \cup {NoObject}]
    /\ Budget \in [Disturbances -> Nat]

VARIABLES
    policies,       \* per name: spec and generation, or NoObject
    status,         \* per name: the status subresource
    cachedPolicies, policyEvents,
    queue, backoff,
    worker,         \* the reconcile in progress
    budget

vars == <<policies, status, cachedPolicies, policyEvents, queue, backoff, worker, budget>>

PullSecretPolicySingletonName == "cluster"

Idle == [step |-> "idle"]

Job == [step : {"status"}, name : PolicyNames, object : PullSecretPolicy, fresh : BOOLEAN]

Exists(p) == policies[p] # NoObject

Busy(p) == worker # Idle /\ worker.name = p

Room(stream) == Len(stream) < MaxPending

Spend(kind) ==
    /\ budget[kind] > 0
    /\ budget' = [budget EXCEPT ![kind] = @ - 1]

Init ==
    /\ policies = InitialPolicies
    /\ status = [p \in PolicyNames |-> NoStatus]
    /\ cachedPolicies = policies /\ policyEvents = << >>
    /\ queue = {p \in PolicyNames : Exists(p)} /\ backoff = {}
    /\ worker = Idle
    /\ budget = Budget

-----------------------------------------------------------------------------
(* Slip: IgnoreNotFound is applied before the error is tested, not after *)
StartReconcileOfMissing(p) ==
    /\ worker = Idle /\ p \in queue
    /\ queue' = queue \ {p}
    /\ worker' = [step |-> "status", name |-> p, object |-> cachedPolicies[p],
                  fresh |-> ~Stale(policyEvents, p)]
    /\ UNCHANGED <<policies, status, cachedPolicies, policyEvents, backoff, budget>>

(* Reconcile reads the object; one that is gone needs nothing *)
StartReconcile(p) ==
    /\ worker = Idle /\ p \in queue
    /\ queue' = queue \ {p}
    /\ worker' = IF cachedPolicies[p] = NoObject THEN Idle
                 ELSE [step |-> "status", name |-> p, object |-> cachedPolicies[p],
                       fresh |-> ~Stale(policyEvents, p)]
    /\ UNCHANGED <<policies, status, cachedPolicies, policyEvents, backoff, budget>>

GetFails(p) ==
    /\ worker = Idle /\ p \in queue
    /\ Spend("fault")
    /\ queue' = queue \ {p} /\ backoff' = backoff \cup {p}
    /\ UNCHANGED <<policies, status, cachedPolicies, policyEvents, worker>>

(* The status of a policy object, as a function of its name and what was read *)
StatusFor(p, object) ==
    LET valid == ValidatePullSecretPolicy(object.excluded)
        singleton == p = PullSecretPolicySingletonName
    IN  [observedGeneration |-> object.generation,
         excludedNamespaceCount |-> Len(object.excluded),
         activeSingleton |-> singleton,
         valid |-> valid,
         ready |-> IF ~valid THEN "ValidationFailed"
                   ELSE IF singleton THEN "SingletonActive"
                   ELSE "NonSingletonName"]

(* Slip: the status is patched, without a resourceVersion *)
StatusUnconditional == Exists(worker.name)

(* The status update carries the resourceVersion of the object as read *)
StatusAccepted == worker.fresh

(* Only a status that differs, be it in lastSyncTime alone, produces an event *)
StoreStatus ==
    LET p == worker.name
        written == StatusFor(p, worker.object)
    IN  /\ status' = [status EXCEPT ![p] = written]
        /\ \E sameSecond \in BOOLEAN :
             policyEvents' = IF sameSecond /\ status[p] = written THEN policyEvents
                             ELSE Emit(policyEvents, p, policies[p])

(* Slip: a failed update is not returned *)
ReturnNothing(failed) == worker' = Idle /\ UNCHANGED backoff

Return(failed) ==
    /\ worker' = Idle
    /\ backoff' = IF failed THEN backoff \cup {worker.name} ELSE backoff

UpdateStatus ==
    /\ worker.step = "status" /\ Room(policyEvents)
    /\ \/ StatusAccepted /\ StoreStatus /\ Return(FALSE) /\ UNCHANGED budget
       \/ ~StatusAccepted /\ Return(TRUE) /\ UNCHANGED <<status, policyEvents, budget>>
       \/ /\ Spend("fault")             \* the call is lost, or only its answer
          /\ Return(TRUE)
          /\ UNCHANGED <<status, policyEvents>> \/ (StatusAccepted /\ StoreStatus)
    /\ UNCHANGED <<policies, cachedPolicies, queue>>

-----------------------------------------------------------------------------
DeliverPolicyEvent ==
    /\ policyEvents # << >>
    /\ cachedPolicies' = Delivered(cachedPolicies, policyEvents)
    /\ queue' = queue \cup {Head(policyEvents).key}
    /\ policyEvents' = Tail(policyEvents)
    /\ UNCHANGED <<policies, status, backoff, worker, budget>>

BackoffExpires(p) ==
    /\ p \in backoff
    /\ backoff' = backoff \ {p} /\ queue' = queue \cup {p}
    /\ UNCHANGED <<policies, status, cachedPolicies, policyEvents, worker, budget>>

Restart ==
    /\ Spend("restart")
    /\ cachedPolicies' = policies /\ policyEvents' = << >>
    /\ queue' = {p \in PolicyNames : Exists(p)} /\ backoff' = {}
    /\ worker' = Idle
    /\ UNCHANGED <<policies, status>>

(* Users create, edit and delete policy objects *)
StorePolicy(p, object) ==
    /\ Room(policyEvents) /\ Spend("spec")
    /\ policies' = [policies EXCEPT ![p] = object]
    /\ policyEvents' = Emit(policyEvents, p, object)
    /\ worker' = IF Busy(p) THEN [worker EXCEPT !.fresh = FALSE] ELSE worker
    /\ UNCHANGED <<cachedPolicies, queue, backoff>>

CreatePolicy(p, list) ==
    /\ ~Exists(p)
    /\ StorePolicy(p, [excluded |-> list, generation |-> 1])
    /\ UNCHANGED status

EditPolicy(p, list) ==
    /\ Exists(p) /\ list # policies[p].excluded
    /\ StorePolicy(p, [excluded |-> list, generation |-> policies[p].generation + 1])
    /\ UNCHANGED status

DeletePolicy(p) ==
    /\ Exists(p)
    /\ StorePolicy(p, NoObject)
    /\ status' = [status EXCEPT ![p] = NoStatus]

Next ==
    \/ \E p \in PolicyNames : StartReconcile(p) \/ GetFails(p) \/ BackoffExpires(p)
    \/ UpdateStatus
    \/ DeliverPolicyEvent
    \/ Restart
    \/ \E p \in PolicyNames, list \in ExclusionLists : CreatePolicy(p, list) \/ EditPolicy(p, list)
    \/ \E p \in PolicyNames : DeletePolicy(p)

Spec == Init /\ [][Next]_vars

(* Events are delivered, backoffs expire, the worker runs and the workqueue is
   first in first out *)
Fairness ==
    /\ WF_vars(DeliverPolicyEvent) /\ WF_vars(UpdateStatus)
    /\ \A p \in PolicyNames : WF_vars(BackoffExpires(p)) /\ SF_vars(StartReconcile(p))

FairSpec == Spec /\ Fairness

-----------------------------------------------------------------------------
(* Types of the state. *)
TypeOK ==
    /\ policies \in [PolicyNames -> PullSecretPolicy \cup {NoObject}]
    /\ status \in [PolicyNames -> Status]
    /\ cachedPolicies \in [PolicyNames -> PullSecretPolicy \cup {NoObject}]
    /\ policyEvents \in Seq(Event(PolicyNames, PullSecretPolicy \cup {NoObject}))
    /\ queue \subseteq PolicyNames /\ backoff \subseteq PolicyNames
    /\ worker \in Job \cup {Idle}
    /\ budget \in [Disturbances -> Nat]

Triggered(p) == p \in queue \cup backoff \/ Busy(p) \/ Stale(policyEvents, p)

(* With nothing left to do for a policy object its status tells the truth about
   its present spec, whatever edits, conflicts, failures and restarts there were
   (updatePullSecretPolicyStatus lines 44-93). *)
SettledStatusIsTrue ==
    \A p \in PolicyNames : Exists(p) /\ ~Triggered(p) => status[p] = StatusFor(p, policies[p])

(* A status never describes a spec the object no longer has and calls it the
   observed generation: what is reported for a generation is right for it. *)
ReportFitsGeneration ==
    \A p \in PolicyNames :
        Exists(p) /\ status[p].observedGeneration = policies[p].generation
            => status[p] = StatusFor(p, policies[p])

(* Every policy object is reported on for good once users leave it alone *)
EventuallyReported ==
    \A p \in PolicyNames : <>[](Exists(p) => status[p] = StatusFor(p, policies[p]))

(* What a policy object calls for: a report on its present spec *)
Needed ==
    [p \in PolicyNames |-> IF Exists(p) THEN StatusFor(p, policies[p]) ELSE NoObject]

Reported == [p \in PolicyNames |-> IF status[p] = NoStatus THEN NoObject ELSE status[p]]

Outstanding == {p \in PolicyNames : Triggered(p)}

Contract == INSTANCE LevelTriggered
            WITH Names <- PolicyNames, Absent <- NoObject, Inputs <- Status,
                 needed <- Needed, done <- Reported, pending <- Outstanding, missed <- {}

(* The policy reconciler is level-triggered: a policy object leaves the controller's
   attention only with a true report in its status. *)
PolicyIsLevelTriggered == Contract!Spec
=============================================================================

----------------------------- MODULE TwoManagers -----------------------------
(* Two replicas of the manager at work on one cluster, as they are without leader
   election, which cmd/manager/main.go turns off unless a flag asks for it.  Each
   has caches, a workqueue and a worker of its own; what they share is the API
   server.  The variables of RegistryPullSecretController are those of the first. *)
EXTENDS RegistryPullSecretController

VARIABLES
    cachedRegistries2, registryEvents2, cachedSecrets2, secretEvents2,
    cachedPolicy2, cachedNamespaces2, queue2, backoff2, worker2, missed2

secondVars == <<cachedRegistries2, registryEvents2, cachedSecrets2, secretEvents2,
                cachedPolicy2, cachedNamespaces2, queue2, backoff2, worker2, missed2>>

allVars == <<vars, secondVars>>

(* With the lemmas about the controller, which hold of either manager *)
Second == INSTANCE RegistryPullSecretSharing
          WITH cachedRegistries <- cachedRegistries2, registryEvents <- registryEvents2,
               cachedSecrets <- cachedSecrets2, secretEvents <- secretEvents2,
               cachedPolicy <- cachedPolicy2, cachedNamespaces <- cachedNamespaces2,
               queue <- queue2, backoff <- backoff2, worker <- worker2, missed <- missed2

InitBoth == Init /\ Second!Init

-----------------------------------------------------------------------------
(* What a step has announced: at most one event, the last of the stream *)
News(before, after) ==
    IF Len(after) > Len(before) THEN <<after[Len(after)]>> ELSE << >>

(* A worker whose object has changed holds an old resourceVersion *)
Outdated(job, news) ==
    IF job # Idle /\ Stale(news, job.registry) THEN [job EXCEPT !.fresh = FALSE] ELSE job

(* The API server announces every change to both *)
SecondHears ==
    LET changed == News(registryEvents, registryEvents')
        written == News(secretEvents, secretEvents')
    IN  /\ registryEvents2' = registryEvents2 \o changed /\ Len(registryEvents2') <= MaxPending
        /\ secretEvents2' = secretEvents2 \o written /\ Len(secretEvents2') <= MaxPending
        /\ worker2' = Outdated(worker2, changed)
        /\ UNCHANGED <<cachedRegistries2, cachedSecrets2, cachedPolicy2, cachedNamespaces2,
                       queue2, backoff2, missed2>>

FirstHears ==
    LET changed == News(registryEvents2, registryEvents2')
        written == News(secretEvents2, secretEvents2')
    IN  /\ registryEvents' = registryEvents \o changed /\ Len(registryEvents') <= MaxPending
        /\ secretEvents' = secretEvents \o written /\ Len(secretEvents') <= MaxPending
        /\ worker' = Outdated(worker, changed)
        /\ UNCHANGED <<cachedRegistries, cachedSecrets, cachedPolicy, cachedNamespaces,
                       queue, backoff, missed>>

FirstActs == (Reconciler \/ Manager) /\ SecondHears
SecondActs == (Second!Reconciler \/ Second!Manager) /\ FirstHears
UsersAct == Users /\ SecondHears

NextBoth == FirstActs \/ SecondActs \/ UsersAct

SpecBoth == InitBoth /\ [][NextBoth]_allVars

-----------------------------------------------------------------------------
OutstandingAtEither == Outstanding \cup Second!Outstanding

(* When both managers have nothing left to do for a RegistryPullSecret, its replicas
   are right and its status reports so: whatever one has written or deleted from an
   outdated plan while the other was ahead of it, it has to come back to. *)
BothSettledIsReplicated ==
    \A r \in Registries : Exists(r) /\ r \notin OutstandingAtEither \cup missed \cup missed2 =>
        /\ Replicated(r)
        /\ status[r].observedGeneration = registryPullSecrets[r].generation
        /\ status[r].reason = "Synced"

Together == INSTANCE LevelTriggered
            WITH Names <- Registries, Absent <- NoObject,
                 Inputs <- Duties,
                 needed <- Needed, done <- Achieved, pending <- OutstandingAtEither,
                 missed <- missed \cup missed2

(* Two managers together keep the promise of one: a RegistryPullSecret leaves the
   attention of both only when what it calls for at that moment has been done last,
   although the one that finishes last may have started first. *)
TogetherLevelTriggered == Together!Spec
=============================================================================

-------------------------- MODULE TwoManagersProofs --------------------------
(* Two managers at once still implement one level-triggered controller, for any
   cluster.  The lemmas about the controller are used twice, as they stand for the
   manager that acts and as lemmas of the instance Second for the other; what an act of
   the one means to the other is what Heard says, and a manager keeps LocalInv whatever
   it hears. *)
EXTENDS TwoManagers, RegistryPullSecretSharing

(* The assumptions on the constants are those of either manager. *)
LEMMA SecondNaming == Second!NamingAssumption
BY NamingAssumption DEF Second!NamingAssumption

(* So is the assumption on credentials. *)
LEMMA SecondCredentials == Second!CredentialsAssumption
BY CredentialsAssumption DEF Second!CredentialsAssumption

(* Both managers deal with objects of the same types. *)
LEMMA SameTypes ==
    /\ Second!Keys = Keys
    /\ Second!Secret = Secret
    /\ Second!RegistryPullSecret = RegistryPullSecret
    /\ Second!Inputs = Inputs
    /\ Second!Duties = Duties
    /\ Second!Status = Status
    /\ Second!Disturbances = Disturbances
    /\ Second!NamespacePhases = NamespacePhases
    /\ Second!Idle = Idle
    /\ Second!Job = Job
<1>1. Second!Keys = Keys
  BY DEF Second!Keys, Keys
<1>2. Second!Secret = Secret
  BY DEF Second!Secret, Secret, Second!Labelling, Labelling, Second!Credentials, Credentials,
         Second!DockerConfigs, DockerConfigs, Second!ManagedByLabelValue, ManagedByLabelValue,
         Second!SecretTypeDockerConfigJson, SecretTypeDockerConfigJson
<1>3. Second!RegistryPullSecret = RegistryPullSecret
  BY DEF Second!RegistryPullSecret, RegistryPullSecret
<1>4. Second!Inputs = Inputs
  BY <1>2, <1>3 DEF Second!Inputs, Inputs
<1>5. Second!Duties = Duties
  BY <1>2, <1>3 DEF Second!Duties, Duties
<1>6. Second!Status = Status
  BY DEF Second!Status, Status, Second!Reasons, Reasons
<1>7. Second!Disturbances = Disturbances /\ Second!NamespacePhases = NamespacePhases
  BY DEF Second!Disturbances, Disturbances, Second!NamespacePhases, NamespacePhases
<1>8. Second!Idle = Idle
  BY DEF Second!Idle, Idle
<1>9. Second!Job = Job
  BY <1>1, <1>2, <1>3 DEF Second!Job, Job, Second!Credentials, Credentials, Second!Reasons, Reasons
<1> QED BY <1>1, <1>2, <1>3, <1>4, <1>5, <1>6, <1>7, <1>8, <1>9

(* So are the assumptions on users and on the cluster at the start. *)
LEMMA SecondController == Second!ControllerAssumption
<1>1. \A server \in Servers :
        Second!DefaultTargetSecretName(server) = DefaultTargetSecretName(server)
  BY DEF Second!DefaultTargetSecretName, DefaultTargetSecretName, Second!NameForHost, NameForHost,
         Second!HostCandidate, HostCandidate, Second!DeriveHostLabel, DeriveHostLabel,
         Second!StripKnownTLDSuffix, StripKnownTLDSuffix, Second!SanitizedParts, SanitizedParts,
         Second!IgnoredHostTokens, IgnoredHostTokens,
         Second!SecondaryDomainTokens, SecondaryDomainTokens
<1>2. /\ Second!Credentials = Credentials
      /\ Second!NamespaceSelection = NamespaceSelection
  BY DEF Second!Credentials, Credentials, Second!NamespaceSelection, NamespaceSelection
<1>3. \A S : Second!IsFiniteSet(S) <=> IsFiniteSet(S)
  BY DEF Second!IsFiniteSet, IsFiniteSet
<1> QED BY ControllerAssumption, SameTypes, <1>1, <1>2, <1>3 DEF Second!ControllerAssumption

-----------------------------------------------------------------------------
(* Streams, and what both managers see of the API server, are the same for either. *)
LEMMA SameWords ==
    /\ \A stream, x : Second!Stale(stream, x) <=> Stale(stream, x)
    /\ \A stream, key, object : Second!Emit(stream, key, object) = Emit(stream, key, object)
    /\ \A before, after, stream, longer :
         Second!Tells(before, after, stream, longer) <=> Tells(before, after, stream, longer)
    /\ \A before, after, stream, longer :
         Second!Told(before, after, stream, longer) <=> Told(before, after, stream, longer)
<1>1. \A stream, x : Second!Stale(stream, x) <=> Stale(stream, x)
  BY DEF Second!Stale, Stale
<1>2. \A stream, key, object : Second!Emit(stream, key, object) = Emit(stream, key, object)
  BY DEF Second!Emit, Emit
<1>3. \A before, after, stream, longer :
        Second!Announced(before, after, stream, longer) <=> Announced(before, after, stream, longer)
  BY <1>2 DEF Second!Announced, Announced
<1> QED BY <1>1, <1>2, <1>3 DEF Second!Tells, Tells, Second!Told, Told

(* What both read off the API server is the same. *)
LEMMA SameCluster ==
    /\ \A r : Second!Exists(r) <=> Exists(r)
    /\ Second!Needed = Needed
    /\ Second!Achieved = Achieved
    /\ Second!SharedOK <=> SharedOK
    /\ Second!SyncedExists <=> SyncedExists
<1>1. \A r : Second!Exists(r) <=> Exists(r)
  BY DEF Second!Exists, Exists
<1>2. \A store, spec : Second!SourceIn(store, spec) = SourceIn(store, spec)
  BY DEF Second!SourceIn, SourceIn
<1>3. Second!Needed = Needed /\ Second!Achieved = Achieved
  BY <1>1, <1>2 DEF Second!Needed, Needed, Second!Achieved, Achieved
<1>4. Second!SharedOK <=> SharedOK
  BY SameTypes DEF Second!SharedOK, SharedOK
<1>5. Second!SyncedExists <=> SyncedExists
  BY <1>1 DEF Second!SyncedExists, SyncedExists
<1> QED BY <1>1, <1>3, <1>4, <1>5

(* And so they are after a step. *)
LEMMA SameClusterNext ==
    /\ Second!Needed' = Needed'
    /\ Second!Achieved' = Achieved'
    /\ Second!SharedOK' <=> SharedOK'
    /\ Second!SyncedExists' <=> SyncedExists'
<1>1. Second!Needed' = Needed' /\ Second!Achieved' = Achieved'
  BY DEF Second!Needed, Needed, Second!Achieved, Achieved, Second!Exists, Exists,
         Second!SourceIn, SourceIn
<1>2. (Second!SharedOK <=> SharedOK) /\ (Second!SyncedExists <=> SyncedExists)
  BY SameCluster
<1>3. (Second!SharedOK' <=> SharedOK') /\ (Second!SyncedExists' <=> SyncedExists')
  BY <1>2, PTL
<1> QED BY <1>1, <1>3

(* What holds of a manager includes the types of what it shares. *)
LEMMA SharedTypes ==
    /\ LocalInv => SharedOK /\ SyncedExists
    /\ Second!LocalInv => SharedOK /\ SyncedExists
<1>1. LocalInv => SharedOK /\ SyncedExists
  BY DEF LocalInv, TypeInv, TypeOK, SharedOK
<1>2. Second!LocalInv => Second!SharedOK /\ Second!SyncedExists
  BY DEF Second!LocalInv, Second!TypeInv, Second!TypeOK, Second!SharedOK
<1> QED BY <1>1, <1>2, SameCluster

(* And so it does after a step. *)
LEMMA SharedTypesNext ==
    /\ LocalInv' => SharedOK' /\ SyncedExists'
    /\ Second!LocalInv' => SharedOK' /\ SyncedExists'
BY SharedTypes, PTL

-----------------------------------------------------------------------------
(* What the acting manager tells on its stream, the other is told on its own. *)
LEMMA NewsTold ==
    ASSUME NEW Names, NEW Objects, NEW before \in [Names -> Objects],
           NEW after \in [Names -> Objects],
           NEW stream \in Seq(Event(Names, Objects)), NEW longer,
           Tells(before, after, stream, longer),
           NEW other \in Seq(Event(Names, Objects))
    PROVE  Told(before, after, other, other \o News(stream, longer))
<1>1. CASE after = before /\ Len(longer) <= Len(stream)
  <2>1. Len(stream) \in Nat
    OBVIOUS
  <2>2. other \o << >> = other
    OBVIOUS
  <2> QED BY <1>1, <2>1, <2>2 DEF News, Told
<1>2. CASE Announced(before, after, stream, longer)
  <2>1. PICK key \in Names : /\ longer = Emit(stream, key, after[key])
                             /\ after = [before EXCEPT ![key] = after[key]]
    BY <1>2 DEF Announced
  <2> DEFINE event == [key |-> key, object |-> after[key]]
  <2>2. event \in Event(Names, Objects)
    BY DEF Event
  <2> HIDE DEF event
  <2>3. longer = Append(stream, event)
    BY <2>1 DEF Emit, event
  <2>4. News(stream, longer) = <<event>>
    BY <2>2, <2>3 DEF News
  <2>5. other \o <<event>> = Append(other, event)
    BY <2>2
  <2> QED BY <2>1, <2>4, <2>5 DEF Told, Announced, Emit, event
<1> QED BY <1>1, <1>2 DEF Tells

(* It names what has changed. *)
LEMMA NewsNames ==
    ASSUME NEW Names, NEW Objects, NEW before \in [Names -> Objects],
           NEW after \in [Names -> Objects],
           NEW stream \in Seq(Event(Names, Objects)), NEW longer,
           Tells(before, after, stream, longer),
           NEW x \in Names, after[x] # before[x]
    PROVE  Stale(News(stream, longer), x)
<1>1. PICK key \in Names : /\ longer = Emit(stream, key, after[key])
                           /\ after = [before EXCEPT ![key] = after[key]]
  BY DEF Tells, Announced
<1>2. x = key
  BY <1>1
<1> DEFINE event == [key |-> key, object |-> after[key]]
<1>3. event \in Event(Names, Objects) /\ event.key = x
  BY <1>2 DEF Event
<1> HIDE DEF event
<1>4. longer = Append(stream, event)
  BY <1>1 DEF Emit, event
<1>5. News(stream, longer) = <<event>>
  BY <1>3, <1>4 DEF News
<1> QED BY <1>3, <1>5 DEF Stale

(* An event for r alone, or none, makes nothing else stale. *)
LEMMA NewsOfOne ==
    ASSUME NEW Names, NEW Objects, NEW stream \in Seq(Event(Names, Objects)), NEW longer,
           NEW other \in Seq(Event(Names, Objects)), NEW key \in Names, NEW object \in Objects,
           \/ longer = stream
           \/ longer = Emit(stream, key, object)
    PROVE  \A x : Stale(other \o News(stream, longer), x) => Stale(other, x) \/ x = key
<1>1. CASE longer = stream
  <2>1. News(stream, longer) = << >>
    BY <1>1 DEF News
  <2> QED BY <2>1
<1>2. CASE longer = Emit(stream, key, object)
  <2> DEFINE event == [key |-> key, object |-> object]
  <2>2. event \in Event(Names, Objects)
    BY DEF Event
  <2> HIDE DEF event
  <2>3. longer = Append(stream, event)
    BY <1>2 DEF Emit, event
  <2>4. News(stream, longer) = <<event>>
    BY <2>2, <2>3 DEF News
  <2>5. other \o <<event>> = Append(other, event)
    BY <2>2
  <2>6. other \o News(stream, longer) = Emit(other, key, object)
    BY <2>4, <2>5 DEF Emit, event
  <2> QED BY <2>6, EmitStale
<1> QED BY <1>1, <1>2

(* A stream that has not grown brings no news. *)
LEMMA NoNews ==
    ASSUME NEW S, NEW stream \in Seq(S), NEW longer, NEW other \in Seq(S),
           Len(longer) <= Len(stream)
    PROVE  other \o News(stream, longer) = other
<1>1. Len(stream) \in Nat /\ other \o << >> = other
  OBVIOUS
<1> QED BY <1>1 DEF News

(* A worker told of a change of its object takes it for outdated. *)
LEMMA OutdatedFacts ==
    ASSUME NEW job \in Job \cup {Idle}, NEW news
    PROVE  /\ \/ Outdated(job, news) = job
              \/ job \in Job /\ Outdated(job, news) = [job EXCEPT !.fresh = FALSE]
           /\ job # Idle /\ Stale(news, job.registry) => ~Outdated(job, news).fresh
<1>1. CASE job # Idle /\ Stale(news, job.registry)
  <2>1. job \in Job /\ Outdated(job, news) = [job EXCEPT !.fresh = FALSE]
    BY <1>1 DEF Outdated
  <2>2. [job EXCEPT !.fresh = FALSE].fresh = FALSE
    BY <2>1 DEF Job
  <2> QED BY <2>1, <2>2
<1>2. CASE ~(job # Idle /\ Stale(news, job.registry))
  BY <1>2 DEF Outdated
<1> QED BY <1>1, <1>2

-----------------------------------------------------------------------------
(* When the first manager or a user acts, the second hears of it. *)
LEMMA SecondHeard ==
    ASSUME LocalInv, Second!LocalInv, [Next]_vars, SecondHears
    PROVE  Second!Heard
<1> DEFINE Objects == RegistryPullSecret \cup {NoObject}
           Stored == Secret \cup {NoObject}
<1>1. /\ Tells(registryPullSecrets, registryPullSecrets', registryEvents, registryEvents')
      /\ Tells(secrets, secrets', secretEvents, secretEvents')
  BY StepTells
<1>2. TypeOK /\ TypeOK'
  BY LocalStep DEF LocalInv, TypeInv
<1>3. /\ registryPullSecrets \in [Registries -> Objects]
      /\ registryPullSecrets' \in [Registries -> Objects]
      /\ secrets \in [Keys -> Stored]
      /\ secrets' \in [Keys -> Stored]
      /\ registryEvents \in Seq(Event(Registries, Objects))
      /\ secretEvents \in Seq(Event(Keys, Stored))
  BY <1>2 DEF TypeOK
<1>4. /\ registryEvents2 \in Seq(Event(Registries, Objects))
      /\ secretEvents2 \in Seq(Event(Keys, Stored))
      /\ worker2 \in Job \cup {Idle}
  BY SameTypes DEF Second!LocalInv, Second!TypeInv, Second!TypeOK, Second!Event, Event
<1> HIDE DEF Objects, Stored
<1>5. Told(registryPullSecrets, registryPullSecrets', registryEvents2, registryEvents2')
  BY <1>1, <1>3, <1>4, NewsTold DEF SecondHears
<1>6. Told(secrets, secrets', secretEvents2, secretEvents2')
  BY <1>1, <1>3, <1>4, NewsTold DEF SecondHears
<1>7. worker2' = worker2 \/ (worker2 \in Job /\ worker2' = [worker2 EXCEPT !.fresh = FALSE])
  BY <1>4, OutdatedFacts DEF SecondHears
<1>8. ASSUME NEW r \in Registries, Second!Busy(r), registryPullSecrets'[r] # registryPullSecrets[r]
      PROVE  ~worker2'.fresh
  <2>1. Stale(News(registryEvents, registryEvents'), r)
    BY <1>1, <1>3, <1>8, NewsNames
  <2>2. worker2 # Idle /\ worker2.registry = r
    BY <1>8, SameTypes DEF Second!Busy
  <2> QED BY <1>4, <2>1, <2>2, OutdatedFacts DEF SecondHears
<1> QED BY <1>5, <1>6, <1>7, <1>8, SameWords, SameTypes
           DEF Second!Heard, Second!queueVars, SecondHears

(* And the other way round. *)
LEMMA FirstHeard ==
    ASSUME LocalInv, Second!LocalInv, Second!Next, FirstHears
    PROVE  Heard
<1> DEFINE Objects == RegistryPullSecret \cup {NoObject}
           Stored == Secret \cup {NoObject}
<1>1. /\ Second!Tells(registryPullSecrets, registryPullSecrets', registryEvents2, registryEvents2')
      /\ Second!Tells(secrets, secrets', secretEvents2, secretEvents2')
  BY SecondNaming, SecondCredentials, SecondController, Second!StepTells
<1>2. Second!TypeOK /\ Second!TypeOK'
  BY SecondNaming, SecondCredentials, SecondController, Second!LocalStep
     DEF Second!LocalInv, Second!TypeInv
<1>3. /\ registryPullSecrets \in [Registries -> Objects]
      /\ registryPullSecrets' \in [Registries -> Objects]
      /\ secrets \in [Keys -> Stored]
      /\ secrets' \in [Keys -> Stored]
      /\ registryEvents2 \in Seq(Event(Registries, Objects))
      /\ secretEvents2 \in Seq(Event(Keys, Stored))
  BY <1>2, SameTypes DEF Second!TypeOK, Second!Event, Event
<1>4. /\ registryEvents \in Seq(Event(Registries, Objects))
      /\ secretEvents \in Seq(Event(Keys, Stored))
      /\ worker \in Job \cup {Idle}
  BY DEF LocalInv, TypeInv, TypeOK
<1> HIDE DEF Objects, Stored
<1>5. Told(registryPullSecrets, registryPullSecrets', registryEvents, registryEvents')
  BY <1>1, <1>3, <1>4, NewsTold, SameWords DEF FirstHears
<1>6. Told(secrets, secrets', secretEvents, secretEvents')
  BY <1>1, <1>3, <1>4, NewsTold, SameWords DEF FirstHears
<1>7. worker' = worker \/ (worker \in Job /\ worker' = [worker EXCEPT !.fresh = FALSE])
  BY <1>4, OutdatedFacts DEF FirstHears
<1>8. ASSUME NEW r \in Registries, Busy(r), registryPullSecrets'[r] # registryPullSecrets[r]
      PROVE  ~worker'.fresh
  <2>1. Tells(registryPullSecrets, registryPullSecrets', registryEvents2, registryEvents2')
    BY <1>1, SameWords
  <2>2. Stale(News(registryEvents2, registryEvents2'), r)
    BY <1>3, <1>8, <2>1, NewsNames
  <2>3. worker # Idle /\ worker.registry = r
    BY <1>8 DEF Busy
  <2> QED BY <1>4, <2>2, <2>3, OutdatedFacts DEF FirstHears
<1> QED BY <1>5, <1>6, <1>7, <1>8 DEF Heard, queueVars, FirstHears

-----------------------------------------------------------------------------
(* What happens: one of the two, or a user, takes a step and the other hears of it. *)
FirstLeads == [Next]_vars /\ SecondHears
SecondLeads == Second!Next /\ FirstHears

(* Every step is led by one of the two, or nothing happens. *)
LEMMA Leads ==
    ASSUME [NextBoth]_allVars
    PROVE  FirstLeads \/ SecondLeads \/ UNCHANGED allVars
<1>1. CASE FirstActs
  BY <1>1 DEF FirstActs, FirstLeads, Next
<1>2. CASE UsersAct
  BY <1>2 DEF UsersAct, FirstLeads, Next
<1>3. CASE SecondActs
  BY <1>3 DEF SecondActs, SecondLeads, Second!Next
<1> QED BY <1>1, <1>2, <1>3 DEF NextBoth

(* Each manager keeps what holds of it, whatever the other does beside it. *)
LEMMA FirstLeadsKeeps ==
    ASSUME LocalInv, Second!LocalInv, FirstLeads
    PROVE  LocalInv' /\ Second!LocalInv' /\ Second!Heard /\ SharedOK'
<1>1. LocalInv'
  BY LocalStep DEF FirstLeads
<1>2. Second!Heard
  BY SecondHeard DEF FirstLeads
<1>3. SharedOK' /\ Second!SharedOK' /\ Second!SyncedExists'
  BY <1>1, SharedTypesNext, SameClusterNext
<1>4. Second!LocalInv'
  BY <1>2, <1>3, SecondNaming, SecondCredentials, SecondController, Second!HeardKeepsLocal
<1> QED BY <1>1, <1>2, <1>3, <1>4

(* The same when the second leads. *)
LEMMA SecondLeadsKeeps ==
    ASSUME LocalInv, Second!LocalInv, SecondLeads
    PROVE  LocalInv' /\ Second!LocalInv' /\ Heard /\ SharedOK'
<1>1. Second!LocalInv'
  BY SecondNaming, SecondCredentials, SecondController, Second!LocalStep DEF SecondLeads
<1>2. Heard
  BY FirstHeard DEF SecondLeads
<1>3. SharedOK' /\ SyncedExists'
  BY <1>1, SharedTypesNext
<1>4. LocalInv'
  BY <1>2, <1>3, HeardKeepsLocal
<1> QED BY <1>1, <1>2, <1>3, <1>4

(* Together: LocalInv of both is inductive. *)
LEMMA BothStep ==
    ASSUME LocalInv, Second!LocalInv, [NextBoth]_allVars
    PROVE  LocalInv' /\ Second!LocalInv'
<1>1. CASE UNCHANGED allVars
  <2>1. UNCHANGED vars /\ UNCHANGED Second!vars
    BY <1>1 DEF allVars, secondVars, vars, apiVars, cacheVars, queueVars, Second!vars,
                Second!apiVars, Second!cacheVars, Second!queueVars
  <2>2. LocalInv'
    BY <2>1, LocalStep
  <2>3. Second!LocalInv'
    BY <2>1, SecondNaming, SecondCredentials, SecondController, Second!LocalStep
  <2> QED BY <2>2, <2>3
<1> QED BY <1>1, Leads, FirstLeadsKeeps, SecondLeadsKeeps

(* And it holds at the start. *)
LEMMA BothInit == InitBoth => LocalInv /\ Second!LocalInv
<1>1. Init => LocalInv
  BY LocalInit
<1>2. Second!Init => Second!LocalInv
  BY SecondNaming, SecondCredentials, SecondController, Second!LocalInit
<1> QED BY <1>1, <1>2 DEF InitBoth

-----------------------------------------------------------------------------
(* Seen together: the step of one, and what the other has heard, as one step. *)
LEMMA FirstLeadsRefines ==
    ASSUME LocalInv, Second!LocalInv, FirstLeads
    PROVE  Together!Next
<1>1. /\ LocalInv' /\ Second!LocalInv' /\ Second!Heard /\ Second!SharedOK'
      /\ SecondHears /\ UNCHANGED missed2
  BY FirstLeadsKeeps, SameClusterNext DEF FirstLeads, SecondHears
<1>2. Second!Outstanding \subseteq Second!Outstanding'
  BY <1>1, SecondNaming, SecondCredentials, SecondController, Second!HeardKeepsOutstanding
<1>3. /\ Second!Outstanding' \in SUBSET Registries /\ missed2' \in SUBSET Registries
      /\ missed2 \in SUBSET Registries
  BY <1>1 DEF Second!Outstanding, Second!LocalInv, Second!TypeInv, Second!TypeOK
<1>4. CASE Contract!Change
  BY <1>1, <1>2, <1>3, <1>4 DEF Contract!Change, Together!Change, OutstandingAtEither, Together!Next
<1>5. CASE Contract!Announce
  BY <1>1, <1>2, <1>3, <1>5 DEF Contract!Announce, Together!Announce, OutstandingAtEither,
                               Together!Next
<1> DEFINE Objects == RegistryPullSecret \cup {NoObject}
           Stored == Secret \cup {NoObject}
<1>6. /\ registryEvents \in Seq(Event(Registries, Objects))
      /\ registryEvents2 \in Seq(Event(Registries, Objects))
      /\ secretEvents \in Seq(Event(Keys, Stored))
      /\ secretEvents2 \in Seq(Event(Keys, Stored))
      /\ registryPullSecrets \in [Registries -> Objects]
  BY SameTypes DEF Second!LocalInv, Second!TypeInv, Second!TypeOK, Second!Event, Event,
                   LocalInv, TypeInv, TypeOK
<1> HIDE DEF Objects, Stored
<1>e. Len(secretEvents') <= Len(secretEvents) => secretEvents2' = secretEvents2
  BY <1>1, <1>6, NoNews DEF SecondHears
<1>l. Len(registryEvents) <= Len(registryEvents) /\ Len(secretEvents) <= Len(secretEvents)
  BY <1>6
<1>7. CASE Lost
  <2>1. UNCHANGED <<registryPullSecrets, secretEvents2, registryEvents2>>
    <3>1. registryEvents2' = registryEvents2
      BY <1>1, <1>6, <1>7, <1>l, NoNews DEF Lost, SecondHears
    <3> QED BY <1>e, <1>7, <3>1 DEF Lost
  <2>2. \A x : Second!Stale(registryEvents2', x) => Second!Stale(registryEvents2, x) \/ x \in {}
    BY <2>1
  <2>3. Second!Outstanding' \subseteq Second!Outstanding \cup {}
    BY <1>1, <2>1, <2>2, SecondNaming, SecondCredentials, SecondController, Second!HeardAdds
  <2> QED BY <1>1, <1>2, <1>3, <1>7, <2>3
          DEF Lost, Contract!Lose, Together!Lose, OutstandingAtEither, Together!Next
<1>8. ASSUME NEW r \in Registries, Ended(r) PROVE Together!Next
  <2>1. UNCHANGED <<registryPullSecrets, secretEvents2>>
    BY <1>e, <1>l, <1>8 DEF Ended
  <2>2. \A x : Stale(registryEvents2', x) => Stale(registryEvents2, x) \/ x = r
    <3>1. registryPullSecrets[r] \in Objects
      BY <1>6
    <3> QED BY <1>1, <1>6, <1>8, <3>1, NewsOfOne DEF Ended, SecondHears
  <2>3. \A x : Second!Stale(registryEvents2', x) => Second!Stale(registryEvents2, x) \/ x \in {r}
    BY <2>2, SameWords
  <2>4. Second!Outstanding' \subseteq Second!Outstanding \cup {r}
    BY <1>1, <2>1, <2>3, SecondNaming, SecondCredentials, SecondController, Second!HeardAdds
  <2>5. Together!Finish(r)
    BY <1>1, <1>2, <1>3, <1>8, <2>4 DEF Ended, Contract!Finish, Together!Finish, OutstandingAtEither
  <2> QED BY <2>5 DEF Together!Next
<1> QED BY <1>4, <1>5, <1>7, <1>8, StepRefines DEF FirstLeads

(* The same when the second leads. *)
LEMMA SecondLeadsRefines ==
    ASSUME LocalInv, Second!LocalInv, SecondLeads
    PROVE  Together!Next
<1>1. /\ LocalInv' /\ Second!LocalInv' /\ Heard /\ SharedOK'
      /\ FirstHears /\ UNCHANGED missed
  BY SecondLeadsKeeps DEF SecondLeads, FirstHears
<1>2. Outstanding \subseteq Outstanding'
  BY <1>1, HeardKeepsOutstanding
<1>3. /\ Outstanding' \in SUBSET Registries /\ missed' \in SUBSET Registries
      /\ missed \in SUBSET Registries
  BY <1>1 DEF Outstanding, LocalInv, TypeInv, TypeOK
<1>s. /\ Second!Needed = Needed /\ Second!Achieved = Achieved /\ Second!Duties = Duties
      /\ Second!Needed' = Needed' /\ Second!Achieved' = Achieved'
  BY SameCluster, SameClusterNext, SameTypes
<1>4. CASE Second!Contract!Change
  BY <1>1, <1>2, <1>3, <1>s, <1>4
     DEF Second!Contract!Change, Together!Change, OutstandingAtEither, Together!Next
<1>5. CASE Second!Contract!Announce
  BY <1>1, <1>2, <1>3, <1>s, <1>5
     DEF Second!Contract!Announce, Together!Announce, OutstandingAtEither, Together!Next
<1> DEFINE Objects == RegistryPullSecret \cup {NoObject}
           Stored == Secret \cup {NoObject}
<1>6. /\ registryEvents \in Seq(Event(Registries, Objects))
      /\ registryEvents2 \in Seq(Event(Registries, Objects))
      /\ secretEvents \in Seq(Event(Keys, Stored))
      /\ secretEvents2 \in Seq(Event(Keys, Stored))
      /\ registryPullSecrets \in [Registries -> Objects]
  BY SameTypes DEF Second!LocalInv, Second!TypeInv, Second!TypeOK, Second!Event, Event,
                   LocalInv, TypeInv, TypeOK
<1> HIDE DEF Objects, Stored
<1>e. Len(secretEvents2') <= Len(secretEvents2) => secretEvents' = secretEvents
  BY <1>1, <1>6, NoNews DEF FirstHears
<1>l. Len(registryEvents2) <= Len(registryEvents2) /\ Len(secretEvents2) <= Len(secretEvents2)
  BY <1>6
<1>7. CASE Second!Lost
  <2>1. UNCHANGED <<registryPullSecrets, secretEvents, registryEvents>>
    <3>1. registryEvents' = registryEvents
      BY <1>1, <1>6, <1>7, <1>l, NoNews DEF Second!Lost, FirstHears
    <3> QED BY <1>e, <1>7, <3>1 DEF Second!Lost
  <2>2. \A x : Stale(registryEvents', x) => Stale(registryEvents, x) \/ x \in {}
    BY <2>1
  <2>3. Outstanding' \subseteq Outstanding \cup {}
    BY <1>1, <2>1, <2>2, HeardAdds
  <2> QED BY <1>1, <1>2, <1>3, <1>s, <1>7, <2>3
          DEF Second!Lost, Second!Contract!Lose, Together!Lose, OutstandingAtEither, Together!Next
<1>8. ASSUME NEW r \in Registries, Second!Ended(r) PROVE Together!Next
  <2>1. UNCHANGED <<registryPullSecrets, secretEvents>>
    BY <1>e, <1>l, <1>8 DEF Second!Ended
  <2>2. \A x : Stale(registryEvents', x) => Stale(registryEvents, x) \/ x = r
    <3>1. registryPullSecrets[r] \in Objects
      BY <1>6
    <3> QED BY <1>1, <1>6, <1>8, <3>1, NewsOfOne, SameWords DEF Second!Ended, FirstHears
  <2>3. \A x : Stale(registryEvents', x) => Stale(registryEvents, x) \/ x \in {r}
    BY <2>2
  <2>4. Outstanding' \subseteq Outstanding \cup {r}
    BY <1>1, <2>1, <2>3, HeardAdds
  <2>5. Together!Finish(r)
    BY <1>1, <1>2, <1>3, <1>s, <1>8, <2>4
       DEF Second!Ended, Second!Contract!Finish, Together!Finish, OutstandingAtEither
  <2> QED BY <2>5 DEF Together!Next
<1>9. \/ Second!Contract!Change \/ Second!Contract!Announce \/ Second!Lost
      \/ \E r \in Registries : Second!Ended(r)
  BY SecondNaming, SecondCredentials, SecondController, Second!StepRefines DEF SecondLeads
<1> QED BY <1>4, <1>5, <1>7, <1>8, <1>9

(* At the start everything that exists is before both. *)
LEMMA BothInitRefines == InitBoth => Together!Init
<1>1. Init => Contract!Init
  BY InitRefines
<1>2. Second!Init => missed2 = {}
  BY DEF Second!Init
<1>3. Second!Outstanding \in SUBSET Registries
  BY DEF Second!Outstanding
<1> QED BY <1>1, <1>2, <1>3 DEF InitBoth, Init, Contract!Init, Together!Init, OutstandingAtEither

(* Two managers, each with caches, a queue and a worker of its own, and no lock between
   them, implement one level-triggered controller: whatever they write over each
   other, a RegistryPullSecret leaves the attention of both only when what it calls for
   at that moment has been carried out last (main, whose leader-elect flag is off
   unless set; Reconcile, SetupWithManager). *)
THEOREM TogetherCorrect == SpecBoth => TogetherLevelTriggered
<1>1. LocalInv /\ Second!LocalInv /\ [NextBoth]_allVars => [Together!Next]_(Together!vars)
  <2> SUFFICES ASSUME LocalInv, Second!LocalInv, [NextBoth]_allVars
               PROVE  [Together!Next]_(Together!vars)
    OBVIOUS
  <2>1. CASE UNCHANGED allVars
    <3>1. UNCHANGED <<Needed, Achieved, OutstandingAtEither, missed, missed2>>
      BY <2>1 DEF allVars, secondVars, vars, apiVars, cacheVars, queueVars, Needed, Achieved,
                  Exists, SourceIn, OutstandingAtEither, Outstanding, Triggered, Busy,
                  Second!Outstanding, Second!Triggered, Second!Busy, Second!Exists
    <3> QED BY <3>1 DEF Together!vars
  <2> QED BY <2>1, Leads, FirstLeadsRefines, SecondLeadsRefines
<1>2. LocalInv /\ Second!LocalInv /\ [NextBoth]_allVars => LocalInv' /\ Second!LocalInv'
  BY BothStep
<1> QED
  BY <1>1, <1>2, BothInit, BothInitRefines, PTL DEF SpecBoth, TogetherLevelTriggered, Together!Spec

Promise == INSTANCE LevelTriggeredProofs
           WITH Names <- Registries, Absent <- NoObject,
                Inputs <- Duties,
                needed <- Needed, done <- Achieved, pending <- OutstandingAtEither,
                missed <- missed \cup missed2

(* So no trigger is lost between the two: what neither of them has before it, and no
   failing List of registryPullSecretsForSecret has hidden from one of them, was carried
   out last with the spec and the credentials as they are. *)
THEOREM NoTriggerLostBetween == SpecBoth => []Together!Settled
<1>1. Together!Init => Promise!Init
  BY DEF Together!Init, Promise!Init
<1>2. [Together!Next]_(Together!vars) => [Promise!Next]_(Promise!vars)
  BY DEF Together!Next, Promise!Next, Together!vars, Promise!vars, Together!Change, Promise!Change,
         Together!Announce, Promise!Announce, Together!Lose, Promise!Lose, Together!Finish,
         Promise!Finish
<1>3. Promise!Settled => Together!Settled
  BY DEF Promise!Settled, Together!Settled
<1>4. Promise!Spec => []Promise!Settled
  BY Promise!SettledCorrect
<1> QED
  BY <1>1, <1>2, <1>3, <1>4, TogetherCorrect, PTL
     DEF TogetherLevelTriggered, Together!Spec, Promise!Spec

(* Whatever the other does, each manager has coherent caches, a worker that takes only the
   current object for current, and a trigger before it whenever its worker does not
   work from the present inputs. *)
THEOREM BothLocalCorrect == SpecBoth => [](LocalInv /\ Second!LocalInv)
<1>1. LocalInv /\ Second!LocalInv /\ [NextBoth]_allVars => LocalInv' /\ Second!LocalInv'
  BY BothStep
<1> QED BY <1>1, BothInit, PTL DEF SpecBoth

(* Two managers write one status in turns, each from its own copy of the object, and
   none of the writes claims an old spec (updateRegistryPullSecretStatus). *)
THEOREM StatusGenerationOfBoth == SpecBoth => [][HonestStatus]_allVars
<1>1. LocalInv /\ Second!LocalInv /\ [NextBoth]_allVars => [HonestStatus]_allVars
  <2> SUFFICES ASSUME LocalInv, Second!LocalInv, [NextBoth]_allVars
               PROVE  HonestStatus \/ UNCHANGED allVars
    OBVIOUS
  <2>1. CASE FirstLeads
    BY <2>1, StatusStep DEF FirstLeads
  <2>2. CASE SecondLeads
    <3>1. Second!HonestStatus
      BY <2>2, SecondNaming, SecondCredentials, SecondController, Second!StatusStep DEF SecondLeads
    <3> QED BY <3>1 DEF Second!HonestStatus, HonestStatus, Second!NoStatus, NoStatus
  <2> QED BY <2>1, <2>2, Leads
<1> QED BY <1>1, BothLocalCorrect, PTL DEF SpecBoth

(* Neither manager touches what was another's in the list it planned with, whatever the
   other has written since, selections by name provided (validateTargets, the loops of
   Reconcile): what a second manager exposes is only what came after the list. *)
THEOREM OwnershipOfBoth ==
    SpecBoth => [][/\ FirstActs => SparesListed
                   /\ SecondActs => Second!SparesListed]_allVars
<1> DEFINE Both == LocalInv /\ Second!LocalInv
           Spared == ForeignSpared /\ Second!ForeignSpared
           Sparing == (FirstActs => SparesListed) /\ (SecondActs => Second!SparesListed)
<1>1. InitBoth => Spared
  <2>1. Second!Init => Second!ForeignSpared
    BY SecondNaming, SecondCredentials, SecondController, Second!ForeignInit
  <2> QED BY <2>1, ForeignInit DEF InitBoth
<1>2. Both /\ Spared /\ [NextBoth]_allVars => Spared'
  <2> SUFFICES ASSUME Both, Spared, [NextBoth]_allVars PROVE Spared'
    OBVIOUS
  <2>0. TypeInv /\ Second!TypeInv
    BY DEF LocalInv, Second!LocalInv
  <2>1. CASE FirstLeads
    <3>1. ForeignSpared'
      BY <2>0, <2>1, ForeignStep DEF FirstLeads
    <3>2. Second!Heard
      BY <2>1, FirstLeadsKeeps
    <3>3. Second!ForeignSpared'
      BY <3>2, SecondNaming, SecondCredentials, SecondController, Second!HeardKeepsForeign
    <3> QED BY <3>1, <3>3
  <2>2. CASE SecondLeads
    <3>1. Second!ForeignSpared'
      BY <2>0, <2>2, SecondNaming, SecondCredentials, SecondController, Second!ForeignStep
         DEF SecondLeads
    <3>2. Heard
      BY <2>2, SecondLeadsKeeps
    <3> QED BY <3>1, <3>2, HeardKeepsForeign
  <2>3. CASE UNCHANGED allVars
    BY <2>3 DEF allVars, secondVars, vars, ForeignSpared, ByName, Second!ForeignSpared, Second!ByName
  <2> QED BY <2>1, <2>2, <2>3, Leads
<1>3. Both /\ Spared /\ [NextBoth]_allVars => [Sparing]_allVars
  <2> SUFFICES ASSUME Both, Spared PROVE Sparing
    OBVIOUS
  <2>0. TypeInv /\ Second!TypeInv
    BY DEF LocalInv, Second!LocalInv
  <2>1. ASSUME FirstActs PROVE SparesListed
    BY <2>0, <2>1, SparingStep DEF FirstActs, Next
  <2>2. ASSUME SecondActs PROVE Second!SparesListed
    <3>1. [Second!Next]_(Second!vars)
      BY <2>2 DEF SecondActs, Second!Next
    <3> QED BY <2>0, <3>1, SecondNaming, SecondCredentials, SecondController, Second!SparingStep
  <2> QED BY <2>1, <2>2
<1> QED BY <1>1, <1>2, <1>3, BothLocalCorrect, PTL DEF SpecBoth
-----------------------------------------------------------------------------
(* What is to be done about r, with two at work on it *)
DueAtEither(r) == Due(r) \/ Second!Due(r)

(* What is relied upon while two are at work: nothing is selected beyond Territory, both
   plan with current lists, users leave the replicas alone, the policy stays and no
   namespace is added. *)
RelyOfBoth(Territory) ==
    /\ Steady
    /\ UsersAct => UsersLeaveLabelled
    /\ ListsCurrent /\ PlansWithin(Territory)
    /\ Second!ListsCurrent /\ Second!PlansWithin(Territory)

BothSharing(Territory) ==
    /\ SharingInv(Territory) /\ Second!SharingInv(Territory)
    /\ \A r \in Registries : Exists(r) => DueAtEither(r)

(* What is right, and for how long, is a matter of the cluster, not of who looks. *)
SightAgrees(Territory) ==
    /\ Second!SharedView(Territory) <=> SharedView(Territory)
    /\ \A r \in Registries :
         /\ Second!Standing(r) <=> Standing(r)
         /\ \A key \in Keys : Second!Right(r, key) <=> Right(r, key)

(* What a reconcile works out from what it reads does not depend on the manager. *)
LEMMA SameFunctions ==
    /\ Second!Credentials = Credentials
    /\ \A spec, source :
         Second!ResolveRegistryCredentials(spec, source) = ResolveRegistryCredentials(spec, source)
    /\ \A selection, server, excluded, all :
         Second!EffectiveTargets(selection, server, excluded, all)
           = EffectiveTargets(selection, server, excluded, all)
    /\ \A r, credentials : Second!BuildPullSecret(r, credentials) = BuildPullSecret(r, credentials)
    /\ \A secret, r : Second!OwnedBy(secret, r) <=> OwnedBy(secret, r)
    /\ \A setting : Second!ExcludedNamespaces(setting) = ExcludedNamespaces(setting)
    /\ \A store, spec : Second!SourceIn(store, spec) = SourceIn(store, spec)
<1>1. Second!Credentials = Credentials
  BY DEF Second!Credentials, Credentials
<1>2. \A secret : Second!CredentialsFromSecret(secret) = CredentialsFromSecret(secret)
  BY <1>1 DEF Second!CredentialsFromSecret, CredentialsFromSecret
<1>3. \A spec, source :
        Second!ResolveRegistryCredentials(spec, source) = ResolveRegistryCredentials(spec, source)
  BY <1>2 DEF Second!ResolveRegistryCredentials, ResolveRegistryCredentials
<1>4. \A server : Second!DefaultTargetSecretName(server) = DefaultTargetSecretName(server)
  BY DEF Second!DefaultTargetSecretName, DefaultTargetSecretName, Second!NameForHost, NameForHost,
         Second!HostCandidate, HostCandidate, Second!DeriveHostLabel, DeriveHostLabel,
         Second!StripKnownTLDSuffix, StripKnownTLDSuffix, Second!SanitizedParts, SanitizedParts,
         Second!IgnoredHostTokens, IgnoredHostTokens,
         Second!SecondaryDomainTokens, SecondaryDomainTokens
<1>5. \A list : Second!Elements(list) = Elements(list)
  BY DEF Second!Elements, Elements
<1>6. \A selection, excluded, n :
        Second!NamespaceSelected(selection, excluded, n) <=> NamespaceSelected(selection, excluded, n)
  BY <1>5 DEF Second!NamespaceSelected, NamespaceSelected
<1>7. \A selection, server, n :
        Second!TargetNames(selection, server, n) = TargetNames(selection, server, n)
  BY <1>4 DEF Second!TargetNames, TargetNames
<1>8. \A selection, server, excluded, all :
        Second!EffectiveTargets(selection, server, excluded, all)
          = EffectiveTargets(selection, server, excluded, all)
  BY <1>6, <1>7 DEF Second!EffectiveTargets, EffectiveTargets
<1>9. \A r, credentials : Second!BuildPullSecret(r, credentials) = BuildPullSecret(r, credentials)
  BY DEF Second!BuildPullSecret, BuildPullSecret, Second!DockerConfigJSON, DockerConfigJSON,
         Second!ManagedByLabelValue, ManagedByLabelValue,
         Second!SecretTypeDockerConfigJson, SecretTypeDockerConfigJson
<1>10. \A secret, r : Second!OwnedBy(secret, r) <=> OwnedBy(secret, r)
  BY DEF Second!OwnedBy, OwnedBy, Second!ManagedByLabelValue, ManagedByLabelValue
<1>11. \A setting : Second!ExcludedNamespaces(setting) = ExcludedNamespaces(setting)
  BY DEF Second!ExcludedNamespaces, ExcludedNamespaces
<1>12. \A store, spec : Second!SourceIn(store, spec) = SourceIn(store, spec)
  BY DEF Second!SourceIn, SourceIn
<1> QED BY <1>1, <1>3, <1>8, <1>9, <1>10, <1>11, <1>12

(* So neither does what is called for, or whether it is there. *)
LEMMA SameSight == ASSUME NEW Territory PROVE SightAgrees(Territory)
<1>1. Second!Present = Present /\ Second!Keys = Keys
  BY DEF Second!Present, Present, Second!Keys, Keys
<1>2. \A inputs : Second!ViewOf(inputs) <=> ViewOf(inputs)
  BY <1>1, SameFunctions DEF Second!ViewOf, ViewOf
<1>3. Second!SharedView(Territory) <=> SharedView(Territory)
  BY <1>1, <1>2, SameFunctions DEF Second!SharedView, SharedView
<1>4. \A r : Second!Demand(r) = Demand(r)
  BY <1>1, SameFunctions DEF Second!Demand, Demand
<1>5. \A inputs : Second!CredentialsOf(inputs) = CredentialsOf(inputs)
  BY SameFunctions DEF Second!CredentialsOf, CredentialsOf
<1>6. \A inputs : Second!TargetsOf(inputs) = TargetsOf(inputs)
  BY <1>5, SameFunctions DEF Second!TargetsOf, TargetsOf
<1>7. \A r : Second!Wanted(r) = Wanted(r)
  BY <1>4, <1>6 DEF Second!Wanted, Wanted
<1>8. \A r, key, secret : Second!RightFor(r, key, secret) <=> RightFor(r, key, secret)
  BY <1>4, <1>5, <1>7, SameFunctions DEF Second!RightFor, RightFor
<1>9. \A r, key : Second!Right(r, key) <=> Right(r, key)
  BY <1>8 DEF Second!Right, Right
<1>10. \A r, inputs : Second!Current(r, inputs) <=> Current(r, inputs)
  BY SameFunctions DEF Second!Current, Current
<1>11. \A r : Second!Standing(r) <=> Standing(r)
  BY <1>1, <1>4, <1>5, <1>9, <1>10, SameFunctions DEF Second!Standing, Standing
<1> QED BY <1>3, <1>9, <1>11 DEF SightAgrees

(* So are the credentials it would use. *)
LEMMA SameDemand == \A r : Second!CredentialsOf(Second!Demand(r)) = CredentialsOf(Demand(r))
BY SameFunctions DEF Second!CredentialsOf, CredentialsOf, Second!Demand, Demand

(* Nor does that change with a step. *)
LEMMA SameSightNext == ASSUME NEW Territory PROVE SightAgrees(Territory)'
<1>1. SightAgrees(Territory)
  BY SameSight
<1> QED BY <1>1, PTL
(* The first manager or a user acts: what was due to it goes on, what was due to the
   second remains, and what the second has covered stays right. *)
LEMMA FirstLeadsDue ==
    ASSUME NEW Territory, Apart(Territory), BothSharing(Territory), RelyOfBoth(Territory),
           Reconciler \/ Manager \/ (Users /\ UsersLeaveLabelled), SecondHears
    PROVE  BothSharing(Territory)'
<1>1. /\ SharingInv(Territory) /\ Second!SharingInv(Territory) /\ Move(Territory)
      /\ LocalInv /\ Second!LocalInv /\ FirstLeads
  BY DEF BothSharing, RelyOfBoth, Move, SharingInv, Second!SharingInv, FirstLeads, Next
<1>2. SharingInv(Territory)'
  BY <1>1, SharingStep
<1>3. /\ Second!Heard /\ Second!SharedOK' /\ Second!SyncedExists'
  BY <1>1, FirstLeadsKeeps, SameClusterNext, SharedTypesNext
<1>4. Second!Steady /\ Second!SharedView(Territory)'
  <2>1. Second!Steady
    BY DEF RelyOfBoth, Second!Steady, Steady, Second!Present, Present
  <2> QED BY <1>2, <2>1, SameSightNext DEF SharingInv, SightAgrees
<1>5. Second!SharingInv(Territory)'
  BY <1>1, <1>3, <1>4, SecondNaming, SecondCredentials, SecondController, Second!SharingHeard
<1>6. ASSUME NEW r \in Registries, Exists(r)', ~Coming(r)', ~Second!Coming(r)'
      PROVE  DueAtEither(r)'
  <2>1. Exists(r)
    BY <1>1, <1>6, ChangeComes DEF FirstLeads
  <2>2. CASE Due(r)
    BY <1>1, <1>6, <2>2, DueStep DEF DueAtEither
  <2>3. CASE Second!Coming(r)
    BY <1>1, <1>3, <1>6, <2>3, SecondNaming, SecondCredentials, SecondController,
       Second!HeardKeepsComing
  <2>4. CASE Second!Covering(r)
    <3>1. CredentialsOf(Demand(r)) \in Credentials
      BY <1>1, <2>4, SameFunctions, SameDemand, SecondNaming, SecondCredentials,
         SecondController, Second!CoveringResolves
    <3>2. \A key \in Keys : Right(r, key) => Right(r, key)'
      BY <1>1, <1>6, <3>1, RightStays
    <3>3. \A key \in Second!Keys : Second!Right(r, key) => Second!Right(r, key)'
      BY <3>2, SameTypes, SameSight, SameSightNext DEF SightAgrees
    <3>4. Second!Exists(r)'
      BY <1>6 DEF Exists, Second!Exists
    <3>5. Second!Covering(r)'
      BY <1>1, <1>3, <1>6, <2>4, <3>3, <3>4, SecondNaming, SecondCredentials, SecondController,
         Second!HeardKeepsCovering
    <3> QED BY <3>5 DEF DueAtEither, Second!Due
  <2>5. CASE Second!Standing(r)
    BY <2>2, <2>5, SameSight DEF SightAgrees, Due
  <2> QED BY <2>1, <2>2, <2>3, <2>4, <2>5 DEF BothSharing, DueAtEither, Second!Due
<1> QED BY <1>2, <1>5, <1>6 DEF BothSharing, DueAtEither, Due, Second!Due

(* The same when the second acts. *)
LEMMA SecondLeadsDue ==
    ASSUME NEW Territory, Apart(Territory), BothSharing(Territory), RelyOfBoth(Territory),
           SecondActs
    PROVE  BothSharing(Territory)'
<1>1. /\ SharingInv(Territory) /\ Second!SharingInv(Territory)
      /\ LocalInv /\ Second!LocalInv /\ SecondLeads
  BY DEF BothSharing, SharingInv, Second!SharingInv, SecondActs, SecondLeads, Second!Next
<1>2. Second!Move(Territory) /\ Second!Apart(Territory)
  <2>1. Second!Steady
    BY DEF RelyOfBoth, Second!Steady, Steady, Second!Present, Present
  <2>2. Second!Apart(Territory)
    BY DEF Second!Apart, Apart
  <2> QED BY <2>1, <2>2 DEF RelyOfBoth, SecondActs, Second!Move
<1>3. Second!SharingInv(Territory)'
  BY <1>1, <1>2, SecondNaming, SecondCredentials, SecondController, Second!SharingStep
<1>4. Heard /\ SharedOK' /\ SyncedExists'
  BY <1>1, SecondLeadsKeeps, SharedTypesNext
<1>5. Steady /\ SharedView(Territory)'
  BY <1>3, SameSightNext DEF RelyOfBoth, Second!SharingInv, SightAgrees
<1>6. SharingInv(Territory)'
  BY <1>1, <1>4, <1>5, SharingHeard
<1>7. ASSUME NEW r \in Registries, Exists(r)', ~Coming(r)', ~Second!Coming(r)'
      PROVE  DueAtEither(r)'
  <2>1. Second!Exists(r)'
    BY <1>7 DEF Exists, Second!Exists
  <2>2. Exists(r)
    <3>1. Second!Exists(r)
      BY <1>1, <1>7, <2>1, SecondNaming, SecondCredentials, SecondController, Second!ChangeComes
         DEF SecondLeads
    <3> QED BY <3>1 DEF Exists, Second!Exists
  <2>3. CASE Second!Due(r)
    BY <1>1, <1>2, <2>1, <2>3, SecondNaming, SecondCredentials, SecondController, Second!DueStep
       DEF DueAtEither
  <2>4. CASE Coming(r)
    BY <1>1, <1>4, <1>7, <2>4, HeardKeepsComing
  <2>5. CASE Covering(r)
    <3>1. Second!CredentialsOf(Second!Demand(r)) \in Second!Credentials
      BY <1>1, <2>5, SameFunctions, SameDemand, CoveringResolves
    <3>2. \A key \in Second!Keys : Second!Right(r, key) => Second!Right(r, key)'
      BY <1>1, <1>2, <1>7, <2>1, <3>1, SecondNaming, SecondCredentials, SecondController,
         Second!RightStays
    <3>3. \A key \in Keys : Right(r, key) => Right(r, key)'
      BY <3>2, SameTypes, SameSight, SameSightNext DEF SightAgrees
    <3>4. Covering(r)'
      BY <1>1, <1>4, <1>7, <2>5, <3>3, HeardKeepsCovering
    <3> QED BY <3>4 DEF DueAtEither, Due
  <2>6. CASE Standing(r)
    BY <2>3, <2>6, SameSight DEF SightAgrees, Second!Due
  <2> QED BY <2>2, <2>3, <2>4, <2>5, <2>6 DEF BothSharing, DueAtEither, Due
<1> QED BY <1>3, <1>6, <1>7 DEF BothSharing, DueAtEither, Due, Second!Due

(* At the start everything is before both. *)
LEMMA DueInit ==
    ASSUME NEW Territory, InitBoth, SharedView(Territory)
    PROVE  BothSharing(Territory)
<1>1. LocalInv /\ Second!LocalInv
  BY BothInit
<1>2. worker = Idle /\ worker2 = Second!Idle
  BY DEF InitBoth, Init, Second!Init
<1>3. worker \notin Job /\ worker2 \notin Second!Job
  BY <1>2 DEF Idle, Second!Idle, Job, Second!Job
<1>4. /\ cachedPolicy = policy /\ cachedNamespaces = namespaces
      /\ cachedPolicy2 = policy /\ cachedNamespaces2 = namespaces
  BY DEF InitBoth, Init, Second!Init
<1>5. ManagerView /\ PlanWithin(Territory) /\ JobInv
  BY <1>3, <1>4 DEF ManagerView, Present, Syncing, PlanWithin, JobInv
<1>6. Second!ManagerView /\ Second!PlanWithin(Territory) /\ Second!JobInv
  BY <1>3, <1>4 DEF Second!ManagerView, Second!Present, Second!Syncing, Second!PlanWithin,
                    Second!JobInv
<1>7. Second!SharedView(Territory)
  BY SameSight DEF SightAgrees
<1>8. \A r \in Registries : Exists(r) => r \in queue
  BY DEF InitBoth, Init
<1>9. \A r \in Registries : Exists(r) => DueAtEither(r)
  BY <1>8 DEF DueAtEither, Due, Coming, Attended, Pending
<1> QED BY <1>1, <1>5, <1>6, <1>7, <1>9 DEF BothSharing, SharingInv, Second!SharingInv

(* Nothing that happens, happens to what is due. *)
LEMMA NothingLeadsDue ==
    ASSUME NEW Territory, BothSharing(Territory), UNCHANGED allVars
    PROVE  BothSharing(Territory)'
<1>1. UNCHANGED <<vars, secondVars>>
  BY DEF allVars
<1>2. LocalInv' /\ Second!LocalInv'
  BY BothStep DEF BothSharing, SharingInv, Second!SharingInv
<1>3. SharedView(Territory)'
  BY <1>1 DEF vars, apiVars, BothSharing, SharingInv, SharedView, ViewOf, Present
<1>4. ManagerView' /\ PlanWithin(Territory)' /\ JobInv'
  BY <1>1 DEF vars, apiVars, cacheVars, BothSharing, SharingInv, ManagerView, PlanWithin, JobInv,
              Present, Syncing
<1>5. Second!SharedView(Territory)'
  BY <1>3, SameSightNext DEF SightAgrees
<1>6. Second!ManagerView' /\ Second!PlanWithin(Territory)' /\ Second!JobInv'
  BY <1>1 DEF vars, apiVars, secondVars, BothSharing, Second!SharingInv, Second!ManagerView,
              Second!PlanWithin, Second!JobInv, Second!Present, Second!Syncing
<1>7. ASSUME NEW r \in Registries, Exists(r) => DueAtEither(r) PROVE Exists(r)' => DueAtEither(r)'
  <2>1. Exists(r)' <=> Exists(r)
    BY <1>1 DEF vars, apiVars, Exists
  <2>2. (Coming(r)' <=> Coming(r)) /\ (Second!Coming(r)' <=> Second!Coming(r))
    BY <1>1 DEF vars, apiVars, cacheVars, queueVars, secondVars, Coming, Attended, Pending, Busy,
                Second!Coming, Second!Attended, Second!Pending, Second!Busy
  <2>3. \A key : Right(r, key)' <=> Right(r, key)
    BY <1>1 DEF vars, apiVars, Right, RightFor, Wanted, Demand, Present
  <2>4. \A key : Second!Right(r, key)' <=> Second!Right(r, key)
    BY <1>1 DEF vars, apiVars, Second!Right, Second!RightFor, Second!Wanted, Second!Demand,
                Second!Present
  <2>5. Covering(r)' <=> Covering(r)
    BY <1>1, <2>3 DEF vars, apiVars, Covering, Busy, Syncing, Current
  <2>6. Second!Covering(r)' <=> Second!Covering(r)
    BY <1>1, <2>4 DEF vars, apiVars, secondVars, Second!Covering, Second!Busy, Second!Syncing,
                      Second!Current
  <2>7. Standing(r)' <=> Standing(r)
    BY <1>1, <2>3 DEF vars, apiVars, Standing, Current, Demand, Present
  <2>8. Second!Standing(r)' <=> Second!Standing(r)
    BY <2>7, SameSight, SameSightNext DEF SightAgrees
  <2> QED BY <1>7, <2>1, <2>2, <2>5, <2>6, <2>7, <2>8 DEF DueAtEither, Due, Second!Due
<1>8. \A r \in Registries : Exists(r)' => DueAtEither(r)'
  BY <1>7 DEF BothSharing
<1> QED BY <1>2, <1>3, <1>4, <1>5, <1>6, <1>8 DEF BothSharing, SharingInv, Second!SharingInv

(* What neither has before it is right. *)
LEMMA NothingDueIsReplicated ==
    ASSUME NEW Territory, BothSharing(Territory)
    PROVE  BothSettledIsReplicated
<1> SUFFICES ASSUME NEW r \in Registries, Exists(r),
                    r \notin OutstandingAtEither \cup missed \cup missed2
             PROVE  /\ Replicated(r)
                    /\ status[r].observedGeneration = registryPullSecrets[r].generation
                    /\ status[r].reason = "Synced"
  BY DEF BothSettledIsReplicated
<1>1. ~Coming(r) /\ ~Covering(r)
  BY DEF OutstandingAtEither, Outstanding, Triggered, Coming, Covering, Attended, Pending
<1>2. ~Second!Coming(r) /\ ~Second!Covering(r)
  BY DEF OutstandingAtEither, Second!Outstanding, Second!Triggered, Second!Coming,
         Second!Covering, Second!Attended, Second!Pending, Second!Exists, Exists
<1>3. Standing(r)
  BY <1>1, <1>2, SameSight DEF BothSharing, DueAtEither, Due, Second!Due, SightAgrees
<1>4. TypeInv /\ SharedView(Territory)
  BY DEF BothSharing, SharingInv, LocalInv
<1>5. Replicated(r)
  BY <1>3, <1>4, StandingIsReplicated
<1> QED BY <1>3, <1>5 DEF Standing

(* Two managers without a lock undo each other's work for a while: one writes or deletes
   from a plan that the other has overtaken.  But what has overtaken the plan is
   announced to both, so the one that is behind has to come back, and when neither has
   anything left to do every replica is in place, nothing else carries the labels, and
   the status says so (Reconcile, applySecret, SetupWithManager, main).  Relied upon,
   beside what one manager needs: no two RegistryPullSecrets may claim one Secret, the
   policy stays and no namespace is added, because of a change of those the manager that
   is behind is not told. *)
THEOREM BothSettledIsReplicatedRelying ==
    ASSUME NEW Territory, Apart(Territory)
    PROVE  SpecBoth /\ SharedView(Territory) /\ [][RelyOfBoth(Territory)]_allVars
             => []BothSettledIsReplicated
<1>1. InitBoth /\ SharedView(Territory) => BothSharing(Territory)
  BY DueInit
<1>2. BothSharing(Territory) /\ [NextBoth]_allVars /\ [RelyOfBoth(Territory)]_allVars
        => BothSharing(Territory)'
  <2> SUFFICES ASSUME BothSharing(Territory), [NextBoth]_allVars,
                      [RelyOfBoth(Territory)]_allVars
               PROVE  BothSharing(Territory)'
    OBVIOUS
  <2>1. CASE UNCHANGED allVars
    BY <2>1, NothingLeadsDue
  <2>2. CASE FirstActs /\ RelyOfBoth(Territory)
    BY <2>2, FirstLeadsDue DEF FirstActs
  <2>3. CASE UsersAct /\ RelyOfBoth(Territory)
    BY <2>3, FirstLeadsDue DEF UsersAct, RelyOfBoth
  <2>4. CASE SecondActs /\ RelyOfBoth(Territory)
    BY <2>4, SecondLeadsDue
  <2> QED BY <2>1, <2>2, <2>3, <2>4 DEF NextBoth
<1>3. BothSharing(Territory) => BothSettledIsReplicated
  BY NothingDueIsReplicated
<1> QED BY <1>1, <1>2, <1>3, PTL DEF SpecBoth
=============================================================================

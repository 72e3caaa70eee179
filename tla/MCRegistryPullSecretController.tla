------------------- MODULE MCRegistryPullSecretController -------------------
(* Values for the constants of RegistryPullSecretController: a cluster with the
   namespaces "n1" and "n2" to replicate to and "ops", where the credentials
   Secret lives.  Each configuration picks its users and its budget from here. *)
EXTENDS RegistryPullSecretController, TLC

MCNamespaces == {"n1", "n2", "ops"}
MCSecretNames == {"ghcr-pull-secret", "team-creds", "source"}
MCServers == {"", "ghcr.io", "ghcr.io:443", "docker.io"}
MCValues == MCServers \cup {"user", "pass1", "pass2", " pass2"}
MCLabels == {"ghcr", "docker", "io"}
MCSanitized == [label \in MCLabels |-> label]
MCHostLabels == [server \in MCServers |->
    CASE server = "docker.io" -> <<"docker", "io">>
      [] server = "" -> << >>
      [] OTHER -> <<"ghcr", "io">>]
MCTrimSpace == [value \in MCValues |-> IF value = " pass2" THEN "pass2" ELSE value]

SourceKey == <<"ops", "source">>

CredentialsWith(server, password) ==
    [server |-> server, username |-> "user", password |-> password, auth |-> ""]

SourceSecret(password) ==
    [labels |-> [managedBy |-> NoLabel, registry |-> NoLabel, server |-> NoLabel],
     type |-> "Opaque", data |-> CredentialsWith("ghcr.io", password)]

(* A Secret of some other tool under a name the operator would choose *)
ForeignSecret == [SourceSecret("pass1") EXCEPT !.type = SecretTypeDockerConfigJson]

Selection(rule, list, name, overrides) ==
    [policy |-> rule, namespaces |-> list, targetSecretName |-> name,
     namespaceOverrides |-> overrides]

FromSource(selection) ==
    [credentials |-> NoCredentials, credentialsSecretRef |-> SourceKey, namespaces |-> selection]

Inline(credentials, selection) ==
    [credentials |-> credentials, credentialsSecretRef |-> NoRef, namespaces |-> selection]

AtStart(registry, spec) ==
    [r \in Registries |-> IF r = registry THEN [spec |-> spec, generation |-> 1] ELSE NoObject]

Holding(contents) ==
    [key \in Keys |-> IF key \in DOMAIN contents THEN contents[key] ELSE NoObject]

(* So many disturbances in all, of each kind no more than given *)
AnyOf(total, spending) ==
    [kind \in Disturbances |->
        IF kind = "total" THEN total ELSE IF kind \in DOMAIN spending THEN spending[kind] ELSE 0]

BudgetOf(spending) == AnyOf(10, spending)

OneRegistry == {"ra"}
TwoRegistries == {"ra", "rb"}
FirstOnly == {"n1"}
SecondOnly == {"n2"}
AllActive == [n \in MCNamespaces |-> "active"]
SecondMissing == [n \in MCNamespaces |-> IF n = "n2" THEN "absent" ELSE "active"]
SourceOnly == Holding(SourceKey :> SourceSecret("pass1"))
NoWrites == {}

-----------------------------------------------------------------------------
(* core_races: one RegistryPullSecret edited, deleted and recreated while its
   source is rotated *)
RacesRefSpec == FromSource(Selection("Inclusive", <<"n1">>, "", << >>))
RacesInlineSpec ==
    Inline(CredentialsWith("ghcr.io", "pass1"), Selection("Exclusive", <<"n2", "ops">>, "team-creds", << >>))
(* never valid: no name can be derived, and the explicit one does not help *)
RacesUnnamedSpec ==
    Inline(CredentialsWith("docker.io", "pass1"), Selection("Inclusive", <<"n1">>, "team-creds", << >>))
RacesSpecs == {RacesRefSpec, RacesInlineSpec, RacesUnnamedSpec}
RacesPolicies == {<<"n2">>}
RacesWrites == {[key |-> SourceKey, object |-> SourceSecret(" pass2")]}
RacesDeletes == {SourceKey}
RacesInitialRegistries == AtStart("ra", RacesRefSpec)
RacesBudget ==
    AnyOf(4, "spec" :> 2 @@ "secret" :> 1 @@ "fault" :> 1 @@ "list" :> 1 @@ "restart" :> 1)

-----------------------------------------------------------------------------
(* contention: two RegistryPullSecrets want the same Secret, a third name is
   taken by another tool, which may take the shared one, too *)
SharedSpec == FromSource(Selection("Inclusive", <<"n1">>, "team-creds", << >>))
OverrideSpec ==
    Inline(CredentialsWith("ghcr.io", "pass1"),
           Selection("Inclusive", <<"n1">>, "", <<[namespace |-> "n1", secretName |-> "team-creds"]>>))
ForeignSpec == FromSource(Selection("Inclusive", <<"n2">>, "team-creds", << >>))
ContentionSpecs == {SharedSpec, OverrideSpec, ForeignSpec}
ContentionInitialRegistries ==
    [r \in Registries |-> [spec |-> IF r = "ra" THEN SharedSpec ELSE OverrideSpec, generation |-> 1]]
ContentionInitialSecrets ==
    Holding(SourceKey :> SourceSecret("pass1") @@ <<"n2", "team-creds">> :> ForeignSecret)
ContentionWrites == {[key |-> <<"n1", "team-creds">>, object |-> ForeignSecret]}
ContentionBudget ==
    AnyOf(3, "spec" :> 1 @@ "secret" :> 1 @@ "terminate" :> 1 @@ "restart" :> 1)
NoBudget == BudgetOf(<< >>)

-----------------------------------------------------------------------------
(* convergence: one RegistryPullSecret whose every spec can be satisfied, in a
   cluster whose policy, namespaces and credentials change under it *)
ConvergenceRefSpec == FromSource(Selection("Exclusive", <<"ops">>, "", << >>))
ConvergenceOverrideSpec ==
    FromSource(Selection("Exclusive", <<"ops">>, "",
                         <<[namespace |-> "n1", secretName |-> "team-creds"]>>))
ConvergenceInlineSpec ==
    Inline(CredentialsWith("ghcr.io", "pass1"), Selection("Inclusive", <<"n1">>, "team-creds", << >>))
ConvergenceSpecs == {ConvergenceRefSpec, ConvergenceOverrideSpec, ConvergenceInlineSpec}
ConvergencePolicies == {<<"n2">>}
ConvergenceInitialRegistries == AtStart("ra", ConvergenceRefSpec)
ConvergenceBudget ==
    AnyOf(3, "spec" :> 2 @@ "policy" :> 1 @@ "createNamespace" :> 1 @@ "terminate" :> 1 @@
             "secret" :> 1 @@ "fault" :> 1 @@ "list" :> 1 @@ "restart" :> 1)

-----------------------------------------------------------------------------
(* Runs that show where the code leaves its documentation *)

(* exclusive_overwrites: a Secret of another tool where an Exclusive selection reaches *)
ExclusiveInitialSecrets ==
    Holding(SourceKey :> SourceSecret("pass1") @@ <<"n2", "ghcr-pull-secret">> :> ForeignSecret)

(* stale_cache and exclusion_deletes: one spec edit, and one policy edit *)
OneEdit == BudgetOf("spec" :> 1)
OnePolicyOneEdit == BudgetOf("spec" :> 1 @@ "policy" :> 1)

(* server_with_port *)
PortSpec == Inline(CredentialsWith("ghcr.io:443", "pass1"), Selection("Inclusive", <<"n1">>, "", << >>))
PortInitialRegistries == AtStart("ra", PortSpec)
PortSpecs == {PortSpec}
=============================================================================

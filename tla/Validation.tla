----------------------------- MODULE Validation -----------------------------
(* Semantic validation of a RegistryPullSecret (internal/sync/validation.go).
   Every failure here is a validationError, so the order of the checks does not
   matter and each function is the predicate "no error". *)
EXTENDS SecretRendering

CONSTANT ValidSecretNames       \* names that pass validatePullSecretName

(* Policy, explicit name, selected namespaces and overrides *)
ValidateNamespaceSelection(selection) ==
    LET overrides == selection.namespaceOverrides
        overridden == [i \in DOMAIN overrides |-> overrides[i].namespace]
    IN  /\ selection.policy \in {"Inclusive", "Exclusive"}
        /\ selection.targetSecretName \in ValidSecretNames \cup {""}
        /\ Elements(selection.namespaces) \cup Elements(overridden) \subseteq ValidNamespaceNames
        /\ NoDuplicates(selection.namespaces)
        /\ NoDuplicates(overridden)
        /\ \A i \in DOMAIN overrides : overrides[i].secretName \in ValidSecretNames

(* An Exclusive selection may list excluded namespaces, overrides may not *)
ValidateGloballyExcludedSelection(selection, excluded) ==
    /\ selection.policy = "Inclusive" =>
         Elements(selection.namespaces) \cap Elements(excluded) = {}
    /\ \A override \in Elements(selection.namespaceOverrides) :
         override.namespace \notin Elements(excluded)

ValidateDefaultTargetSecretName(selection, server) ==
    \/ selection.targetSecretName \in ValidSecretNames
    \/ selection.targetSecretName = "" /\ DefaultTargetSecretName(server) \in ValidSecretNames

(* The namespaces the resources mention: not those the cluster has *)
PolicyAwareNamespaceInventory(selection, excluded) ==
    Elements(selection.namespaces)
        \cup {override.namespace : override \in Elements(selection.namespaceOverrides)}
        \cup Elements(excluded)

(* Slip: any Secret of the operator will do, whoever it replicates for *)
TargetsAreManaged(registry, targets, existing) ==
    \A target \in targets :
        /\ target[2] \in ValidSecretNames
        /\ existing[target] # NoObject =>
             existing[target].labels.managedBy = ManagedByLabelValue

(* No target collides with a Secret this registry does not own *)
ValidateTargets(registry, targets, existing) ==
    \A target \in targets :
        /\ target[2] \in ValidSecretNames
        /\ existing[target] # NoObject => OwnedBy(existing[target], registry)

ValidateRegistryPullSecret(registry, spec, credentials, excluded, existing) ==
    LET selection == spec.namespaces
        server == credentials.server
    IN  /\ ValidateNamespaceSelection(selection)
        /\ ValidateGloballyExcludedSelection(selection, excluded)
        /\ ValidateDefaultTargetSecretName(selection, server)
        /\ TargetsDerivable(server)
        /\ ValidateTargets(registry,
               EffectiveTargets(selection, server, excluded,
                                PolicyAwareNamespaceInventory(selection, excluded)),
               existing)

(* How DesiredSecrets ends: the errors of DockerConfigJSON are no validation errors *)
DesiredSecretsResult(registry, spec, credentials, excluded, existing) ==
    IF ~ValidateRegistryPullSecret(registry, spec, credentials, excluded, existing)
    THEN "ValidationFailed"
    ELSE IF Renderable(credentials) THEN "Synced" ELSE "SyncFailed"
=============================================================================

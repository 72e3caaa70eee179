------------------------------- MODULE Planner -------------------------------
(* From a RegistryPullSecret, its credentials, the cluster-wide exclusions     *)
(* and a namespace inventory to the Secrets that should exist                  *)
(* (internal/sync/planner.go).  A target is a key <<namespace, secret name>>.  *)
EXTENDS HostNaming, PolicyValidation

CONSTANTS
    Namespaces,     \* every namespace name in play, existing or not
    SecretNames     \* every Secret name in play, well-formed or not

Keys == Namespaces \X SecretNames

(* spec.namespaces of a RegistryPullSecret; targetSecretName "" is unset *)
NamespaceSelection ==
    [policy             : {"Inclusive", "Exclusive"},
     namespaces         : Seq(Namespaces),
     targetSecretName   : SecretNames \cup {""},
     namespaceOverrides : Seq([namespace : Namespaces, secretName : SecretNames])]

(* Slip: the cluster-wide exclusions are not consulted *)
SelectedIgnoringPolicy(selection, excluded, namespace) ==
    (namespace \in Elements(selection.namespaces)) = (selection.policy = "Inclusive")

(* Is the namespace eligible under the selection and the exclusions? *)
NamespaceSelected(selection, excluded, namespace) ==
    /\ namespace \notin Elements(excluded)
    /\ \/ selection.policy = "Inclusive" /\ namespace \in Elements(selection.namespaces)
       \/ selection.policy = "Exclusive" /\ namespace \notin Elements(selection.namespaces)

(* The one name a replica has in a namespace, as a set: the last override of the
   namespace wins, then the explicit name, then the derived one *)
TargetNames(selection, server, namespace) ==
    LET overrides == selection.namespaceOverrides
        ours == {i \in DOMAIN overrides : overrides[i].namespace = namespace}
        last == {i \in ours : \A j \in ours : j <= i}
    IN  IF ours # {} THEN {overrides[i].secretName : i \in last}
        ELSE IF selection.targetSecretName # "" THEN {selection.targetSecretName}
        ELSE {DefaultTargetSecretName(server)}

(* EffectiveTargets derives the default name first and fails when there is none,
   even where an explicit name would be used *)
TargetsDerivable(server) == DefaultTargetSecretName(server) # NoName

EffectiveTargets(selection, server, excluded, allNamespaces) ==
    UNION {{namespace} \X TargetNames(selection, server, namespace) :
        namespace \in {n \in allNamespaces : NamespaceSelected(selection, excluded, n)}}
=============================================================================

--------------------------- MODULE SecretRendering ---------------------------
(* Credential resolution (internal/sync/credentials.go) and the rendering and  *)
(* comparison of replicated Secrets (internal/sync/secret.go).                 *)
EXTENDS Planner

CONSTANTS
    Registries,     \* names of RegistryPullSecrets
    Values,         \* the strings credential fields may hold
    TrimSpace,      \* per value: the value without surrounding white space
    NoCredentials,  \* spec.credentials unset, or credentials that do not resolve
    NoRef,          \* spec.credentialsSecretRef unset
    NoObject,       \* an API object that does not exist
    NoLabel         \* a label that is not set

ASSUME CredentialsAssumption ==
    /\ Servers \subseteq Values
    /\ "" \in Values
    /\ TrimSpace \in [Values -> Values]
    /\ \A server \in Servers : TrimSpace[server] \in Servers

(* The email field is carried along by the code and read by nothing; it is left out *)
Credentials == [server : Servers, username : Values, password : Values, auth : Values]

(* Base64 is injective, so the derived auth is kept as the pair it encodes *)
DockerConfigs ==
    [auths : [server : Servers, username : Values, password : Values, auth : Seq(Values)]]

ManagedByLabelValue == "pull-secrets-operator"

SecretTypeDockerConfigJson == "kubernetes.io/dockerconfigjson"

(* A managed-by label of another tool is no different here from none *)
Labelling == [managedBy : {ManagedByLabelValue, NoLabel},
              registry  : Registries \cup {NoLabel},
              server    : Servers \cup {NoLabel}]

Secret == [labels : Labelling,
           type   : {SecretTypeDockerConfigJson, "Opaque"},
           data   : Credentials \cup DockerConfigs]

-----------------------------------------------------------------------------
(* The credentials in a source Secret: trimmed, "" where the key is missing; a
   replica used as a source has none of the keys. *)
CredentialsFromSecret(secret) ==
    IF secret.data \notin Credentials
    THEN NoCredentials
    ELSE LET trimmed == [field \in {"server", "username", "password", "auth"} |->
                            TrimSpace[secret.data[field]]]
         IN  IF \E field \in {"server", "username", "password"} : trimmed[field] = ""
             THEN NoCredentials
             ELSE trimmed

(* Exactly one of the two ways to give credentials; source is the referenced
   Secret as read, NoObject when it does not exist. *)
ResolveRegistryCredentials(spec, source) ==
    IF \/ (spec.credentials = NoCredentials) = (spec.credentialsSecretRef = NoRef)
       \/ spec.credentialsSecretRef # NoRef /\ source = NoObject
    THEN NoCredentials
    ELSE IF spec.credentialsSecretRef = NoRef THEN spec.credentials
                                              ELSE CredentialsFromSecret(source)

-----------------------------------------------------------------------------
(* DockerConfigJSON refuses credentials without server, username or password *)
Renderable(credentials) ==
    "" \notin {credentials.server, credentials.username, credentials.password}

DockerConfigJSON(credentials) ==
    [auths |-> [server   |-> credentials.server,
                username |-> credentials.username,
                password |-> credentials.password,
                auth     |-> IF credentials.auth # "" THEN <<credentials.auth>>
                             ELSE <<credentials.username, credentials.password>>]]

(* Labels, type and data of every replica of a RegistryPullSecret *)
BuildPullSecret(registry, credentials) ==
    [labels |-> [managedBy |-> ManagedByLabelValue,
                 registry  |-> registry,
                 server    |-> credentials.server],
     type   |-> SecretTypeDockerConfigJson,
     data   |-> DockerConfigJSON(credentials)]

(* Slip: an existing Secret is taken as it is, whatever it holds *)
NeedsApplyIfMissing(existing, desired) == existing = NoObject

SecretNeedsApply(existing, desired) ==
    \/ existing = NoObject
    \/ existing.type # desired.type
    \/ existing.labels # desired.labels
    \/ existing.data # desired.data

(* The ownership labels: managed by this operator, for this RegistryPullSecret *)
OwnedBy(secret, registry) ==
    /\ secret # NoObject
    /\ secret.labels.managedBy = ManagedByLabelValue
    /\ secret.labels.registry = registry

ObsoleteSecrets(registry, existing, desired) ==
    {key \in Keys \ desired : OwnedBy(existing[key], registry)}
=============================================================================

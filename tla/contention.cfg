CONSTANTS
    Namespaces <- MCNamespaces
    SecretNames <- MCSecretNames
    Servers <- MCServers
    HostLabels <- MCHostLabels
    Labels <- MCLabels
    Sanitized <- MCSanitized
    Values <- MCValues
    TrimSpace <- MCTrimSpace
    ValidNamespaceNames <- MCNamespaces
    ValidSecretNames <- MCSecretNames
    ValidLabelValues = {"ghcr.io", "docker.io"}
    NoName = NoName
    NoCredentials = NoCredentials
    NoRef = NoRef
    NoObject = NoObject
    NoLabel = NoLabel
    Registries <- TwoRegistries
    Specs <- ContentionSpecs
    PolicySettings <- NoWrites
    UserWrites <- ContentionWrites
    UserDeletes <- NoWrites
    ShortLived <- FirstOnly
    InitialRegistries <- ContentionInitialRegistries
    InitialPolicy = NoObject
    InitialNamespaces <- AllActive
    InitialSecrets <- ContentionInitialSecrets
    Budget <- ContentionBudget
    MaxPending = 2
    ReadLag = 0
SPECIFICATION Spec
INVARIANT NoSharedTarget
PROPERTY ListedForeignUntouched
CHECK_DEADLOCK FALSE

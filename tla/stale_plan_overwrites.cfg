CONSTANTS
    Namespaces <- MCNamespaces
    SecretNames <- MCSecretNames
    Servers <- MCServers
    HostLabels <- MCHostLabels
    Labels <- MCLabels
    Sanitized <- MCSanitized
    Values <- MCValues
    TrimSpace <- MCTrimSpace
    ValidNamespaceNames <- MCNamespaces
    ValidSecretNames <- MCSecretNames
    ValidLabelValues = {"ghcr.io", "docker.io"}
    NoName = NoName
    NoCredentials = NoCredentials
    NoRef = NoRef
    NoObject = NoObject
    NoLabel = NoLabel
    Registries <- TwoRegistries
    Specs <- ContentionSpecs
    PolicySettings <- NoWrites
    UserWrites <- NoWrites
    UserDeletes <- NoWrites
    ShortLived <- NoWrites
    InitialRegistries <- ContentionInitialRegistries
    InitialPolicy = NoObject
    InitialNamespaces <- AllActive
    InitialSecrets <- ContentionInitialSecrets
    Budget <- NoBudget
    MaxPending = 2
    ReadLag = 2
SPECIFICATION Spec
PROPERTY OwnershipRespected
CHECK_DEADLOCK FALSE

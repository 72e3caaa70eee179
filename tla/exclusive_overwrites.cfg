CONSTANTS
    Namespaces <- MCNamespaces
    SecretNames <- MCSecretNames
    Servers <- MCServers
    HostLabels <- MCHostLabels
    Labels <- MCLabels
    Sanitized <- MCSanitized
    Values <- MCValues
    TrimSpace <- MCTrimSpace
    ValidNamespaceNames <- MCNamespaces
    ValidSecretNames <- MCSecretNames
    ValidLabelValues = {"ghcr.io", "docker.io"}
    NoName = NoName
    NoCredentials = NoCredentials
    NoRef = NoRef
    NoObject = NoObject
    NoLabel = NoLabel
    Registries <- OneRegistry
    Specs <- ConvergenceSpecs
    PolicySettings <- ConvergencePolicies
    UserWrites <- RacesWrites
    UserDeletes <- NoWrites
    ShortLived <- NoWrites
    InitialRegistries <- ConvergenceInitialRegistries
    InitialPolicy = NoObject
    InitialNamespaces <- AllActive
    InitialSecrets <- ExclusiveInitialSecrets
    Budget <- NoBudget
    MaxPending = 2
    ReadLag = 0
SPECIFICATION Spec
PROPERTY OwnershipRespected
CHECK_DEADLOCK FALSE

CONSTANTS
    Namespaces <- MCNamespaces
    SecretNames <- MCSecretNames
    Servers <- MCServers
    HostLabels <- MCHostLabels
    Labels <- MCLabels
    Sanitized <- MCSanitized
    Values <- MCValues
    TrimSpace <- MCTrimSpace
    ValidNamespaceNames <- MCNamespaces
    ValidSecretNames <- MCSecretNames
    ValidLabelValues = {"ghcr.io", "docker.io"}
    NoName = NoName
    NoCredentials = NoCredentials
    NoRef = NoRef
    NoObject = NoObject
    NoLabel = NoLabel
    Registries <- OneRegistry
    Specs <- PortSpecs
    PolicySettings <- ConvergencePolicies
    UserWrites <- RacesWrites
    UserDeletes <- NoWrites
    ShortLived <- NoWrites
    InitialRegistries <- PortInitialRegistries
    InitialPolicy = NoObject
    InitialNamespaces <- SecondMissing
    InitialSecrets <- SourceOnly
    Budget <- NoBudget
    MaxPending = 2
    ReadLag = 0
SPECIFICATION FairSpec
PROPERTY EventuallyReplicated
CHECK_DEADLOCK FALSE

CONSTANTS
    Namespaces <- MCNamespaces
    SecretNames <- MCSecretNames
    Servers <- MCServers
    HostLabels <- MCHostLabels
    Labels <- MCLabels
    Sanitized <- MCSanitized
    Values <- MCValues
    TrimSpace <- MCTrimSpace
    ValidNamespaceNames <- MCNamespaces
    ValidSecretNames <- MCSecretNames
    ValidLabelValues = {"ghcr.io", "docker.io"}
    NoName = NoName
    NoCredentials = NoCredentials
    NoRef = NoRef
    NoObject = NoObject
    NoLabel = NoLabel
    Registries <- OneRegistry
    Specs <- TwoManagersSpecs
    PolicySettings <- NoWrites
    UserWrites <- RacesWrites
    UserDeletes <- NoWrites
    ShortLived <- NoWrites
    InitialRegistries <- RacesInitialRegistries
    InitialPolicy = NoObject
    InitialNamespaces <- AllActive
    InitialSecrets <- SourceOnly
    Budget <- TwoManagersBudget
    MaxPending = 1
    ReadLag = 0
SPECIFICATION SpecBoth
INVARIANT BothSettledIsReplicated
PROPERTY TogetherLevelTriggered
CHECK_DEADLOCK FALSE

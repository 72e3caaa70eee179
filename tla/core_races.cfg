CONSTANTS
    Namespaces <- MCNamespaces
    SecretNames <- MCSecretNames
    Servers <- MCServers
    HostLabels <- MCHostLabels
    Labels <- MCLabels
    Sanitized <- MCSanitized
    Values <- MCValues
    TrimSpace <- MCTrimSpace
    ValidNamespaceNames <- MCNamespaces
    ValidSecretNames <- MCSecretNames
    ValidLabelValues = {"ghcr.io", "docker.io"}
    NoName = NoName
    NoCredentials = NoCredentials
    NoRef = NoRef
    NoObject = NoObject
    NoLabel = NoLabel
    Registries <- OneRegistry
    Specs <- RacesSpecs
    PolicySettings <- RacesPolicies
    UserWrites <- RacesWrites
    UserDeletes <- RacesDeletes
    ShortLived <- NoWrites
    InitialRegistries <- RacesInitialRegistries
    InitialPolicy = NoObject
    InitialNamespaces <- AllActive
    InitialSecrets <- SourceOnly
    Budget <- RacesBudget
    MaxPending = 2
    ReadLag = 2
SPECIFICATION Spec
INVARIANTS TypeOK SettledStatusIsCurrent NoLostTrigger
PROPERTIES StatusOfCurrentGeneration ImplementsLevelTriggered
CHECK_DEADLOCK FALSE

CONSTANTS
    Namespaces <- MCNamespaces
    SecretNames <- MCSecretNames
    Servers <- MCServers
    HostLabels <- MCHostLabels
    Labels <- MCLabels
    Sanitized <- MCSanitized
    Values <- MCValues
    TrimSpace <- MCTrimSpace
    ValidNamespaceNames <- MCNamespaces
    ValidSecretNames <- MCSecretNames
    ValidLabelValues = {"ghcr.io", "docker.io"}
    NoName = NoName
    NoCredentials = NoCredentials
    NoRef = NoRef
    NoObject = NoObject
    NoLabel = NoLabel
    Registries <- OneRegistry
    Specs <- ConvergenceSpecs
    PolicySettings <- ConvergencePolicies
    UserWrites <- RacesWrites
    UserDeletes <- NoWrites
    ShortLived <- NoWrites
    InitialRegistries <- ConvergenceInitialRegistries
    InitialPolicy = NoObject
    InitialNamespaces <- SecondMissing
    InitialSecrets <- SourceOnly
    Budget <- OneEdit
    MaxPending = 2
    ReadLag = 2
SPECIFICATION Spec
INVARIANT SettledIsReplicated
CHECK_DEADLOCK FALSE

CONSTANTS
    Namespaces <- MCNamespaces
    SecretNames <- MCSecretNames
    Servers <- MCServers
    HostLabels <- MCHostLabels
    Labels <- MCLabels
    Sanitized <- MCSanitized
    Values <- MCValues
    TrimSpace <- MCTrimSpace
    ValidNamespaceNames <- MCNamespaces
    ValidSecretNames <- MCSecretNames
    ValidLabelValues = {"ghcr.io", "docker.io"}
    NoName = NoName
    NoCredentials = NoCredentials
    NoRef = NoRef
    NoObject = NoObject
    NoLabel = NoLabel
    Registries <- OneRegistry
    Specs <- ConvergenceSpecs
    PolicySettings <- ConvergencePolicies
    UserWrites <- RacesWrites
    UserDeletes <- NoWrites
    ShortLived <- SecondOnly
    InitialRegistries <- ConvergenceInitialRegistries
    InitialPolicy = NoObject
    InitialNamespaces <- SecondMissing
    InitialSecrets <- SourceOnly
    Budget <- ConvergenceBudget
    MaxPending = 2
    ReadLag = 0
SPECIFICATION FairSpec
INVARIANT SettledIsReplicated
PROPERTIES MakeBeforeBreak EventuallyReplicated EventuallyQuiet
CHECK_DEADLOCK FALSE

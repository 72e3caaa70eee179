CONSTANTS
    Servers <- MCServers
    HostLabels <- MCHostLabels
    Labels <- MCLabels
    Sanitized <- MCSanitized
    NoName = NoName
    MaxHostLabels = 4
SPECIFICATION Spec
INVARIANT DockerHubHasADerivedName
CHECK_DEADLOCK FALSE

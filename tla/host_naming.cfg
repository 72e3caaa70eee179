CONSTANTS
    Servers <- MCServers
    HostLabels <- MCHostLabels
    Labels <- MCLabels
    Sanitized <- MCSanitized
    NoName = NoName
    MaxHostLabels = 4
SPECIFICATION Spec
INVARIANT NameIsLastMeaningfulLabel
PROPERTY SubdomainsKeepTheName
CHECK_DEADLOCK FALSE

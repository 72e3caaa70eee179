CONSTANTS
    PolicyNames <- MCPolicyNames
    ValidNamespaceNames <- MCValidNamespaceNames
    ExclusionLists <- MCExclusionLists
    NoObject = NoObject
    InitialPolicies <- MCInitialPolicies
    Budget <- MCBudget
    MaxPending = 2
SPECIFICATION FairSpec
INVARIANTS TypeOK SettledStatusIsTrue ReportFitsGeneration
PROPERTIES EventuallyReported PolicyIsLevelTriggered
CHECK_DEADLOCK FALSE

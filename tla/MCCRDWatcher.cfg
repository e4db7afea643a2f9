SPECIFICATION Spec
CONSTANTS
    Objects <- MCObjects
    Specs <- MCSpecs
    HandlerOf <- MCHandlerOf
    SystemNamespace <- SystemNs
    Scenes <- MCScenes
    ExcludeNamespaces <- MCExcludeNamespaces
    ExcludeNamespaceSelector <- MCExcludeNamespaceSelector
    MaxWrites = 3
    MaxTime = 1
INVARIANTS LastValidVersionIsRegistered StatusIsTruthful StandingPolicyIsObeyed VerdictFollowsPolicies
CHECK_DEADLOCK FALSE

SPECIFICATION Spec
CONSTANTS
    Replicas = {r1, r2}
    Nobody = Nobody
    RetryPeriod = 1
    RenewDeadline = 2
    LeaseDuration = 3
    HeartbeatInterval = 1
    HeartbeatTimeout = 2
    MaxFaults = 2
PROPERTY LeadershipReturns
CHECK_DEADLOCK FALSE

\* Delayed mode and a broker that may fail once.
SPECIFICATION FairSpec
CONSTANTS
    d1 = d1
    d2 = d2
    r1 = r1
    r2 = r2
    k1 = k1
    k2 = k2
    k3 = k3
    Agent = Agent
    null = null
    SenderModes = {TRUE}
    BufferSize = 1
    DelayedSenders = {d1, d2}
    Reconnectors = {r1, r2}
    Connections = {k1, k2, k3}
    MaxItems = 2
    MaxFailures = 1
    CanStop = FALSE
INVARIANTS NoDuplicateWithoutFailure
PROPERTIES SessionsDelivered
CHECK_DEADLOCK FALSE

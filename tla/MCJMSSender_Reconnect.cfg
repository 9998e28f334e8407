\* A broker that is away for longer than one retry.
SPECIFICATION FairSpec
CONSTANTS
    d1 = d1
    r1 = r1
    r2 = r2
    r3 = r3
    k1 = k1
    k2 = k2
    Agent = Agent
    null = null
    SenderModes = {TRUE}
    BufferSize = 0
    DelayedSenders = {d1}
    Reconnectors = {r1, r2, r3}
    Connections = {k1, k2}
    MaxItems = 0
    MaxFailures = 1
    CanStop = FALSE
PROPERTIES Reconnects
CHECK_DEADLOCK FALSE

\* A stop() with a session in the queue and a waiting DelayedSender.
SPECIFICATION FairSpec
CONSTANTS
    d1 = d1
    r1 = r1
    k1 = k1
    k2 = k2
    Agent = Agent
    null = null
    SenderModes = {TRUE}
    BufferSize = 1
    DelayedSenders = {d1}
    Reconnectors = {r1}
    Connections = {k1, k2}
    MaxItems = 1
    MaxFailures = 0
    CanStop = TRUE
PROPERTIES StopFlushes
CHECK_DEADLOCK FALSE

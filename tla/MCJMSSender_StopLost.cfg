\* stop() right after start().
SPECIFICATION FairSpec
CONSTANTS
    d1 = d1
    r1 = r1
    k1 = k1
    Agent = Agent
    null = null
    SenderModes = {TRUE}
    BufferSize = 1
    DelayedSenders = {d1}
    Reconnectors = {r1}
    Connections = {k1}
    MaxItems = 0
    MaxFailures = 0
    CanStop = TRUE
PROPERTIES StopStopsDelayedSender
CHECK_DEADLOCK FALSE

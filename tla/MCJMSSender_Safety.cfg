\* Both modes, an overflowing buffer, a broker that may fail and a stop at any
\* moment.
SPECIFICATION Spec
CONSTANTS
    d1 = d1
    d2 = d2
    d3 = d3
    r1 = r1
    r2 = r2
    r3 = r3
    k1 = k1
    k2 = k2
    k3 = k3
    Agent = Agent
    null = null
    SenderModes = {TRUE, FALSE}
    BufferSize = 0
    DelayedSenders = {d1, d2, d3}
    Reconnectors = {r1, r2, r3}
    Connections = {k1, k2, k3}
    MaxItems = 2
    MaxFailures = 1
    CanStop = TRUE
INVARIANTS TypeOK BufferBound NothingLost DiscardsCounted RunningCanSend
PROPERTIES SilentAfterStop
CHECK_DEADLOCK FALSE

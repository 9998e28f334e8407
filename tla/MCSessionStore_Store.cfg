SPECIFICATION Spec
CONSTANTS
    s1 = s1
    s2 = s2
    m1 = m1
    m2 = m2
    i1 = i1
    i2 = i2
    null = null
    Sessions = {s1, s2}
    Messages = {m1, m2}
    CallOf <- MCCallOf
    Pools <- MCPools
    MaxDeliveries = 2
    MaxFailures = 2
INVARIANTS
    TypeOK
    NothingLost
    StoredOnceWithoutFailure
    GivenUpIfAmbiguous
    DiscardedOnlyIfOvertaken
PROPERTY
    EverySentSettles
CHECK_DEADLOCK FALSE

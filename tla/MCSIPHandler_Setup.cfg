\* A failure response in an established call.
SPECIFICATION MCSpec
CONSTANTS
    c1 = c1
    r1 = r1
    null = null
    CallIDs = {c1}
    SessionRefs = {r1}
    StatusCodes <- MCActiveCodes
    MaxPackets = 4
    MaxGap = 1
INVARIANTS EstablishedKeepsSetupTime
SYMMETRY MCSymmetry
VIEW MCView
CHECK_DEADLOCK FALSE

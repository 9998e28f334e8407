\* One call with every status code, and two interleaved calls; see MCSIPHandler.
SPECIFICATION MCSpec
CONSTANTS
    c1 = c1
    c2 = c2
    r1 = r1
    r2 = r2
    r3 = r3
    null = null
    CallIDs = {c1, c2}
    SessionRefs = {r1, r2, r3}
    StatusCodes <- MCStatusCodes
    MaxPackets = 6
    MaxGap = 1
INVARIANTS TypeOK LiveSessionsOpen SentOnce EndedIffSent StampsOrdered PacketFiledOnce
PROPERTIES HandedOffFrozen LeavesBySendOrReplacement TracksCalls
SYMMETRY MCSymmetry
VIEW MCView
CHECK_DEADLOCK FALSE

\* One agent, three packets, a stop at any moment.
SPECIFICATION FairSpec
CONSTANTS
    Agent = Agent
    Capture = Capture
    Control = Control
    Session = Session
    null = null
    MaxPackets = 3
INVARIANTS TypeOK DeviceReleased OneLatePacket
PROPERTIES ErrorIsFinal StopEnds CaptureEnds
CHECK_DEADLOCK FALSE

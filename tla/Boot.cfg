CONSTANTS
    Ring = 2
    MaxFrames = 3
    RecvBuffers = 0
    FrameSizes = {68}
    Buses <- MCBuses
    Devices = 2
    Functions = 2
    Absent = Absent
    Addresses = {0, 1, 2}
    MaxCards = 2
    MaxRequests = 2
SPECIFICATION Spec
INVARIANTS EveryCardOnce PortBaseRight EverythingAcknowledged RingInSync FramesAnnounced
PROPERTIES ImplementsQueue FramesLookedAt
CHECK_DEADLOCK FALSE

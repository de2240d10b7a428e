SPECIFICATION FramingSpec
CHECK_DEADLOCK FALSE
CONSTANTS
    Frames <- MCFrames
    kMaxFrame = 3
    SocketBuffer = 3
    MaxSent = 4
    MaxDamage = 2
INVARIANT
    NoFalseAlarm
PROPERTIES
    ImplementsChannel
    FramesArrive

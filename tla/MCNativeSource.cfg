SPECIFICATION FairSpec
CHECK_DEADLOCK FALSE
CONSTANTS
    keyboard = keyboard
    pad = pad
    wheel = wheel
    up = up
    down = down
    Keyboard = keyboard
    Controllers = {pad}
    Readings = {up, down}
    QueueCap = 4
INVARIANTS
    SoleHook
    ReaderCatchesUp
PROPERTIES
    ImplementsProtocol
    CallsReturn

SPECIFICATION Spec
CHECK_DEADLOCK FALSE
CONSTANTS
    trigger = trigger
    none = none
    brake = brake
    NoState = none
    Buttons = {}
    Axes = {brake}
    Levels = {0, 1}
    Center = 1
    BufferSize = 2
    Batch = 1
INVARIANT NoPhantomAxisEvents

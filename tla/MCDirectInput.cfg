SPECIFICATION FairSpec
CHECK_DEADLOCK FALSE
CONSTANTS
    trigger = trigger
    brake = brake
    none = none
    NoState = none
    Buttons = {trigger}
    Axes = {brake}
    Levels = {0}
    Center = 1
    BufferSize = 3
    Batch = 2
INVARIANTS
    TypeOK
    ViewCatchesUp
    NoButtonLeftDown
    NoPhantomAfterSetup
PROPERTY Recovers

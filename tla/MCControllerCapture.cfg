SPECIFICATION Spec
CHECK_DEADLOCK FALSE
CONSTANTS
    wheel = wheel
    close1 = close1
    close2 = close2
    button1 = button1
    button2 = button2
    axis1 = axis1
    nobody = nobody
    Nobody = nobody
    Closers = {close1}
    Buttoners = {button1, button2}
    Axers = {axis1}
    Devices = {wheel}
    Positions <- SamplePositions
    Threshold = 95
    MinMovement = 20
    EventCap = 1
    ErrorCap = 1
INVARIANTS
    TypeOK
    NobodyForgotten
    AxisBindingUsable

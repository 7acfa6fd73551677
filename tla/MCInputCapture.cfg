SPECIFICATION FairSpec
CHECK_DEADLOCK FALSE
CONSTANTS
    letter = letter
    ctrl = ctrl
    esc = esc
    pad = pad
    keyboard = keyboard
    button = button
    north = north
    east = east
    Keys = {letter, ctrl}
    ModifierKeys = {ctrl}
    Escape = esc
    Keyboard = keyboard
    Pads = {pad}
    Buttons = {}
    Directions = {north, east}
    Subs = {"capture"}
    Cap = 1
INVARIANTS
    CaptureNotStranded
    CaptureIsFresh
PROPERTIES
    CloseEndsCapture

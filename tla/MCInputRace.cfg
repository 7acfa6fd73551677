SPECIFICATION Spec
CHECK_DEADLOCK FALSE
CONSTANTS
    letter = letter
    ctrl = ctrl
    esc = esc
    pad = pad
    keyboard = keyboard
    button = button
    north = north
    east = east
    Keys = {letter, ctrl, esc}
    ModifierKeys = {ctrl}
    Escape = esc
    Keyboard = keyboard
    Pads = {}
    Buttons = {}
    Directions = {}
    Subs = {"capture"}
    Cap = 2
INVARIANT CaptureHasSource

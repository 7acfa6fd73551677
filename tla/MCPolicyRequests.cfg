SPECIFICATION RequestFairSpec
CHECK_DEADLOCK FALSE
CONSTANTS
    letter = letter
    ctrl = ctrl
    rightCtrl = rightCtrl
    ctrlBit = ctrlBit
    NoBit = NoBit
    game = game
    other = other
    NoProcess = NoProcess
    Keys = {letter, ctrl}
    Bit <- MCBit
    Processes = {game, other}
    Policies <- MCPolicies
    MaxBlocked = 2
INVARIANTS
    TypeOK
    NoStuckKey
    OnlyBlockedChords
    PolicyAccounted
PROPERTIES
    InterceptionEnds

SPECIFICATION SessionSpec
CHECK_DEADLOCK FALSE
CONSTANTS
    game = game
    telemetry = telemetry
    brake = brake
    released = released
    half = half
    nobody = nobody
    Nobody = nobody
    MinFrequency = 10
    MaxFrequency = 200
    MaxAmplitude = 100
    Callers = {game, telemetry}
    Targets = {brake}
    Frequencies = {255}
    Amplitudes = {0, 101}
    Positions = {released, half}
    QueueCap = 1
    neo = neo
    wheel = wheel
    Interfaces <- MCInterfaces
    Attributes <- MCAttributes
    Drivers <- MCDrivers
    ForeignMatch <- MCForeign
    Pedal = neo
INVARIANTS
    TypeOK
    ClosedIsQuiet
    EveryPedalFound
PROPERTIES
    StopHonoured
    VibrateHonoured
    FirstReadIsCurrent
    CallsReturn

SPECIFICATION FairSpec
CONSTANTS
    a = a
    b = b
    a1 = a1
    a2 = a2
    b1 = b1
    Main = Main
    Mirror = Mirror
    Keys = {a, b}
    Descs = {a1, a2, b1}
    KeyOf <- MCKeyOf
    Handlers = {}
    Workers = {w1, w2}
    Callers = {w1, w2, Main, Mirror}
    Registries = {{a1}, {a2}, {b1}}
    Controlled = {a1, a2, b1}
    Capable = {a}
    MaxReloads = 2
    MaxConnects = 0
    MaxLosses = 0
    MaxTicks = 0
INVARIANTS UncancelledIsCurrent PolledIsSupported WorkersFollowRegistry NoTemperatureLeftBehind
PROPERTIES ReplacedWorkersEnd ReadingEnds
CHECK_DEADLOCK FALSE

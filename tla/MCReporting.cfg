SPECIFICATION Spec
CONSTANTS
    a = a
    b = b
    a1 = a1
    a2 = a2
    b1 = b1
    Main = Main
    Mirror = Mirror
    Keys = {a, b}
    Descs = {a1, b1}
    KeyOf <- MCKeyOf
    Handlers = {h1}
    Workers = {w1}
    Callers = {w1, Main, Mirror}
    Registries = {{a1}, {b1}}
    Controlled = {a1}
    Capable = {}
    MaxReloads = 1
    MaxConnects = 1
    MaxLosses = 1
    MaxTicks = 1
INVARIANTS RetainedCurrent ServiceFollowsRegistry
PROPERTIES MessagesTrue
CHECK_DEADLOCK FALSE

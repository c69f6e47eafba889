SPECIFICATION FairSpec
CONSTANTS
    a = a
    b = b
    r1 = r1
    r2 = r2
    Streams = {a, b}
    Requests = {r1, r2}
    Asks <- MCAsks
    Lists <- MCLists
    FreshFor = 1
    StaleFor = 1
    MaxFetches = 3
    MaxReloads = 2
INVARIANT OneFetchPerCamera
PROPERTIES NoOlderImage RemovedImagesDropped WaitersServed RequestAnswered
CHECK_DEADLOCK FALSE

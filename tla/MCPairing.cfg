CONSTANTS
    None = None
    Codes = {c1, c2}
    Sessions = {s1, s2}
    Emails = {e1}
    ConfigEmail = None
    Modes <- AddOnAndCommandLine
SPECIFICATION FairSpec
INVARIANT
    PageMeansUnpaired
PROPERTY
    SessionKept
    PairingCompletes

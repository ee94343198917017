\* Two edits, two connections, one command at a time.
CONSTANTS
    v1 = v1  v2 = v2  bad = bad  a = a  b = b  NoManager = NoManager  NoInstance = NoInstance
    Versions = {v1, v2, bad}
    Valid = {v1, v2}
    Urls = {a, b}
    UrlOf <- MCUrlOf
    First = v1
    c1 = c1  c2 = c2
    Commands = {c1}
    MaxEdits = 2
    MaxConns = 2
SPECIFICATION FairSpec
INVARIANTS ReloadIsConsistent OnlyLateTasksSeeTheSwitch NoEditIsLost
PROPERTIES ReloadsEnd

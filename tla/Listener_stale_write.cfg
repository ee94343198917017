\* A job begun before a restart writes its cursor after it.
CONSTANTS
    m1 = m1  m2 = m2  m3 = m3  g1 = g1  c1 = c1  c2 = c2
    Matches = {m1}
    Chats = {g1}
    Cmds = {c1}
    MaxPerGroup = 1
    MaxConcurrent = 1
    PageLimit = 2
    StartWindow = 3
    Lifetime = 1
    MuteChoices <- MuteNothing
    MaxSkip = 0
    MaxEvents = 3
    MaxTime = 0
    MaxCrashes = 0
    MaxResets = 1
    MaxGhosts = 0
    MaxDbErrors = 0
SPECIFICATION MCSpec
INVARIANTS RestartResetsCursor

\* One listener stopped, expired and started again while the poller works on it;
\* or two handlers that start listeners of three matches in one chat.
CONSTANTS
    m1 = m1  m2 = m2  m3 = m3  g1 = g1  c1 = c1  c2 = c2
    Matches = {m1, m2, m3}
    Chats = {g1}
    Cmds = {c1, c2}
    MaxPerGroup = 1
    MaxConcurrent = 1
    PageLimit = 2
    StartWindow = 3
    Lifetime = 0
    MuteChoices <- MuteNothing
    MaxSkip = 1
    MaxEvents = 3
    MaxTime = 1
    MaxCrashes = 0
    MaxResets = 1
    MaxGhosts = 0
    MaxDbErrors = 1
SPECIFICATION ScenesSpec
INVARIANTS NothingSkipped PendingIsAnnounced QuotaOvershootBounded
SYMMETRY Symmetry

\* One listener in depth: failures in the middle of a page, cards switched
\* off, and an unconfirmed delivery and a crash, or a database error, or an expiry.
CONSTANTS
    m1 = m1  m2 = m2  m3 = m3  g1 = g1  c1 = c1  c2 = c2
    Matches = {m1}
    Chats = {g1}
    Cmds = {c1}
    MaxPerGroup = 1
    MaxConcurrent = 1
    PageLimit = 2
    StartWindow = 3
    Lifetime = 1
    MuteChoices <- MuteStarts
    MaxSkip = 1
    MaxEvents = 3
    MaxTime = 1
    MaxCrashes = 1
    MaxResets = 0
    MaxGhosts = 1
    MaxDbErrors = 1
SPECIFICATION MCFairSpec
INVARIANTS ChatIsTold
PROPERTIES ImplementsChatFeed EventsAreConsumed

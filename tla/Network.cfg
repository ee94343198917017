\* Timers fire; frames may or may not come.  The timeouts are 10 s and 30 s
\* next to a floor of 30 s; the window holds one command before the extra one;
\* the delay of a reconnect doubles to a longest one that is no power of two.
CONSTANTS
    Tasks = {sched, timer, coordinator}
    Loop = ws
    Sched = sched
    Timed = {sched, timer}
    Calls = {c1}
    Timeouts = {1, 3}
    Floor = 3  Margin = 1  MaxTokens = 1  MaxDelay = 6  MaxConns = 2  MaxFailures = 4
    Handlers = {h1, h2}
    Users = {u1}
    Limit = 1  Window = 2  Idle = 3  SweepEvery = 4
    Nobody = Nobody
    Requests = {r1, r2}
    Burst = 1  MaxRetries = 2  MaxRefreshes = 1  MaxUpdates = 1
    Codes = {k1}
    Capacity = 1  MaxWire = 2  MaxDials = 2
SPECIFICATION Spec
INVARIANTS SweepSparesCallers DelayCountsFailures BurstIsBounded TokensAreShared
PROPERTIES EverybodyIsAnswered
CHECK_DEADLOCK FALSE

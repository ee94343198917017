\* One handler and the tick loop, one edit or shutdown.
CONSTANTS
    p = p  q = q  x = x  h1 = h1  ticks = ticks  Off = Off  NoInstance = NoInstance
    Names = {p, q}
    Order <- MCOrder
    Settings <- MCSettings
    CmdNames = {x}
    LostThreshold = 2
    ReloadThreshold = 1
    Handlers = {h1}
    Ticker = ticks
    First <- MCFirst
    Files <- MCFiles
    MaxEvents = 1
    MaxIds = 5
SPECIFICATION Spec
INVARIANTS SlotsAreConsistent TickRunsItsOwner
PROPERTIES ReloadRunsTheFile

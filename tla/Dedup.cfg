\* Three callers, two keys, callers dropped anywhere; one caller asks for one key only.
CONSTANTS
    c1 = c1  c2 = c2  c3 = c3  k1 = k1  k2 = k2  e1 = e1  e2 = e2 
    NoEntry = NoEntry  NoKey = NoKey
    Callers = {c1, c2, c3}
    Keys = {k1, k2}
    Entries = {e1, e2}
SPECIFICATION MCSpec
INVARIANTS MapIsAttended AnswersAreShared OneRunUnlessAbandoned
PROPERTIES EveryRequestEnds

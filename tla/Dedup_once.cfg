\* dedup.rs:9 against a creator that is dropped.
CONSTANTS
    c1 = c1  c2 = c2  c3 = c3  k1 = k1  k2 = k2  e1 = e1  e2 = e2 
    NoEntry = NoEntry  NoKey = NoKey
    Callers = {c1, c2}
    Keys = {k1}
    Entries = {e1, e2}
SPECIFICATION Spec
INVARIANTS ExecutesOnce

CONSTANTS
    q1 = q1  q2 = q2  u1 = u1  u2 = u2  c1 = c1  t1 = t1  t2 = t2  Nil = Nil
    Databases <- MCDatabases
    Qqs = {q1, q2}
    Users = {u1, u2}
    Codes = {c1}
    Tasks = {t1, t2}
    MaxCommands = 2
SPECIFICATION FairSpec
INVARIANTS OneQqPerUser GrantedOnly
PROPERTIES ScheduleFollowsBindings

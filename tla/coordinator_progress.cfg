\* One process at a time, killed finitely often, against an operator who keeps retrying.
SPECIFICATION FairSpec
CONSTANTS
    q1 = q1
    q2 = q2
    Proc = {p1}
    Dir = {d1, d2}
    Psbt = {q1}
    SlotsOf <- MCSlotsOf
    Network = {regtest}
    Session = {s1, s2}
    OutPath <- OnePath
    Variant = {0, 1}
    MaxDamage = 0
    Absent = Absent
    MaxSlots = 2
    MaxSlotsPerInput = 1
PROPERTY
    SessionsComplete
CHECK_DEADLOCK FALSE

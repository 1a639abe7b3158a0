\* Two processes on one session directory at once.
SPECIFICATION Spec
CONSTANTS
    q1 = q1
    q2 = q2
    Proc = {p1, p2}
    Dir = {d1}
    Psbt = {q2}
    SlotsOf <- MCSlotsOf
    Network = {regtest}
    Session = {s1, s2}
    OutPath <- OnePath
    Variant = {0, 1}
    MaxDamage = 0
    Absent = Absent
    MaxSlots = 2
    MaxSlotsPerInput = 1
INVARIANTS
    TranscriptInv
    SignedTweaked
SYMMETRY DirSessionProcSymmetry
CHECK_DEADLOCK FALSE

\* One process at a time, two sessions of two PSBTs, one damaged original.
SPECIFICATION Spec
CONSTANTS
    q1 = q1
    q2 = q2
    Proc = {p1}
    Dir = {d1, d2}
    Psbt = {q1, q2}
    SlotsOf <- MCSlotsOf
    Network = {regtest}
    Session = {s1, s2}
    OutPath <- TwoPaths
    Variant = {0, 1}
    MaxDamage = 1
    Absent = Absent
    MaxSlots = 2
    MaxSlotsPerInput = 1
INVARIANTS
    TypeOK
    CommitmentDurable
    OneReveal
    PersistBeforeReveal
    SignedFromReveal
    CompletionOrder
PROPERTIES
    ImplementsCeremony
SYMMETRY DirSessionSymmetry
CHECK_DEADLOCK FALSE

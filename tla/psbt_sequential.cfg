\* One process at a time, two sessions, an original that may be damaged.
SPECIFICATION Spec
CONSTANTS
    q1 = q1
    q2 = q2
    q3 = q3
    Commands = {"init", "init_psbt", "reveal", "prepare", "verify", "verify_psbt"}
    Proc = {p1}
    Dir = {d1, d2}
    Psbt = {q1, q3}
    SlotsOf <- MCSlotsOf
    Importable = {q1, q3}
    Session = {s1, s2}
    OutPath = {o1}
    Variant = {0, 1}
    MaxDamage = 1
    Absent = Absent
INVARIANTS
    TypeOK
    PackageBound
    ReceiptOrder
PROPERTIES
    ImplementsCeremony
SYMMETRY DirSessionSymmetry
CHECK_DEADLOCK FALSE

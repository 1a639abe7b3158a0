\* The ceremony of one bound session reaches its verified receipt.
SPECIFICATION FairSpec
CONSTANTS
    q1 = q1
    q2 = q2
    q3 = q3
    Commands = {"init", "init_psbt", "reveal", "prepare", "verify", "verify_psbt"}
    Proc = {p1}
    Dir = {d1}
    Psbt = {q1, q2}
    SlotsOf <- MCSlotsOf
    Importable = {q1}
    Session = {s1}
    OutPath = {o1}
    Variant = {0, 1}
    MaxDamage = 0
    Absent = Absent
PROPERTIES
    BoundSessionsComplete
CHECK_DEADLOCK FALSE

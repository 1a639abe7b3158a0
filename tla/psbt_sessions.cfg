\* Two processes creating and running two sessions in one directory at once.
SPECIFICATION Spec
CONSTANTS
    q1 = q1
    q2 = q2
    q3 = q3
    Commands = {"init_psbt", "reveal", "verify_psbt"}
    Proc = {p1, p2}
    Dir = {d1}
    Psbt = {q1, q3}
    SlotsOf <- MCSlotsOf
    Importable = {q1, q3}
    Session = {s1, s2}
    OutPath = {o1}
    Variant = {0}
    MaxDamage = 0
    Absent = Absent
INVARIANTS
    TranscriptInv
    
SYMMETRY SessionProcSymmetry
CHECK_DEADLOCK FALSE

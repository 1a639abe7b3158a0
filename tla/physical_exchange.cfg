\* Two run directories, one card: kills, failing signers, a cleared card.
SPECIFICATION FairSpec
CONSTANTS
    r1 = r1
    r2 = r2
    Run = {r1, r2}
    MaxFaults = 2
    MaxClears = 1
    Absent = Absent
INVARIANTS
    MarkerAnnounces
    RevealBacked
    ReceiptsAgree
PROPERTIES
    ExchangesFinish

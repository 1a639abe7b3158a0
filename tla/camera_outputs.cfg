\* Repeated scans with changing arguments, cut short anywhere, onto one set of files.
SPECIFICATION ProgressSpec
CONSTANTS
    Stream = {wanted, stale, rungb, foreign, unread, partial}
    Fragments <- MCFragments
    Content <- MCContent
    Shown <- MCShown
    Arguments <- MCArguments
    MaxCandidates = 3
    MaxScans = 3
    Message <- MCMessage
    Encoding <- MCEncoding
    Network = {Testnet3, Testnet4}
    RungBNetwork = {Testnet3}
    Testnet3 = Testnet3
    Testnet4 = Testnet4
    Octet <- MCOctet
    PsbtMagic = PsbtMagic
    a = a
    b = b
    c = c
    d = d
    e = e
    wanted = wanted
    stale = stale
    rungb = rungb
    foreign = foreign
    unread = unread
    partial = partial
    MaxMessageBytes = 3
    MaxPsbtBytes = 2
    Absent = Absent
    Rejected = Rejected
    NotByteString = NotByteString
INVARIANTS
    CandidatesWait
    CameraReleased
    OutputsAgree
    CompleteMeansWritten
PROPERTIES
    ScansComplete
\* The last scan is over.
CHECK_DEADLOCK FALSE

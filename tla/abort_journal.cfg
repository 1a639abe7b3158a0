\* Three sessions on one journal; the longest reason does not fit its length field.
SPECIFICATION Spec
CONSTANTS
    Handle = {h1, h2, h3}
    Session <- MCSession
    Reason <- MCReason
    SignatureRejected <- MCSignatureRejected
    Transcript = {t1, t2}
    MaxLength = 2
    None = None
INVARIANTS
    TypeOK
    OneEventEach
    RetryExact
    DigestSeparates
PROPERTIES
    HistoryKept
    UnseenAbortRevokes
SYMMETRY HandleSymmetry

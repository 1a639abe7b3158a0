\* Packages of both protocols, damaged up to three times.
SPECIFICATION Spec
CONSTANTS
    Message <- MCMessage
    Encoding <- MCEncoding
    Network = {Testnet3, Signet, Testnet4}
    RungBNetwork = {Testnet3, Signet}
    Testnet3 = Testnet3
    Signet = Signet
    Testnet4 = Testnet4
    Octet <- MCOctet
    PsbtMagic = PsbtMagic
    a = a
    b = b
    c = c
    d = d
    e = e
    f = f
    g = g
    MaxMessageBytes = 3
    MaxPsbtBytes = 2
    Absent = Absent
    Rejected = Rejected
    Psbt <- MCPsbt
    MaxDamage = 3
INVARIANTS
    Canonical
    RoundTrip
    DamageDetected
    BoundToMessage

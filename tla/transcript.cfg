\* The fixture's session with one thing going wrong; other PSBTs and many choices of hash
\* functions without.
SPECIFICATION Spec
CONSTANTS
    Testnet4 = Testnet4
    Mainnet = Mainnet
    FieldP = 43
    GroupN = 31
    Generator <- MCGenerator
    Bytes32 = 64
    Invalid = Invalid
    Skipped = Skipped
    DataHash <- MCDataHash
    PointHash <- MCPointHash
    NonceBlocks <- MCNonceBlocks
    Absent = Absent
    Rejected = Rejected
    Network = {Testnet4, Mainnet}
    MaxSlots = 5
    MaxSlotsPerInput = 3
    MaxMultisigKeys = 3
    SIGHASH_NONE = 2
    PsbtOf <- MCPsbtOf
    Root <- MCRoot
    Scenario <- MCScenario
    Fixture = "fixture"
    Mutated <- MCMutated
    Rho <- MCRho
    s1 = s1
    s2 = s2
    SessionId = s1
    OtherSession = s2
    TestNetwork = Testnet4
    DeviceNetworks = {Testnet4}
    Junk <- MCJunk
    Exposed <- MCExposed
    OwnNonces <- MCOwnNonces
INVARIANTS
    OneReading
    HonestNotRefused
    SignedSlots
    CorpusRefused
CHECK_DEADLOCK FALSE

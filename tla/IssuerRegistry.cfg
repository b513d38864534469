SPECIFICATION Spec
CONSTANTS
    IssuerIds = {gov, bank}
    PubkeyHashes = {key1, key2}
    Addresses = {deployer, other}
    Deployer = deployer
    Zero = Zero
    MaxTimestamp = 3
    MaxEvents = 5
INVARIANTS
    TypeOK
    EventsExplainStorage
    EventsAlternate
PROPERTIES
    ImplementsTrustedIssuers
CHECK_DEADLOCK FALSE

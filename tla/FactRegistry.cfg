SPECIFICATION Spec
CONSTANTS
    verifier = verifier
    ageFact = ageFact
    root = root
    schema = schema
    alice = alice
    bob = bob
    n1 = n1
    n2 = n2
    n3 = n3
    n4 = n4
    cutoff = cutoff
    Addresses = {holder, relayer}
    Zero = Zero
    MaxTimestamp = 4
    Calls <- MCCalls
    Verify <- MCVerify
INVARIANTS
    TypeOK
    NullifierSpentOnce
    EventsTellFacts
PROPERTIES
    RevivedOnlyByUnusedNullifier
    ImplementsLedger
CHECK_DEADLOCK FALSE

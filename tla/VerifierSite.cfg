SPECIFICATION FairSpec
CONSTANTS
    root = root
    schema = schema
    session1 = session1
    session2 = session2
    holder = holder
    Zero = Zero
    MaxTimestamp = 2
    Addresses = {holder}
    Width = 2
    Ahead = 0
    Calls <- MCCalls
    Verify <- MCVerify
    Texts <- MCTexts
    Configs <- MCConfigs
INVARIANTS
    ShownWasTrue
    VerifiedWasValid
    OneAtATime
PROPERTIES
    LookupEnds
CHECK_DEADLOCK FALSE

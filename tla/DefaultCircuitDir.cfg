SPECIFICATION Spec
CONSTANTS
    main = main
    other = other
    relative = relative
    current = current
    gov = gov
    bank = bank
    keyGov = keyGov
    keyBank = keyBank
    keyOld = keyOld
    secretA = secretA
    secretB = secretB
    hugeSecret = hugeSecret
    verifier = verifier
    ageFact = ageFact
    schema = schema
    rootBefore = rootBefore
    Zero = Zero
    NoField = NoField
    Missing = Missing
    Torn = Torn
    Directory = Directory
    Oversized <- MCOversized
    TreeDepth = 1
    U64 = 8
    Validity = 3
    MaxRuns = 1
    Procs = {main}
    Width <- MCWidth
    Poseidon <- MCPoseidon
    EddsaVerify <- MCEddsaVerify
    JobsOf <- MCJobsOf
    Cwd <- MCCwd
    BbOutput <- MCBbOutput
    NoirCircuitDir <- DefaultDir
INVARIANTS
    EntitledGetsPackage
CHECK_DEADLOCK FALSE

SPECIFICATION Spec
CONSTANTS
    alice = alice
    aliceAgain = aliceAgain
    bob = bob
    verifier = verifier
    ageFact = ageFact
    root = root
    schema = schema
    tagA = tagA
    tagB = tagB
    session1 = session1
    session2 = session2
    cutoff = cutoff
    account0 = account0
    account1 = account1
    Zero = Zero
    Missing = Missing
    Torn = Torn
    MaxTimestamp = 2
    AutoMine = FALSE
    Addresses = {account0, account1}
    Procs = {alice}
    MaxRuns = 1
    Account <- SharedAccount
    Calls <- MCCalls
    Verify <- MCVerify
    GasOf <- MCGasOf
    CommandsOf <- MCCommandsOf
    PackagesOf <- MCPackagesOf
    Cwd <- MCCwd
INVARIANTS
    FlowComplete
CHECK_DEADLOCK FALSE

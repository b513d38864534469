SPECIFICATION Spec
CONSTANTS
    leafA = leafA
    leafB = leafB
    Zero = Zero
    TreeDepth = 2
    MaxIssuers = 5
    Leaves = {leafA, leafB}
    Width <- MCWidth
    Poseidon <- MCPoseidon
INVARIANTS
    PathLeadsToRoot
    PanicExactlyBeyondCapacity
    RootIsReference
    LoopsAgree
CHECK_DEADLOCK FALSE

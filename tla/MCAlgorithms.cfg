SPECIFICATION AlgorithmsSpec
CONSTANTS
    AddrBits <- MCAddrBits
    ClusterSubnetMaxDiff = 4
    Ranges <- MCRanges
    Inputs <- MCInputs
    CCSpec <- QueueSpecs
    MinPerNodeHostBits = 1
INVARIANTS TypeOK CountExact LoopsMeetClosedForm AllocateMeetsClosedForm
INVARIANTS BlocksExact IndicesExact OverlapsExact HeapSorts
INVARIANTS ValidSpecsUsable ValidSelectorsConvert DefaultIsValid
PROPERTY CallsReturn

SPECIFICATION Spec
CONSTANTS
    AddrBits <- MCAddrBits
    ClusterSubnetMaxDiff = 16
    CCSpec <- LifeSpecs
    CCNames = {"c1", "c2"}
    Nodes = {n1, n2}
    None = None
    LabelSets = {{"a"}}
    ForeignCIDRs = {}
    Scenarios <- InDoubtPatch
    CidrUpdateRetries = 2
    ServiceCIDRs = {}
    DefaultCC = "c2"
SYMMETRY NodeSymmetry
INVARIANT NoOverlap
CHECK_DEADLOCK FALSE

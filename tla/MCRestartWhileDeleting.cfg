SPECIFICATION Spec
CONSTANTS
    AddrBits <- MCAddrBits
    ClusterSubnetMaxDiff = 16
    CCSpec <- LifeSpecs
    CCNames = {"c1", "c2"}
    Nodes = {n1, n2}
    None = None
    LabelSets = {{"a"}}
    ForeignCIDRs = {}
    Scenarios <- RestartWhileDeleting
    CidrUpdateRetries = 2
    ServiceCIDRs = {}
    DefaultCC = "c2"
SYMMETRY NodeSymmetry
PROPERTY DeletedOnlyUnused
CHECK_DEADLOCK FALSE

SPECIFICATION Spec
CONSTANTS
    AddrBits <- MCAddrBits
    ClusterSubnetMaxDiff = 16
    CCSpec <- LifeSpecs
    CCNames = {"c1", "c2"}
    Nodes = {n1, n2}
    None = None
    LabelSets = {{"a"}}
    ForeignCIDRs = {}
    Scenarios <- TerminatingDefault
    CidrUpdateRetries = 2
    ServiceCIDRs = {}
    DefaultCC = "c2"
SYMMETRY NodeSymmetry
PROPERTY NotFromTerminating
CHECK_DEADLOCK FALSE

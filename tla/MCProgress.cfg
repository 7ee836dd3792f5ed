SPECIFICATION FairSpec
CONSTANTS
    AddrBits <- MCAddrBits
    ClusterSubnetMaxDiff = 16
    CCSpec <- DefaultSpec
    CCNames = {"c1"}
    Nodes = {n1, n2}
    None = None
    LabelSets = {{"a"}}
    ForeignCIDRs = {}
    Scenarios <- ProgressScenarios
    CidrUpdateRetries = 2
    ServiceCIDRs = {}
    DefaultCC = "c1"
INVARIANT NoLeak
PROPERTY EventuallyAssigned
CHECK_DEADLOCK FALSE

SPECIFICATION FairSpec
CONSTANTS
    AddrBits <- MCAddrBits
    ClusterSubnetMaxDiff = 16
    CCSpec <- LifeSpecs
    CCNames = {"c1", "c2"}
    Nodes = {n1}
    None = None
    LabelSets = {{"a"}}
    ForeignCIDRs = {}
    Scenarios <- StuckDeletion
    CidrUpdateRetries = 2
    ServiceCIDRs = {}
    DefaultCC = "c2"
PROPERTY DeletionCompletes
CHECK_DEADLOCK FALSE

SPECIFICATION Spec
CONSTANTS
    AddrBits <- WideAddrBits
    ClusterSubnetMaxDiff = 16
    CCSpec <- FamiliesSpecs
    CCNames = {"c1", "c2"}
    Nodes = {n1}
    None = None
    LabelSets = {{"a"}}
    ForeignCIDRs = {}
    Scenarios <- TwoFamilies
    CidrUpdateRetries = 2
    ServiceCIDRs = {}
    DefaultCC = "c2"
PROPERTY FewerIPsFirst
CHECK_DEADLOCK FALSE

SPECIFICATION Spec
CONSTANTS
    AddrBits <- MCAddrBits
    ClusterSubnetMaxDiff = 16
    CCSpec <- MixedSpecs
    CCNames = {"c1", "c2"}
    Nodes = {n1}
    None = None
    LabelSets = {{"a"}, {}}
    ForeignCIDRs <- OtherCIDRs
    Scenarios <- MixedScenarios
    CidrUpdateRetries = 2
    ServiceCIDRs <- MixedServices
    DefaultCC = "c2"
INVARIANTS TypeOK WholeOffers
CHECK_DEADLOCK FALSE

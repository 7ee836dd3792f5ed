SPECIFICATION Spec
CONSTANTS
    AddrBits <- MCAddrBits
    ClusterSubnetMaxDiff = 0
    CCSpec <- SharedSpecs
    CCNames = {"c1", "c2", "c3"}
    Nodes = {n1, n2, n3}
    None = None
    LabelSets = {{"a"}, {}}
    ForeignCIDRs = {}
    Scenarios <- SharedScenarios
    CidrUpdateRetries = 2
    ServiceCIDRs <- SharedServices
    DefaultCC = "c2"
SYMMETRY NodeSymmetry
INVARIANTS NoOverlap HeldMarked ServiceRangeKept
PROPERTIES KeepsPromise ReservationsSettled
CHECK_DEADLOCK FALSE

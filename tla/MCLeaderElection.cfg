SPECIFICATION FairSpec
CONSTANTS
    Processes = {p1, p2}
    Nodes = {n1, n2}
    Blocks = {b1, b2}
    None = None
    Paused = {p1}
    Retries = 2
    Stray <- MCStray
    n1 = n1
    b1 = b1
INVARIANTS OverlapExplained HandoverInv
PROPERTY AllServed

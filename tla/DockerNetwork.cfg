SPECIFICATION Spec
CONSTANTS
    n1 = n1  v1 = v1  v2 = v2  v3 = v3
    noFile = noFile  bad = bad  none = none
    NoFile = noFile  Bad = bad  None = none
    Network = {n1}
    Node = {v1, v2, v3}
    Nodes <- MCNodes
    NonNode = {v3}
    Foreign = {v2}
    Version = {1, 2}
    MaxLoops = 2
    MaxFaults = 1
INVARIANTS TypeOK ExportsAgree NodesAgree NodesHaveKeys
PROPERTIES StartedNodesRun StopClears

SPECIFICATION NodeSpec
CONSTANTS
    a1 = a1  a2 = a2  a3 = a3
    zero = zero  m1 = m1  none = none
    Address = {zero, a1, a2, a3}
    Zero = zero
    Genesis = {a1, a2}
    Moniker = {m1}
    NoMoniker = none
    MaxUint = 255
    MaxNominees = 1
    MaxEvictions = 1
    Delay = 1
    MaxSkip = 1
    MaxItxs = 1
    Faults = TRUE
VIEW NodeState
SYMMETRY Symmetry
CHECK_DEADLOCK FALSE
PROPERTY ImplementsProxy

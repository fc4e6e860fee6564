SPECIFICATION Spec
CONSTANTS
    a1 = a1  a2 = a2  a3 = a3  a4 = a4
    zero = zero  m1 = m1  none = none
    Address = {zero, a1, a2, a3}
    Zero = zero
    Genesis = {a1, a2}
    Moniker = {m1}
    NoMoniker = none
    MaxUint = 255
    MaxNominees = 1
    MaxEvictions = 1
PROPERTY EvictionNoVotesToDate

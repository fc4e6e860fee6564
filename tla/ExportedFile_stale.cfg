SPECIFICATION ExportSpec
CONSTANTS
    a1 = a1  a2 = a2  a3 = a3  a4 = a4
    zero = zero  m1 = m1  none = none
    Address = {zero, a1, a2, a3}
    Zero = zero
    Genesis = {a1, a2}
    Moniker = {m1, none}
    NoMoniker = none
    MaxUint = 255
    MaxNominees = 2
    MaxEvictions = 2
    MaxAccepts = 3
    ShortAddress = {a2}
    UnknownAddress = zero
    ZeroLed <- MCZeroLed
VIEW Stored
INVARIANTS
    UnexplainedIsStaleOrLost NilIfNoMonikerFound
    ElectionsLegal ArraysListElections
PROPERTY MonikerSettled

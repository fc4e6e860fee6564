SPECIFICATION Spec
CONSTANTS
    none = none
    Sizes = {1, 3, 9, 10, 16, 20}
    Networks <- MCNetworks
    NoFile = none
    ZeroLed = {}
    UnknownAddress = 0
INVARIANT FoundersAgree
PROPERTY ParseInventsNothing

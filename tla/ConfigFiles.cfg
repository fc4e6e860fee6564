SPECIFICATION Spec
CONSTANTS
    m1 = m1  m2 = m2  k1 = k1  k2 = k2  n1 = n1  s1 = s1  s2 = s2
    noFile = noFile  bad = bad  noMoniker = noMoniker
    NoFile = noFile  Bad = bad  NoMoniker = noMoniker
    Moniker = {m1, m2}
    Key = {k1, k2}
    Shell = {s1, s2}
    Remote = {n1}
    MaxLoops = 2
    MaxFaults = 1
SYMMETRY Symmetry
INVARIANTS TypeOK KeysKept
PROPERTY NodeOnOneNetwork

SPECIFICATION Spec
CONSTANTS
    Mac = {m1, m2}
    Ip = {a1, a2}
    Name = {n1, n2}
    Host = {h1}
    Vm = {v1, v2}
    MaxLeases = 3
    MaxForwards = 2
    Blank = Blank
    Unset = Unset
    None = None
SYMMETRY Alike
CHECK_DEADLOCK FALSE
INVARIANTS TypeOK AcceptsAcceptable ConfigMatchesPlan LeasesInjective

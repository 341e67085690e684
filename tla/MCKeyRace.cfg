CONSTANTS
    i1 = i1
    i2 = i2
    e1 = e1
    e2 = e2
    Account = {a1, a2}
    Email = {e1, e2}
    Identity = {i1, i2}
    Key = {k1}
    State = {s1}
    Worker = {w1, w2}
    Addresses <- GoogleAddresses
    None = None
SPECIFICATION Spec
SYMMETRY Symmetry
INVARIANTS
    KeyNamesOneAccount

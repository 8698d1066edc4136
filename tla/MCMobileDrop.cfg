SPECIFICATION Spec
CONSTANTS
    Session = {s1, s2}
    Token = {k1, k2, k3, k4}
    None = None
    Slot = {i1, i2}
    Request = {q1, q2}
    MaxDrops = 1
    MaxKills = 0
    MaxFaults = 0
    MaxRemote = 0
    MaxExpiries = 0
    MaxTroubles = 1
INVARIANT DropIsTransient
CHECK_DEADLOCK FALSE

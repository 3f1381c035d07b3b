CONSTANTS
    Keys = {k1, k2, k3}
    Operators = {o1, o2, o3}
    Managers = {m1, m2}
    MinVotes = 2
    MaxDeletes = 1
    NoSender = NoSender
    NoManager = NoManager
SPECIFICATION Spec
INVARIANT NoResurrection

SYMMETRY Symmetry

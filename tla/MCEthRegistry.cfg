CONSTANTS
    Owners = {o1, o2}
    Groups = {g1}
    Accts = {a1, a2, a3, a4}
    EthKeys = {e1, e2, e3, e4}
    NoGroup = NoGroup
    Stamp = Stamp
    Uninit = Uninit
    Cleared = Cleared
    MaxApprovals = 3
    Absent = Absent
SPECIFICATION Spec
PROPERTIES MembershipRefined
SYMMETRY Symmetry
CHECK_DEADLOCK FALSE

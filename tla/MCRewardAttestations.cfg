CONSTANTS
    Keys = {k1, k2, k3}
    Operators = {o1, o2, o3}
    Managers = {m1}
    MinVotes = 2
    MaxDeletes = 2
    NoSender = NoSender
    NoManager = NoManager
    Ids = {i1}
    Recipients = {r1}
    Amounts = {1, 2}
    Reward <- MCReward
    MaxMessages = 4
SPECIFICATION ASpec
INVARIANT PaidAsAttested
CONSTRAINT ManagerSendersOnly
SYMMETRY Symmetry
CHECK_DEADLOCK FALSE

CONSTANTS
    Users = {u1, u2}
    Attacker = attacker
    Dests = {d1, d2}
    Amounts = {1}
    MaxNonce = 2
    MaxBalance = 1
    NoAccount = NoAccount
    Occupied = Occupied
SPECIFICATION Spec
INVARIANT BankAlwaysCreatable
CHECK_DEADLOCK FALSE

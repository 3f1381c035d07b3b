CONSTANTS
    Victim = victim
    Attacker = attacker
    Msgs <- MCMsgs
    VictimSigned <- MCVictimSigned
    Dests <- MCDests
    MaxCompanions = 2
SPECIFICATION Spec
INVARIANT BindingSound
CHECK_DEADLOCK FALSE

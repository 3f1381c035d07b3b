CONSTANTS
    Dests = {"d1"}
    Amounts = {0, 1, 2}
    MaxNonce = 2
    Balance = 2
    FieldOrder <- MCFieldOrder
    Foreign <- MCForeign
SPECIFICATION Spec
INVARIANT PaidOnlySignedOrders
CHECK_DEADLOCK FALSE

SPECIFICATION MCSpec
CONSTANTS
    Orders = {o1}
    Workers = {w1, w2}
    NoOrder = NoOrder
    Types = {"balance", "subscription"}
    MaxPending = 1
    MaxFaults = 2
    StartDays = 0
    Refunds = {r1, r2}
    Amount = 2
    StartHolding = {0, 1, 3}
    MaxDebits = 1
    MaxRefundFaults = 3
CHECK_DEADLOCK FALSE
INVARIANTS BalanceCreditedOnce CreditNeedsPayment OrdersSound OneRefundAtATime RefundsSound
PROPERTY OrdersSettle

CONSTANTS
    p1 = p1
    p2 = p2
    Processes = {p1, p2}
    Orders <- AllOrders
    Writers = {w1, w2}
    Operators = {o1, o2}
    Batches = {b1, b2}
    Nothing = Nothing
    MinBalance = 0
    StartBalance = 1
SPECIFICATION MCSpec
SYMMETRY Symmetry
INVARIANTS
    TypeOK
    OneExternalEffect
    PaymentOutcomeIsTrue
    RefundOutcomeIsTrue
    RowsAgree
    PaidKeepsReference
    SwitchSound
PROPERTIES
    SettledIsFinal
    FencedMoneyStands

SPECIFICATION Spec
CONSTANTS
    Writers = {w1}
    Operators = {o1}
    Batches = {b1}
    Nothing = Nothing
    MinBalance = 0
    StartBalance = 2
INVARIANT FreezeLeavesNoOpenOrder

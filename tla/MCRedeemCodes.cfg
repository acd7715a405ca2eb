SPECIFICATION MCSpec
CONSTANTS
    Calls = {c1, c2}
    Saves = {s1, s2}
    Users = {u1, u2}
    NoUser = NoUser
    Values <- Worths
    StartBalance = 1
    MaxErrors = 1
    MaxDebits = 1
SYMMETRY Symmetry
INVARIANTS PaidOncePerRow AnswersSound BalanceAddsUp
CHECK_DEADLOCK FALSE

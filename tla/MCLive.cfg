CONSTANTS
    p = p
    e = e
    w = w
    Processes = {p}
    Orders <- LiveOrders
    Execs = {e}
    MediaExecs = {e}
    Workers = {w}
    NoExec = NoExec
    NoWorker = NoWorker
SPECIFICATION MCSpec
PROPERTIES OutcomeArrives DecisionArrives

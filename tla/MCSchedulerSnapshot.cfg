SPECIFICATION MCSpec
CONSTANTS
    w1 = w1
    w2 = w2
    p1 = p1
    p2 = p2
    full = full
    r1 = r1
    Writers = {w1, w2}
    Pollers = {p1, p2}
    Rebuilders = {full}
    Readers = {r1}
    Kinds = {"changed", "limited", "groups", "unbound", "credentials", "used", "group", "paused", "model"}
    BatchSize = 2
    MaxFaults = 1
PROPERTIES ReplaySafe CacheConverges
CHECK_DEADLOCK FALSE

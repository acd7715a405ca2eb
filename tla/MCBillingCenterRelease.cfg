CONSTANTS
    e1 = e1
    e2 = e2
    w1 = w1
    w2 = w2
    Execs = {e1, e2}
    MediaExecs = {e1}
    Workers = {w1}
    NoExec = NoExec
    NoWorker = NoWorker
SPECIFICATION Spec
PROPERTY ReleaseOnlyBeforeDispatch

\* The pool of stored objects is a bound: the system may stop where it is used up.
CHECK_DEADLOCK FALSE
SPECIFICATION Spec
CONSTANTS
    Keys = {k1}
    Objects = {e1, e2}
    Threads = {t1, t2}
    None = None
SYMMETRY Symmetry
INVARIANTS
    EveryLeavingTold

CONSTANTS
    Reqs = {g1, g2}
    Objs = {o1, o2, o3, o4}
    Flusher = Flusher
    Nil = Nil
    Modes <- TickerModes
SPECIFICATION Spec
INVARIANT CollectionExclusion
SYMMETRY Symmetry
CHECK_DEADLOCK FALSE

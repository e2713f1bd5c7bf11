CONSTANTS
    Reqs = {g1, g2, g3}
    Objs = {o1, o2}
    Flusher = Flusher
    Nil = Nil
    Modes <- NoLockModes
SPECIFICATION Spec
INVARIANTS TypeOK CollectionExclusion CacheFresh OpenWhileServing SomebodyMoves UnlocksWhatItLocked
SYMMETRY Symmetry

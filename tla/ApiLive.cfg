CONSTANTS
    Reqs = {g1, g2}
    Objs = {o1, o2, o3}
    Flusher = Flusher
    Nil = Nil
    Modes <- LiveModes
SPECIFICATION FairSpec
PROPERTY RequestsServed

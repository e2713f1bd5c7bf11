SPECIFICATION Spec
CONSTANTS
    pa = pa
    pb = pb
    fa = fa
    fb = fb
    Procs = {p1, p2}
    NoProc = NoProc
    Mirrors = {m1}
    Repos = {}
    Snaps = {s1}
    Pubs = {}
    Pkgs = {pa, pb}
    Files = {fa}
    FilesOf <- MCFilesOf
    MaxConf = 1
    MaxComponents = 1
INVARIANTS TypeOK RefsComplete FilesPresent MirrorLock
PROPERTIES NoLostEdit
SYMMETRY Symmetry
CONSTRAINT NotForced

SPECIFICATION Spec
CONSTANTS
    pa = pa
    pb = pb
    fa = fa
    fb = fb
    Procs = {p1, p2}
    NoProc = NoProc
    Mirrors = {m1}
    Repos = {}
    Snaps = {}
    Pubs = {}
    Pkgs = {pa}
    Files = {fa}
    FilesOf <- MCFilesOf
    MaxConf = 0
    MaxComponents = 1
INVARIANT FilesSurviveCleanup
SYMMETRY Symmetry
CONSTRAINT NotForced

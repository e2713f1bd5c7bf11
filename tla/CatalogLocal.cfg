SPECIFICATION Spec
CONSTANTS
    pa = pa
    pb = pb
    fa = fa
    fb = fb
    Procs = {p1}
    NoProc = NoProc
    Mirrors = {}
    Repos = {r1, r2}
    Snaps = {s1, s2, s3}
    Pubs = {u1}
    Pkgs = {pa, pb}
    Files = {fa, fb}
    FilesOf <- MCFilesOf
    MaxConf = 0
    MaxComponents = 2
INVARIANTS FilesPresent MoveLosesNothing PublishedSourcesExist
PROPERTIES SnapshotImmutable
SYMMETRY Symmetry
CONSTRAINT Scope

CONSTANTS
    d1 = d1
    d2 = d2
    c1 = c1
    c2 = c2
    pa = pa
    pb = pb
    pc = pc
    Torn = Torn
    NoDist = NoDist
    Dists = {d1, d2}
    Comps = {c1, c2}
    Archs = {"amd64"}
    Pkgs = {pa, pb, pc}
    Arch <- MCArch
    Paths = {"a", "b"}
    Path <- MCPath
    Configs <- MCConfigs
SPECIFICATION Spec
SYMMETRY Symmetry
INVARIANTS TypeOK IndexComplete SiteConsistent RecordMatchesSite LinksResolve CleanupLeavesNothing
PROPERTIES OthersUntouched

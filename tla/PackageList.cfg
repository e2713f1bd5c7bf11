SPECIFICATION Spec
CONSTANTS
    Pkgs <- MCPkgs
    Attr <- MCAttr
    Cases <- MCCases
    MaxInt = 99
INVARIANTS TypeOK IndexAgrees QueryFindsMatches FilterClosed PullKeeps VersionsOrdered
PROPERTIES FilterTerminates
CHECK_DEADLOCK FALSE

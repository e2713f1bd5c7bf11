SPECIFICATION Spec
CONSTANTS
    Pkgs <- MCPkgs
    Attr <- MCAttr
    Cases <- MCCases
    MaxInt = 9
INVARIANT VerifyPrintsAll
CHECK_DEADLOCK FALSE

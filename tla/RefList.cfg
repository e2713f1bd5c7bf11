CONSTANTS
    Refs <- MCRefs
    SortedLists <- MCSortedLists
    NoRef = NoRef
    Group <- MCGroup
    Short <- MCShort
    Age <- MCAge
SPECIFICATION Spec
CHECK_DEADLOCK FALSE
INVARIANTS TypeOK MergeKeeps MergeOverridesOne FilterKeepsLatest CleanupExact

CONSTANTS
    Refs <- MCRefs
    SortedLists <- MCSortedLists
    NoRef = NoRef
    Group <- MCGroup
    Short <- MCShort
    Age <- MCAge
SPECIFICATION Spec
CHECK_DEADLOCK FALSE
INVARIANT CleanupSparesReferenced

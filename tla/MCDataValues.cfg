SPECIFICATION Spec
CONSTANTS
    MoreAnns <- MCAnns
    GoType <- MCGoType
    Libraries <- MCLibraries
    MaxEvals = 2
INVARIANTS
    Conforms
    ResultIsMerge
    SharingOnlyOfDefaults
    SameEveryTime
    Validated

CHECK_DEADLOCK FALSE

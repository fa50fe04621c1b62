SPECIFICATION Spec
CONSTANTS
    MoreAnns <- MCAnns
    Heaps <- MCHeaps
    Lefts <- MCLefts
    Rights <- MCRights
    MaxApplies = 2
INVARIANTS
    UniqueKeys
    NoSharing
    OnlyLeftChanges
    AppliesByValue

CHECK_DEADLOCK FALSE

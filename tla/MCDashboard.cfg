SPECIFICATION FairSpec
CONSTANTS
    s1 = s1
    s2 = s2
    l1 = l1
    l2 = l2
    Null = Null
    Sources = {s1, s2}
    MaxRetry = 3
    MaxFaults = 2
    Filters <- MCFilters
    Parts <- MCParts
    Loads = {l1, l2}
    MaxVersion = 1
    Silent <- MCSilent
INVARIANTS
    OneSource
    DrawnSeriesFitsRange
PROPERTIES
    StreamComesBack
    FiltersAreAnswered

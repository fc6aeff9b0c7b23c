SPECIFICATION FairSpec
CONSTANTS
    h1 = h1
    h2 = h2
    Hosts = {h1, h2}
    VendorIncidents = {v1}
    HostOf <- MCHostOf
    StaleAfter = 2
    MaxBackoff = 2
    NoState = NoState
    MaxFaults = 3
INVARIANTS
    TypeOK
    OneChainPerHost
    NothingAfterStop
    StaleIsEarned
PROPERTIES
    RowsFollowVendor
    StoredInTheEnd

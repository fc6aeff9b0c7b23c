SPECIFICATION FairSpec
CONSTANTS
    web = web
    base = base
    acme = acme
    p1 = p1
    NoVendor = NoVendor
    NoRow = NoRow
    NoResult = NoResult
    NoFingerprint = NoFingerprint
    NoPartition = NoPartition
    Nobody = Nobody
    Healthy = Healthy
    Alerters = {a1, a2}
    Partitions = {p1}
    PartitionOf <- MCOnePartition
    Checks = {web}
    Regions = {r1}
    Notifiers = {n1}
    Vendors = {acme}
    Causes = {status}
    NetworkCauses = {}
    InitialRow <- MCNoInitialRow
    TagChoices <- MCRetagChoices
    DedupTTL = 2
    HeartbeatTTL = 1
    CacheTTL = 0
    MaxTime = 1
    MaxLog = 2
    MaxFaults = 1
    MaxSaves = 2
INVARIANTS
    OpeningsBecomeIncidents
PROPERTIES
    StaleTagsAreRecent
    AtLeastOnce
    DispatchedUnlessFailed

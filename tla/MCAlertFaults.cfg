SPECIFICATION Spec
CONSTANTS
    web = web
    base = base
    acme = acme
    p1 = p1
    NoVendor = NoVendor
    NoRow = NoRow
    NoResult = NoResult
    NoFingerprint = NoFingerprint
    NoPartition = NoPartition
    Nobody = Nobody
    Healthy = Healthy
    Alerters = {a1, a2}
    Partitions = {p1}
    PartitionOf <- MCOnePartition
    Checks = {web, base}
    Regions = {r1}
    Notifiers = {n1}
    Vendors = {acme}
    Causes = {network}
    NetworkCauses = {network}
    InitialRow <- MCInitialRow
    TagChoices <- MCTagChoices
    DedupTTL = 2
    HeartbeatTTL = 1
    CacheTTL = 3
    MaxTime = 3
    MaxLog = 2
    MaxFaults = 2
    MaxSaves = 0
SYMMETRY MCSymmetry
INVARIANTS
    IncidentsAreSpaced
    NetworkFailuresAreVouched
PROPERTIES
    ImplementsDedupWindow
    CommitsCoverHandledResults

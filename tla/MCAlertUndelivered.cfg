SPECIFICATION FairSpec
CONSTANTS
    web = web
    base = base
    acme = acme
    p1 = p1
    NoVendor = NoVendor
    NoRow = NoRow
    NoResult = NoResult
    NoFingerprint = NoFingerprint
    NoPartition = NoPartition
    Nobody = Nobody
    Healthy = Healthy
    Alerters = {a1}
    Partitions = {p1}
    PartitionOf <- MCOnePartition
    Checks = {base}
    Regions = {r1}
    Notifiers = {n1}
    Vendors = {acme}
    Causes = {status}
    NetworkCauses = {}
    InitialRow <- MCInitialRow
    TagChoices <- MCTagChoices
    DedupTTL = 2
    HeartbeatTTL = 1
    CacheTTL = 3
    MaxTime = 0
    MaxLog = 1
    MaxFaults = 1
    MaxSaves = 0
PROPERTIES
    EveryIncidentIsDispatched

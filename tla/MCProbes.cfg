SPECIFICATION FairSpec
CONSTANTS
    journey = journey
    port = port
    Checks = {journey, port}
    Synthetic <- MCSynthetic
    Unconnectable <- MCUnconnectable
    Probes = {p1, p2}
    Ingestors = {i1, i2}
    Nobody = Nobody
    NoMessage = NoMessage
    MaxTime = 1
    MaxJobs = 3
    MaxFaults = 1
INVARIANTS
    ResultsInOrder
PROPERTIES
    CommitsCoverFinishedWork
    EveryJobIsShown

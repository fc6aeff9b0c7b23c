SPECIFICATION Spec
CONSTANTS
    liveChecks <- MCChecks
    Arrivals <- MCArrivals
    Instants <- MCInstants
    Created <- MCCreated
    Queries <- MCQueries
    Filters <- MCFilters
    Windows <- MCWindows
    Latencies <- MCLatencies
    MaxSamples = 3
    Null = Null
INVARIANTS
    SeriesEndsNow
    HeatmapAgreesWithSeries
    WorstRowsFirst
    StreamAgreesWithSummary
    BudgetsAgree
    ScopesAgree
    PercentileIsNearestRank

SPECIFICATION ListingSpec
CONSTANTS
    acme = acme
    Incidents = {i1}
    Vendors = {acme}
    NoVendor = NoVendor
    VendorOf <- MCVendorOf
    VendorIncidents = {v1}
    ReportedBy <- MCReportedBy
    Statuses = {"identified", "resolved"}
    NoLink = NoLink
    NoRow = NoRow
    Requests = {q1}
    Rounds = {k1}
    Loads = {l1}
    MaxRequests = 1
    MaxFaults = 1
PROPERTIES
    ConfirmedInTheEnd
    ShownInTheEnd

SPECIFICATION Spec
CONSTANTS
    acme = acme
    other = other
    v2 = v2
    Incidents = {i1}
    Vendors = {acme}
    NoVendor = NoVendor
    VendorOf <- MCVendorOf
    VendorIncidents = {}
    ReportedBy <- MCReportedBy
    Statuses = {}
    NoLink = NoLink
    NoRow = NoRow
    Requests = {q1, q2}
    Rounds = {}
    MaxRequests = 2
    MaxFaults = 0
PROPERTIES
    StateNeverMovesBack
CHECK_DEADLOCK FALSE

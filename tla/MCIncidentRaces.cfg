SPECIFICATION Spec
CONSTANTS
    acme = acme
    other = other
    v2 = v2
    Incidents = {i1}
    Vendors = {acme, other}
    NoVendor = NoVendor
    VendorOf <- MCVendorOf
    VendorIncidents = {v1, v2}
    ReportedBy <- MCReportedBy
    Statuses = {"investigating", "resolved"}
    NoLink = NoLink
    NoRow = NoRow
    Requests = {q1, q2}
    Rounds = {k1, k2}
    MaxRequests = 2
    MaxFaults = 1
SYMMETRY MCSymmetry
INVARIANTS
    TypeOK
    ResolvedIffStamped
    ConfirmedIsLinked
    ConfirmationNotesAreBounded
    NotesTellWhatWas
PROPERTIES
    NoLostUpdate

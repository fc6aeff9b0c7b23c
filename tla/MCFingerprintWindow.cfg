SPECIFICATION Spec
CONSTANTS
    Fingerprints = {f1, f2}
    WindowMs = 2
    Instants <- MCInstants
PROPERTIES
    ImplementsDedupWindow

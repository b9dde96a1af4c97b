\* An annotated version is copied.
SPECIFICATION Spec
CONSTANTS
    c1 = c1
    c2 = c2
    Clients = {c1, c2}
    Operations = {"put", "copy", "annotate"}
    Faults <- NoFaults
    MaxFiles = 4
    MaxRows = 3
    MaxCalls = 4
PROPERTIES
    PublishedCopySucceeds
SYMMETRY Symmetry
CHECK_DEADLOCK FALSE

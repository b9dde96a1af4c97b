\* Two clients replace, copy, annotate and delete the versions of one key while
\* the machine or the process dies, barriers and transactions fail and files are
\* in use.
SPECIFICATION Spec
CONSTANTS
    c1 = c1
    c2 = c2
    Clients = {c1, c2}
    Operations = {"put", "create", "copy", "bare", "delete", "purge", "annotate", "unannotate", "status"}
    Faults <- EachKind
    MaxFiles = 4
    MaxRows = 3
    MaxCalls = 4
INVARIANTS
    RowsReadable
    NothingLeaks
PROPERTIES
    OldOrNew
    StartReclaims
SYMMETRY Symmetry
CHECK_DEADLOCK FALSE

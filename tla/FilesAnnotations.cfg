\* Annotations follow the generations they belong to when nothing fails.
SPECIFICATION Spec
CONSTANTS
    Commit = "Process_Crash_Atomic"
    Operations = {"put", "copy", "delete", "retag", "annotate", "unannotate", "status"}
    Faults <- NoFaults
    MaxBodies = 2
    MaxPublications = 3
    MaxOperations = 5
INVARIANTS
    NotesFollow
CHECK_DEADLOCK FALSE

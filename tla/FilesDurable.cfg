\* Mutations under the crashes and errors that may strike: the machine dies,
\* the process dies, also while it recovers, and barriers fail.
SPECIFICATION Spec
CONSTANTS
    Commit = "Power_Loss_Durable"
    Operations = {"copy", "complete", "delete", "retag", "status"}
    Faults <- EachKind
    MaxBodies = 2
    MaxPublications = 3
    MaxOperations = 3
INVARIANTS
    OnePublicationOneFile
    NoTornRecord
PROPERTIES
    OldOrNew
    SuccessIsDurable
    RecoveryCompletes
    GateReleased
CHECK_DEADLOCK FALSE

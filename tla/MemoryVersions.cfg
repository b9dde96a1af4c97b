\* Writers stream while the versioning and the locking of the bucket, its
\* existence, its history, holds and retentions change.
SPECIFICATION Spec
CONSTANTS
    b1 = b1
    b2 = b2
    k1 = k1
    k2 = k2
    v0 = v0
    v1 = v1
    v2 = v2
    c1 = c1
    c2 = c2
    Buckets = {b1}
    Keys = {k1}
    Contents = {v0}
    Assembled = {}
    NoContent = NoContent
    Clients = {c1, c2}
    BucketLimit = 1
    ObjectLimit = 3
    ByteLimit = 6
    MinGrowth = 1
    Chunk = 1
    MaxOrder = 3
    MaxTick = 1
    DocumentSizes = {}
    WriteConditions = {Unconditional}
    DeleteConditions = {Unconditional}
    Attestations = {TRUE, FALSE}
    DeleteAttestations = {FALSE}
    Slips = {}
    Calls = {"CreateBucket", "DeleteBucket", "PutBucketVersioning", "EnableBucketObjectLock", "PutObject", "DeleteObject", "DeleteObjects", "PutObjectLegalHold", "PutObjectRetention"}
    Current = Current
    Null = Null
    Unconditional = Unconditional
    IfAbsent = IfAbsent
    IfPresent = IfPresent
    Length <- LengthOf
SYMMETRY ClientSymmetry
INVARIANTS
    OrdersUnique
    OneNullVersion
    NoHistoryUnversioned
    NoOrphans
    LocksOnlyWhereEnabled
PROPERTIES
    MFADeleteKeepsHistory
    ProtectedStay
    RetentionOnlyGrows

\* The retention date against the clock as it is, not as the code rounds it.
SPECIFICATION Spec
CONSTANTS
    b1 = b1
    b2 = b2
    k1 = k1
    k2 = k2
    v0 = v0
    v1 = v1
    v2 = v2
    c1 = c1
    c2 = c2
    Buckets = {b1}
    Keys = {k1}
    Contents = {v0}
    Assembled = {}
    NoContent = NoContent
    Clients = {c1}
    BucketLimit = 1
    ObjectLimit = 3
    ByteLimit = 6
    MinGrowth = 1
    Chunk = 1
    MaxOrder = 1
    MaxTick = 2
    DocumentSizes = {}
    WriteConditions = {Unconditional}
    DeleteConditions = {Unconditional}
    Attestations = {TRUE}
    DeleteAttestations = {FALSE}
    Slips = {}
    Calls = {"CreateBucket", "PutBucketVersioning", "EnableBucketObjectLock", "PutObject", "DeleteObject", "PutObjectRetention"}
    Current = Current
    Null = Null
    Unconditional = Unconditional
    IfAbsent = IfAbsent
    IfPresent = IfPresent
    Length <- LengthOf
PROPERTIES
    NotReleasedEarly
CHECK_DEADLOCK FALSE

\* Two clients create one key under If-None-Match: * with too few bytes for both;
\* every streaming call ends.
SPECIFICATION FairSpec
CONSTANTS
    b1 = b1
    b2 = b2
    k1 = k1
    k2 = k2
    v0 = v0
    v1 = v1
    v2 = v2
    c1 = c1
    c2 = c2
    Buckets = {b1}
    Keys = {k1}
    Contents = {v2}
    Assembled = {}
    NoContent = NoContent
    Clients = {c1, c2}
    BucketLimit = 1
    ObjectLimit = 2
    ByteLimit = 4
    MinGrowth = 1
    Chunk = 1
    MaxOrder = 2
    MaxTick = 0
    DocumentSizes = {1}
    WriteConditions = {IfAbsent}
    DeleteConditions = {Unconditional}
    Attestations = {TRUE}
    DeleteAttestations = {FALSE}
    Slips = {0}
    Calls = {"CreateBucket", "DeleteBucket", "PutBucketDocument", "DeleteBucketDocument", "PutBucketVersioning", "PutObject", "CopyObject", "PutObjectAnnotation", "DeleteObjectAnnotation"}
    Current = Current
    Null = Null
    Unconditional = Unconditional
    IfAbsent = IfAbsent
    IfPresent = IfPresent
    Length <- LengthOf
INVARIANTS
    CreateOnce
PROPERTIES
    EveryCallReturns

\* Two clients stream, grow, copy, annotate, read and fail against a budget
\* that is too small for all of them.
SPECIFICATION Spec
CONSTANTS
    b1 = b1
    b2 = b2
    k1 = k1
    k2 = k2
    v0 = v0
    v1 = v1
    v2 = v2
    c1 = c1
    c2 = c2
    Buckets = {b1}
    Keys = {k1}
    Contents = {v1, v2}
    Assembled = {}
    NoContent = NoContent
    Clients = {c1, c2}
    BucketLimit = 1
    ObjectLimit = 2
    ByteLimit = 6
    MinGrowth = 1
    Chunk = 1
    MaxOrder = 2
    MaxTick = 0
    DocumentSizes = {1}
    WriteConditions = {Unconditional}
    DeleteConditions = {Unconditional}
    Attestations = {FALSE}
    DeleteAttestations = {FALSE}
    Slips = {0, 1}
    Calls = {"CreateBucket", "DeleteBucket", "PutBucketPolicy", "PutObject", "GetObject", "CopyObject", "PutObjectAnnotation", "DeleteObject", "DeleteBucketPolicy", "DeleteObjectAnnotation"}
    Current = Current
    Null = Null
    Unconditional = Unconditional
    IfAbsent = IfAbsent
    IfPresent = IfPresent
    Length <- LengthOf
SYMMETRY ClientSymmetry
INVARIANTS
    TypeOK
    CapacityBound
    Accounting

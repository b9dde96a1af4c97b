\* Completions publish generations under every versioning, beside other writers,
\* holds and deletions.
SPECIFICATION MultipartSpec
CONSTANTS
    b1 = b1
    b2 = b2
    k1 = k1
    k2 = k2
    v0 = v0
    v1 = v1
    v2 = v2
    c1 = c1
    c2 = c2
    Buckets = {b1}
    Keys = {k1}
    Contents = {v1}
    NoContent = NoContent
    Clients = {c1}
    BucketLimit = 1
    ObjectLimit = 2
    ByteLimit = 5
    MinGrowth = 1
    Chunk = 2
    MaxOrder = 2
    MaxTick = 0
    DocumentSizes = {}
    WriteConditions = {Unconditional, IfAbsent}
    DeleteConditions = {Unconditional, IfPresent}
    Attestations = {TRUE}
    DeleteAttestations = {FALSE}
    Slips = {}
    Calls = {"CreateBucket", "DeleteBucket", "PutBucketVersioning", "EnableBucketObjectLock", "PutObjectLegalHold", "PutObject", "DeleteObject", "CreateMultipartUpload", "UploadPart", "UploadPartCopy", "CompleteMultipartUpload", "AbortMultipartUpload"}
    Current = Current
    Null = Null
    Unconditional = Unconditional
    IfAbsent = IfAbsent
    IfPresent = IfPresent
    PartNumbers = {1}
    MinPart = 1
    MaxUpload = 2
    Length <- LengthOf
    Assembled <- AssembledBodies
INVARIANTS
    UploadsHaveBuckets
PROPERTIES
    ProtectedStay

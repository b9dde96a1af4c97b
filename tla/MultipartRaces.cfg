\* Two clients stream parts while uploads are completed and aborted.
SPECIFICATION MultipartSpec
CONSTANTS
    b1 = b1
    b2 = b2
    k1 = k1
    k2 = k2
    v0 = v0
    v1 = v1
    v2 = v2
    c1 = c1
    c2 = c2
    Buckets = {b1}
    Keys = {k1}
    Contents = {v1, v2}
    NoContent = NoContent
    Clients = {c1, c2}
    BucketLimit = 1
    ObjectLimit = 2
    ByteLimit = 4
    MinGrowth = 1
    Chunk = 2
    MaxOrder = 1
    MaxTick = 0
    DocumentSizes = {}
    WriteConditions = {Unconditional}
    DeleteConditions = {Unconditional}
    Attestations = {FALSE}
    DeleteAttestations = {FALSE}
    Slips = {}
    Calls = {"CreateBucket", "DeleteBucket", "DeleteObject", "CreateMultipartUpload", "UploadPart", "CompleteMultipartUpload", "AbortMultipartUpload"}
    Current = Current
    Null = Null
    Unconditional = Unconditional
    IfAbsent = IfAbsent
    IfPresent = IfPresent
    PartNumbers = {1, 2}
    MinPart = 2
    MaxUpload = 2
    Length <- LengthOf
    Assembled <- AssembledBodies
INVARIANTS
    StagedAccounting
    PartsHaveUploads
PROPERTIES
    IdsNameOneUpload
    PartsStayWithUpload
    PublishesStagedParts

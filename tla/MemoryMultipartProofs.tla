------------------------- MODULE MemoryMultipartProofs -------------------------
(***************************************************************************)
(* For every number of buckets, keys, clients, uploads and parts: uploads  *)
(* and their parts keep together and keep their bucket, however streams,   *)
(* completions, aborts and the administration of buckets interleave.  This *)
(* part needs neither the generations nor the byte budget.                 *)
(*                                                                         *)
(* With the invariants of MemoryVersionProofs, which every step of the     *)
(* uploads keeps as well: the budget is never exceeded and every byte of   *)
(* it is owed, protected generations stay, and a completion publishes what *)
(* is staged.                                                              *)
(***************************************************************************)
EXTENDS MemoryMultipart, MemoryVersionProofs

\* Upload numbers are given out in ascending order.
UploadsNumbered ==
    /\ nextUpload \in Nat
    /\ \A u \in uploads : u.id \in 1..nextUpload /\ u.bucket \in Buckets

\* A part is stored under a live upload.
PartsOwned == \A p \in parts : \E u \in uploads : u.id = p.upload

\* An upload has its number, and its parts theirs, to itself.
UploadsAndPartsUnique ==
    /\ \A u, w \in uploads : u.id = w.id => u = w
    /\ \A p, q \in parts :
            p.upload = q.upload /\ p.number = q.number => p = q

BucketsTyped == buckets \in [Buckets -> Bucket]

MultipartInv ==
    /\ BucketsTyped /\ UploadsNumbered
    /\ PartsOwned /\ UploadsHaveBuckets /\ UploadsAndPartsUnique

\* An upload that lasts keeps its part numbers.
PartsStay ==
    \A u \in uploads \cap uploads', p \in parts :
        p.upload = u.id =>
            \E q \in parts' : q.upload = u.id /\ q.number = p.number

\* What a step has to keep.
KeepsTogether == MultipartInv' /\ PartsStay

(***************************************************************************)
(* Steps of the store                                                      *)
(***************************************************************************)
\* Buckets that are in use stay so.
BucketsStay ==
    /\ BucketsTyped'
    /\ \A b \in Buckets : buckets[b].used => buckets'[b].used

LEMMA SameUploads ==
    ASSUME MultipartInv, BucketsStay, UNCHANGED multipartVars
    PROVE  KeepsTogether
<1>1. uploads' = uploads /\ parts' = parts /\ nextUpload' = nextUpload
  BY DEF multipartVars
<1>2. PartsStay
  BY <1>1 DEF PartsStay
<1> QED
  BY <1>1, <1>2 DEF KeepsTogether, MultipartInv, BucketsStay, UploadsNumbered,
     PartsOwned, UploadsHaveBuckets, UploadsAndPartsUnique

LEMMA SameBuckets ==
    ASSUME MultipartInv, UNCHANGED buckets
    PROVE  BucketsStay
BY DEF BucketsStay, MultipartInv, BucketsTyped

\* The administration of a bucket changes fields of its record other than used.
LEMMA BucketNextKeeps ==
    ASSUME MultipartInv, BucketNext
    PROVE  BucketsStay
<1>1. PICK b \in Buckets :
        \/ CreateBucket(b)
        \/ \E s \in Statuses, f \in MFAStates, v \in Attestations :
                PutBucketVersioning(b, s, f, v)
        \/ EnableBucketObjectLock(b)
        \/ \E n \in DocumentSizes :
                PutBucketPolicy(b, n) \/ PutBucketDocument(b, n)
        \/ DeleteBucketPolicy(b)
        \/ DeleteBucketDocument(b)
  BY DEF BucketNext
<1>2. buckets \in [Buckets -> Bucket] /\ buckets[b] \in Bucket
  BY DEF MultipartInv, BucketsTyped
<1>3. ASSUME NEW r \in Bucket, buckets' = [buckets EXCEPT ![b] = r],
             buckets[b].used => r.used
      PROVE  BucketsStay
  BY <1>2, <1>3 DEF BucketsStay, BucketsTyped
<1>4. CASE CreateBucket(b)
  <2> DEFINE r == [buckets[b] EXCEPT !.used = TRUE]
  <2>1. r \in Bucket /\ r.used
    BY <1>2 DEF Bucket
  <2> QED
    BY <1>3, <1>4, <2>1 DEF CreateBucket
<1>5. ASSUME NEW s \in Statuses, NEW f \in MFAStates, NEW v,
             PutBucketVersioning(b, s, f, v)
      PROVE  BucketsStay
  <2> DEFINE r == [buckets[b] EXCEPT
                      !.versioning = Merged(@, s), !.mfa = Merged(@, f)]
  <2>1. r \in Bucket /\ r.used = buckets[b].used
    BY <1>2 DEF Bucket, Merged, Statuses, MFAStates
  <2> QED
    BY <1>3, <1>5, <2>1 DEF PutBucketVersioning
<1>6. CASE EnableBucketObjectLock(b)
  <2> DEFINE r == [buckets[b] EXCEPT !.lock = TRUE]
  <2>1. r \in Bucket /\ r.used = buckets[b].used
    BY <1>2 DEF Bucket
  <2> QED
    BY <1>3, <1>6, <2>1 DEF EnableBucketObjectLock
<1>7. ASSUME NEW n \in Nat, buckets' = [buckets EXCEPT ![b].policy = n]
      PROVE  BucketsStay
  <2> DEFINE r == [buckets[b] EXCEPT !.policy = n]
  <2>1. r \in Bucket /\ r.used = buckets[b].used
    BY <1>2 DEF Bucket
  <2> QED
    BY <1>3, <1>7, <2>1
<1>8. ASSUME NEW n \in Nat, buckets' = [buckets EXCEPT ![b].document = n]
      PROVE  BucketsStay
  <2> DEFINE r == [buckets[b] EXCEPT !.document = n]
  <2>1. r \in Bucket /\ r.used = buckets[b].used
    BY <1>2 DEF Bucket
  <2> QED
    BY <1>3, <1>8, <2>1
<1>9. ASSUME NEW n \in DocumentSizes,
             PutBucketPolicy(b, n) \/ PutBucketDocument(b, n)
      PROVE  BucketsStay
  BY <1>7, <1>8, <1>9, SizesAssumption DEF PutBucketPolicy, PutBucketDocument
<1>10. CASE DeleteBucketPolicy(b) \/ DeleteBucketDocument(b)
  BY <1>7, <1>8, <1>10 DEF DeleteBucketPolicy, DeleteBucketDocument
<1> QED
  BY <1>1, <1>4, <1>5, <1>6, <1>9, <1>10

\* All other steps of the store leave the buckets alone.
LEMMA StoreNextKeeps ==
    ASSUME MultipartInv, StoreNext
    PROVE  BucketsStay
<1>1. ASSUME ObjectNext
      PROVE  UNCHANGED buckets
  BY <1>1 DEF ObjectNext, DeleteObject, DeleteObjects
<1>2. ASSUME LockNext
      PROVE  UNCHANGED buckets
  BY <1>2
     DEF LockNext, PutObjectLegalHold, PutObjectRetention,
         DeleteObjectAnnotation
<1>3. ASSUME NEW c \in Clients, Begin(c)
      PROVE  UNCHANGED buckets
  <2>1. ASSUME NEW b, NEW k, NEW v, NEW d, NEW cond,
               PutObject(c, b, k, v, d, cond)
        PROVE  UNCHANGED buckets
    BY <2>1 DEF PutObject
  <2>2. ASSUME NEW b, NEW k, NEW sel, NEW v, NEW d, NEW cond,
               PutObjectAnnotation(c, b, k, sel, v, d, cond)
        PROVE  UNCHANGED buckets
    BY <2>2 DEF PutObjectAnnotation
  <2>3. ASSUME NEW b, NEW k, NEW sel, GetObject(c, b, k, sel)
        PROVE  UNCHANGED buckets
    BY <2>3 DEF GetObject
  <2>4. ASSUME NEW b, NEW k, NEW sel, NEW toBucket, NEW toKey, NEW cond,
               CopyObject(c, b, k, sel, toBucket, toKey, cond)
        PROVE  UNCHANGED buckets
    BY <2>4 DEF CopyObject
  <2> QED
    BY <1>3, <2>1, <2>2, <2>3, <2>4 DEF Begin
<1>4. ASSUME NEW c \in Clients, Advance(c)
      PROVE  UNCHANGED buckets
  <2>1. \/ StartBody(c) \/ Read(c) \/ RetryExact(c) \/ ReleaseOld(c)
        \/ ReleaseBuffer(c) \/ ReleaseNotes(c) \/ ReleaseSnapshot(c)
        => UNCHANGED buckets
    BY DEF StartBody, Read, RetryExact, ReleaseOld, ReleaseBuffer,
       ReleaseNotes, ReleaseSnapshot
  <2>2. Commit(c) \/ CommitAnnotation(c) => UNCHANGED buckets
    BY DEF Commit, CommitAnnotation
  <2> QED
    BY <1>4, <2>1, <2>2 DEF Advance
<1>5. ASSUME NEW c \in Clients, Interrupt(c)
      PROVE  UNCHANGED buckets
  BY <1>5 DEF Interrupt, ExcludeAnnotations, AllocationFails, Abandon
<1>6. Tick => UNCHANGED buckets
  BY DEF Tick
<1> QED
  BY <1>1, <1>2, <1>3, <1>4, <1>5, <1>6, BucketNextKeeps, SameBuckets
     DEF StoreNext

\* A bucket is deleted only while no upload is in it.
LEMMA DeleteEmptyBucketKeeps ==
    ASSUME MultipartInv, NEW b \in Buckets, DeleteEmptyBucket(b)
    PROVE  KeepsTogether
<1>1. /\ uploads' = uploads /\ parts' = parts /\ nextUpload' = nextUpload
      /\ \A u \in uploads : u.bucket # b
      /\ buckets' = [buckets EXCEPT ![b] = NewBucket]
  BY DEF DeleteEmptyBucket, DeleteBucket, NoUploads, multipartVars
<1>2. NewBucket \in Bucket
  BY DEF NewBucket, Bucket, Statuses, MFAStates
<1>3. BucketsTyped'
  BY <1>1, <1>2 DEF MultipartInv, BucketsTyped
<1>4. UploadsHaveBuckets'
  BY <1>1 DEF MultipartInv, BucketsTyped, UploadsNumbered, UploadsHaveBuckets
<1>5. PartsStay
  BY <1>1 DEF PartsStay
<1> QED
  BY <1>1, <1>3, <1>4, <1>5 DEF KeepsTogether, MultipartInv, UploadsNumbered,
     PartsOwned, UploadsAndPartsUnique

(***************************************************************************)
(* Uploads and parts                                                       *)
(***************************************************************************)
\* A new upload has a number that none had.
LEMMA CreateMultipartUploadKeeps ==
    ASSUME MultipartInv, NEW b \in Buckets, NEW k \in Keys,
           CreateMultipartUpload(b, k)
    PROVE  KeepsTogether
<1> DEFINE new == [id |-> nextUpload + 1, bucket |-> b, key |-> k]
<1>1. /\ parts' = parts /\ buckets' = buckets /\ buckets[b].used
      /\ nextUpload' = nextUpload + 1 /\ uploads' = uploads \cup {new}
  BY DEF CreateMultipartUpload, NewUploadNumber, vars
<1>2. new.id = nextUpload + 1 /\ new.bucket = b
  OBVIOUS
<1> HIDE DEF new
<1>3. UploadsNumbered'
  BY <1>1, <1>2 DEF MultipartInv, UploadsNumbered
<1>4. PartsOwned' /\ UploadsHaveBuckets' /\ BucketsTyped'
  BY <1>1, <1>2
  DEF MultipartInv, PartsOwned, UploadsHaveBuckets, BucketsTyped
<1>5. UploadsAndPartsUnique'
  <2>1. \A u \in uploads : u.id # new.id
    BY <1>2 DEF MultipartInv, UploadsNumbered
  <2> QED
    BY <1>1, <2>1 DEF MultipartInv, UploadsAndPartsUnique
<1>6. PartsStay
  BY <1>1 DEF PartsStay
<1> QED
  BY <1>3, <1>4, <1>5, <1>6 DEF KeepsTogether, MultipartInv

\* A part is stored only under an upload that is found at that moment, and
\* takes the place of the part with its number.
LEMMA CommitPartKeeps ==
    ASSUME MultipartInv, NEW c \in Clients, CommitPart(c)
    PROVE  KeepsTogether
<1> DEFINE r == call[c]
           new == [upload |-> r.upload, number |-> r.part,
                   content |-> r.content, cap |-> r.buf, len |-> r.len]
<1>1. /\ UNCHANGED <<buckets, uploads, nextUpload>>
      /\ \/ UNCHANGED parts
         \/ /\ Target(r) # {}
            /\ parts' = (parts \ SamePart(r)) \cup {new}
  BY DEF CommitPart, CanCommitPart, UploadFound
<1>2. CASE UNCHANGED parts
  BY <1>1, <1>2, SameBuckets, SameUploads DEF multipartVars
<1>3. CASE /\ Target(r) # {}
           /\ parts' = (parts \ SamePart(r)) \cup {new}
  <2>1. \E u \in uploads : u.id = r.upload
    BY <1>3 DEF Target
  <2>2. new.upload = r.upload /\ new.number = r.part
    OBVIOUS
  <2>3. \A p \in parts : p \in SamePart(r) <=> /\ p.upload = new.upload
                                              /\ p.number = new.number
    BY DEF SamePart
  <2> HIDE DEF new, r
  <2>4. PartsOwned'
    BY <1>1, <1>3, <2>1, <2>2 DEF MultipartInv, PartsOwned
  <2>5. UploadsAndPartsUnique'
    BY <1>1, <1>3, <2>3 DEF MultipartInv, UploadsAndPartsUnique
  <2>6. PartsStay
    BY <1>1, <1>3, <2>3 DEF PartsStay
  <2> QED
    BY <1>1, <2>4, <2>5, <2>6 DEF KeepsTogether, MultipartInv, BucketsTyped,
       UploadsNumbered, UploadsHaveBuckets
<1> QED
  BY <1>1, <1>2, <1>3

\* An upload ends with its parts, and with no others.
LEMMA UploadEndKeeps ==
    ASSUME MultipartInv, NEW u \in uploads,
           uploads' = uploads \ {u}, parts' = parts \ Staged(u),
           UNCHANGED <<buckets, nextUpload>>
    PROVE  KeepsTogether
<1>1. \A p \in parts : p \in Staged(u) <=> p.upload = u.id
  BY DEF Staged
<1>2. PartsOwned'
  BY <1>1 DEF MultipartInv, PartsOwned
<1>3. UploadsAndPartsUnique'
  BY DEF MultipartInv, UploadsAndPartsUnique
<1>4. PartsStay
  BY <1>1 DEF MultipartInv, UploadsAndPartsUnique, PartsStay
<1> QED
  BY <1>2, <1>3, <1>4 DEF KeepsTogether, MultipartInv, BucketsTyped,
     UploadsNumbered, UploadsHaveBuckets

(***************************************************************************)
(* The theorems                                                            *)
(***************************************************************************)
LEMMA InitInv == MultipartInit => MultipartInv
<1>1. NewBucket \in Bucket
  BY DEF NewBucket, Bucket, Statuses, MFAStates
<1> QED
  BY <1>1 DEF MultipartInit, Init, MultipartInv, BucketsTyped, UploadsNumbered,
     PartsOwned, UploadsHaveBuckets, UploadsAndPartsUnique

LEMMA NextInv == MultipartInv /\ [MultipartNext]_allVars => KeepsTogether
<1> SUFFICES ASSUME MultipartInv, [MultipartNext]_allVars PROVE KeepsTogether
  OBVIOUS
<1>1. CASE StoreNext /\ UNCHANGED multipartVars
  BY <1>1, StoreNextKeeps, SameUploads
<1>2. CASE \E b \in Buckets : DeleteEmptyBucket(b)
  BY <1>2, DeleteEmptyBucketKeeps
<1>3. CASE UploadNext
  <2>1. CASE \E b \in Buckets, k \in Keys : CreateMultipartUpload(b, k)
    BY <2>1, CreateMultipartUploadKeeps
  <2>2. ASSUME NEW u \in uploads, AbortMultipartUpload(u) PROVE KeepsTogether
    BY <2>2, UploadEndKeeps DEF AbortMultipartUpload
  <2>3. ASSUME NEW u \in uploads, NEW refs, NEW cond,
               CompleteMultipartUpload(u, refs, cond)
        PROVE  KeepsTogether
    BY <2>3, UploadEndKeeps DEF CompleteMultipartUpload
  <2>4. ASSUME NEW u \in uploads, NEW refs, NEW cond,
               CompletionFails(u, refs, cond)
        PROVE  KeepsTogether
    BY <2>4, SameBuckets, SameUploads DEF CompletionFails
  <2> QED
    BY <1>3, <2>1, <2>2, <2>3, <2>4 DEF UploadNext
<1>4. ASSUME NEW c \in Clients, PartNext(c) \/ FindUpload(c)
      PROVE  KeepsTogether
  <2>1. UNCHANGED buckets /\ UNCHANGED multipartVars
    BY <1>4 DEF PartNext, UploadPart, UploadPartCopy, FindUpload
  <2> QED
    BY <2>1, SameBuckets, SameUploads
<1>5. CASE UNCHANGED allVars
  BY <1>5, SameBuckets, SameUploads DEF allVars, vars
<1> QED
  BY <1>1, <1>2, <1>3, <1>4, <1>5, CommitPartKeeps DEF MultipartNext, PartAdvance

\* The inductive invariant holds in every reachable state.
THEOREM MultipartInvariant == MultipartSpec => []MultipartInv
<1>1. MultipartInv /\ [MultipartNext]_allVars => MultipartInv'
  BY NextInv DEF KeepsTogether
<1> QED
  BY <1>1, InitInv, PTL DEF MultipartSpec

\* A part that was streamed while its upload was completed or aborted is not
\* stored, and a part that is sent again replaces the one before.
THEOREM NoPartIsStranded == MultipartSpec => []PartsHaveUploads
<1>1. MultipartInv => PartsHaveUploads
  BY DEF MultipartInv, PartsOwned, UploadsAndPartsUnique, PartsHaveUploads
<1> QED
  BY <1>1, MultipartInvariant, PTL

\* A bucket that holds an upload is not deleted.
THEOREM UploadsKeepBuckets == MultipartSpec => []UploadsHaveBuckets
<1>1. MultipartInv => UploadsHaveBuckets
  BY DEF MultipartInv
<1> QED
  BY <1>1, MultipartInvariant, PTL

\* The number i was given to an upload.
WasGiven(i) == i \in 1..nextUpload

\* Numbers are given out in ascending order.
LEMMA NumbersAscend ==
    ASSUME MultipartInv, [MultipartNext]_allVars
    PROVE  /\ nextUpload \in Nat /\ nextUpload' \in Nat
           /\ nextUpload' >= nextUpload
           /\ \A u \in uploads' : u \in uploads \/ u.id = nextUpload + 1
<1> DEFINE Ascend == /\ nextUpload' >= nextUpload
                     /\ \A u \in uploads' : u \in uploads \/ u.id = nextUpload + 1
<1> HIDE DEF Ascend
<1>1. nextUpload \in Nat /\ nextUpload' \in Nat
  BY NextInv DEF KeepsTogether, MultipartInv, UploadsNumbered
<1>2. uploads' \subseteq uploads /\ nextUpload' = nextUpload => Ascend
  BY <1>1 DEF Ascend
<1>3. ASSUME NEW b \in Buckets, NEW k \in Keys, CreateMultipartUpload(b, k)
      PROVE  Ascend
  <2> DEFINE new == [id |-> nextUpload + 1, bucket |-> b, key |-> k]
  <2>1. /\ nextUpload' = nextUpload + 1
        /\ uploads' = uploads \cup {new} /\ new.id = nextUpload + 1
    BY <1>3 DEF CreateMultipartUpload, NewUploadNumber
  <2> HIDE DEF new
  <2> QED
    BY <1>1, <2>1 DEF Ascend
<1>4. ASSUME UploadNext PROVE Ascend
  <2>1. ASSUME NEW u \in uploads, AbortMultipartUpload(u) PROVE Ascend
    BY <1>2, <2>1 DEF AbortMultipartUpload
  <2>2. ASSUME NEW u \in uploads, NEW refs, NEW cond,
               \/ CompleteMultipartUpload(u, refs, cond)
               \/ CompletionFails(u, refs, cond)
        PROVE  Ascend
    BY <1>2, <2>2
    DEF CompleteMultipartUpload, CompletionFails, multipartVars
  <2> QED
    BY <1>3, <1>4, <2>1, <2>2 DEF UploadNext
<1>5. \/ StoreNext /\ UNCHANGED multipartVars
      \/ \E b \in Buckets : DeleteEmptyBucket(b)
      \/ UNCHANGED allVars
      => uploads' = uploads /\ nextUpload' = nextUpload
  BY DEF DeleteEmptyBucket, multipartVars, allVars
<1>6. ASSUME NEW c \in Clients, PartNext(c) \/ PartAdvance(c)
      PROVE  uploads' = uploads /\ nextUpload' = nextUpload
  BY <1>6 DEF PartNext, PartAdvance, UploadPart, UploadPartCopy, FindUpload,
     CommitPart, multipartVars
<1> QED
  BY <1>1, <1>2, <1>4, <1>5, <1>6 DEF MultipartNext, Ascend

\* A live upload's ID is no other's, and an ID whose upload was completed or
\* aborted never names an upload again.
THEOREM UploadsAreUnique == MultipartSpec => IdsNameOneUpload
<1>1. MultipartInv => \A u, w \in uploads : u.id = w.id => u = w
  BY DEF MultipartInv, UploadsAndPartsUnique
<1>2. ASSUME NEW i \in 1..MaxUpload
      PROVE  MultipartSpec => [](Live(i) => [](~Live(i) => []~Live(i)))
  <2>1. MultipartInv /\ Live(i) => WasGiven(i)
    BY DEF MultipartInv, UploadsNumbered, Live, WasGiven
  <2>2. MultipartInv /\ [MultipartNext]_allVars /\ WasGiven(i) => WasGiven(i)'
    BY NumbersAscend DEF WasGiven
  <2>3. MultipartInv /\ [MultipartNext]_allVars /\ WasGiven(i) /\ ~Live(i)
          => ~Live(i)'
    BY NumbersAscend DEF WasGiven, Live
  <2> QED
    BY <2>1, <2>2, <2>3, MultipartInvariant, PTL DEF MultipartSpec
<1>3. MultipartSpec => [](\A u, w \in uploads : u.id = w.id => u = w)
  BY <1>1, MultipartInvariant, PTL
<1>4. MultipartSpec => \A i \in 1..MaxUpload :
                          [](Live(i) => [](~Live(i) => []~Live(i)))
  BY <1>2
<1> QED
  BY <1>3, <1>4 DEF IdsNameOneUpload

\* No step takes a part number from an upload that lasts.
THEOREM PartsAreKept == MultipartSpec => PartsStayWithUpload
<1>1. MultipartInv /\ [MultipartNext]_allVars => [PartsStay]_allVars
  BY NextInv DEF KeepsTogether
<1> QED
  BY <1>1, MultipartInvariant, PTL DEF MultipartSpec, PartsStayWithUpload, PartsStay

(***************************************************************************)
(* Generations and the budget.  What the uploads and parts are, and what a *)
(* call that streams a part was asked.                                     *)
(***************************************************************************)
PartCall(r) ==
    r.op = "part" => r.part \in PartNumbers /\ r.content \in Contents

PartsWell ==
    /\ uploads \subseteq Upload
    /\ parts \subseteq Part /\ IsFiniteSet(parts)
    /\ \A c \in Clients : PartCall(call[c])

StoreInv == VersionInv /\ MultipartInv /\ PartsWell

LEMMA SumOfParts ==
    ASSUME NEW ps \in SUBSET Part, IsFiniteSet(ps)
    PROVE  /\ [p \in ps |-> p.cap] \in [ps -> Nat]
           /\ Capacity(ps) \in Nat /\ Size(ps) \in Nat
<1> DEFINE w == [p \in ps |-> p.cap]
           v == [p \in ps |-> p.len]
<1>1. w \in [ps -> Nat] /\ v \in [ps -> Nat]
  BY DEF Part
<1>2. Capacity(ps) = SumFunction(w) /\ Size(ps) = SumFunction(v)
  BY DEF Capacity, Size
<1> HIDE DEF w, v
<1>3. SumFunction(w) \in Nat /\ SumFunction(v) \in Nat
  BY <1>1, SumNat
<1> QED
  BY <1>1, <1>2, <1>3 DEF w

\* Parts that go give back their capacity.
LEMMA CapacityLess ==
    ASSUME NEW ps \in SUBSET Part, IsFiniteSet(ps), NEW qs \in SUBSET ps
    PROVE  /\ IsFiniteSet(ps \ qs) /\ IsFiniteSet(qs)
           /\ Capacity(qs) \in Nat
           /\ Capacity(ps \ qs) = Capacity(ps) - Capacity(qs)
<1> DEFINE w == [p \in ps |-> p.cap]
<1>1. IsFiniteSet(ps \ qs) /\ IsFiniteSet(qs)
  BY FS_Subset
<1>2. /\ w \in [ps -> Nat] /\ Capacity(ps) \in Nat
      /\ Capacity(qs) \in Nat /\ Capacity(ps \ qs) \in Nat
  BY <1>1, SumOfParts
<1>3. /\ Capacity(ps) = SumFunction(w)
      /\ Capacity(qs) = SumFunction([p \in qs |-> w[p]])
      /\ Capacity(ps \ qs) = SumFunction([p \in ps \ qs |-> w[p]])
  <2>1. /\ [p \in qs |-> w[p]] = [p \in qs |-> p.cap]
        /\ [p \in ps \ qs |-> w[p]] = [p \in ps \ qs |-> p.cap]
    OBVIOUS
  <2> QED
    BY <2>1 DEF Capacity
<1> HIDE DEF w
<1>4. SumFunction(w) = SumFunction([p \in qs |-> w[p]])
                         + SumFunction([p \in ps \ qs |-> w[p]])
  BY <1>2, SumSplit
<1> QED
  BY <1>1, <1>2, <1>3, <1>4

\* A part that comes takes its capacity.
LEMMA CapacityMore ==
    ASSUME NEW ps \in SUBSET Part, IsFiniteSet(ps), NEW p \in Part, p \notin ps
    PROVE  /\ IsFiniteSet(ps \cup {p})
           /\ Capacity(ps \cup {p}) = Capacity(ps) + p.cap
<1> DEFINE w == [q \in ps |-> q.cap]
           v == [q \in ps \cup {p} |-> q.cap]
<1>1. IsFiniteSet(ps \cup {p})
  BY FS_AddElement
<1>2. w \in [ps -> Nat] /\ v \in [ps \cup {p} -> Nat] /\ v[p] = p.cap
      /\ \A q \in ps : v[q] = w[q]
  BY DEF Part
<1>3. Capacity(ps) = SumFunction(w) /\ Capacity(ps \cup {p}) = SumFunction(v)
  BY DEF Capacity
<1>4. SumFunction(w) \in Nat /\ p.cap \in Nat
  BY <1>2, SumNat DEF Part
<1> HIDE DEF w, v
<1>5. SumFunction(v) = v[p] + SumFunction(w)
  BY <1>2, SumAdd
<1> QED
  BY <1>1, <1>2, <1>3, <1>4, <1>5

(***************************************************************************)
(* Steps of the parts and of the uploads, on the generations               *)
(***************************************************************************)
\* No generation or bucket changes.
LEMMA HistoryAlone ==
    ASSUME VersionInv, UNCHANGED <<buckets, objects, order>>, BudgetInv'
    PROVE  VersionInv' /\ GoodStep
<1>1. GoodStep
  BY BucketsChange DEF VersionInv, BucketsLocked, HistoryOK
<1> QED
  BY <1>1 DEF VersionInv, GoodStep

\* A part is declared as a body is.
LEMMA UploadPartCall ==
    ASSUME StoreInv, NEW c \in Clients, NEW u \in uploads,
           NEW n \in PartNumbers, NEW v \in Contents,
           NEW d \in Declarations(Length[v]), UploadPart(c, u, n, v, d)
    PROVE  \E r \in Call :
              /\ Named(r) /\ PartCall(r) /\ r.op # "annotate"
              /\ r.pc = "fetched" /\ Charge(r) = 0
              /\ r.buf = 0 /\ r.old = 0 /\ Moves(c, r)
<1> DEFINE r == [Idle EXCEPT !.op = "part", !.pc = "fetched",
                    !.upload = u.id, !.part = n, !.bucket = u.bucket,
                    !.key = u.key, !.content = v, !.declared = d,
                    !.size = Length[v]]
<1>1. u.id \in Nat /\ u.bucket \in Buckets /\ u.key \in Keys
  BY DEF StoreInv, PartsWell, Upload
<1>2. Length[v] \in Nat /\ d \in Nat \cup {-1} /\ n \in Nat /\ v \in Bodies
  BY SizesAssumption, PartsAssumption DEF Declarations, Unknown, Bodies
<1>3. r \in Call
  BY <1>1, <1>2, IdleType DEF Call
<1>4. /\ r.op = "part" /\ r.pc = "fetched" /\ r.part = n /\ r.content = v
      /\ r.bucket = u.bucket /\ r.key = u.key
      /\ r.buf = 0 /\ r.old = 0 /\ r.snap = 0 /\ r.notes = 0
  BY DEF Idle
<1>5. Moves(c, r)
  BY DEF UploadPart
<1> HIDE DEF r
<1>6. Named(r) /\ PartCall(r) /\ Charge(r) = 0
  BY <1>1, <1>4 DEF Named, PartCall, Charge
<1> QED
  BY <1>3, <1>4, <1>5, <1>6

\* The source of a copied part is charged at once.
LEMMA UploadPartCopyCall ==
    ASSUME StoreInv, NEW c \in Clients, NEW b \in Buckets, NEW k \in Keys,
           NEW u \in Given, NEW n \in PartNumbers,
           UploadPartCopy(c, b, k, u, n)
    PROVE  \E r \in Call :
              /\ Named(r) /\ PartCall(r) /\ r.op # "annotate"
              /\ r.pc = "asked" /\ Charge(r) \in Nat
              /\ r.buf = 0 /\ r.old = 0 /\ Moves(c, r)
              /\ Fits(Charge(r)) /\ reserved' = reserved + Charge(r)
<1>1. PICK g \in Visible(objects, b, k, Current) :
        /\ g.content \in Contents
        /\ Fits(g.len)
        /\ reserved' = reserved + g.len
        /\ Moves(c, [Idle EXCEPT !.op = "part", !.pc = "asked",
                        !.upload = u.id, !.part = n,
                        !.bucket = u.bucket, !.key = u.key,
                        !.content = g.content, !.declared = g.len,
                        !.size = g.len, !.snap = g.len])
  BY DEF UploadPartCopy
<1> DEFINE r == [Idle EXCEPT !.op = "part", !.pc = "asked",
                    !.upload = u.id, !.part = n,
                    !.bucket = u.bucket, !.key = u.key,
                    !.content = g.content, !.declared = g.len,
                    !.size = g.len, !.snap = g.len]
<1>2. u.id \in Nat /\ u.bucket \in Buckets /\ u.key \in Keys
  BY DEF Given, StoreInv, MultipartInv, UploadsNumbered
<1>3. g.len \in Nat /\ g.content \in Bodies /\ n \in Nat
  BY <1>1, PartsAssumption DEF Visible, Selected, Bodies, StoreInv, VersionInv,
     BudgetInv, TypeInv, TypeOK, Generation
<1>4. r \in Call
  BY <1>2, <1>3, IdleType DEF Call
<1>5. /\ r.op = "part" /\ r.pc = "asked" /\ r.part = n
      /\ r.content = g.content /\ r.bucket = u.bucket /\ r.key = u.key
      /\ r.buf = 0 /\ r.old = 0 /\ r.snap = g.len /\ r.notes = 0
  BY DEF Idle
<1>6. Moves(c, r)
  BY <1>1
<1> HIDE DEF r
<1>7. Named(r) /\ PartCall(r) /\ Charge(r) = g.len
  BY <1>1, <1>2, <1>3, <1>5 DEF Named, PartCall, Charge
<1> QED
  BY <1>1, <1>3, <1>4, <1>5, <1>6, <1>7

LEMMA PartNextStep ==
    ASSUME StoreInv, NEW c \in Clients, PartNext(c)
    PROVE  /\ VersionInv' /\ GoodStep
           /\ UNCHANGED <<buckets, objects, order, bytes>>
           /\ UNCHANGED multipartVars
           /\ \E r \in Call : Moves(c, r) /\ PartCall(r)
<1>1. UNCHANGED <<buckets, objects, order, bytes, now>>
      /\ UNCHANGED multipartVars
  BY DEF PartNext, UploadPart, UploadPartCopy
<1>2. BudgetInv
  BY DEF StoreInv, VersionInv
<1>3. BudgetInv' /\ \E r \in Call : Moves(c, r) /\ PartCall(r)
  <2>1. ASSUME NEW u \in uploads, NEW n \in PartNumbers, NEW v \in Contents,
               NEW d \in Declarations(Length[v]), UploadPart(c, u, n, v, d)
        PROVE  BudgetInv' /\ \E r \in Call : Moves(c, r) /\ PartCall(r)
    <3>1. PICK r \in Call : Named(r) /\ PartCall(r) /\ Moves(c, r)
      BY <2>1, UploadPartCall
    <3>2. reserved' = reserved
      BY <2>1 DEF UploadPart
    <3> QED
      BY <1>1, <1>2, <3>1, <3>2, BudgetReleases
  <2>2. ASSUME NEW b \in Buckets, NEW k \in Keys, NEW u \in Given,
               NEW n \in PartNumbers, UploadPartCopy(c, b, k, u, n)
        PROVE  BudgetInv' /\ \E r \in Call : Moves(c, r) /\ PartCall(r)
    <3>1. PICK r \in Call :
            /\ Named(r) /\ PartCall(r) /\ Moves(c, r) /\ Charge(r) \in Nat
            /\ Fits(Charge(r)) /\ reserved' = reserved + Charge(r)
      BY <2>2, UploadPartCopyCall
    <3> QED
      BY <1>1, <1>2, <3>1, BudgetReserves
  <2> QED
    BY <2>1, <2>2 DEF PartNext
<1> QED
  BY <1>1, <1>3, HistoryAlone DEF StoreInv

\* What a part call holds where its upload is found or not.
LEMMA FindUploadStep ==
    ASSUME StoreInv, NEW c \in Clients, FindUpload(c)
    PROVE  /\ VersionInv' /\ GoodStep
           /\ UNCHANGED <<buckets, objects, order, bytes, reserved>>
           /\ UNCHANGED multipartVars
           /\ \E r \in Call : /\ r.op = call[c].op /\ Moves(c, r)
                              /\ r.buf = call[c].buf /\ r.old = call[c].old
                              /\ r.snap = call[c].snap
                              /\ r.notes = call[c].notes
                              /\ r.pc = "fetched"
              \/ Moves(c, Settle(call[c]))
           /\ \E r : Moves(c, r) /\ PartCall(r)
<1> DEFINE p == call[c]
           q == [p EXCEPT !.pc = "fetched"]
<1>1. UNCHANGED <<buckets, objects, order, bytes, reserved, now>>
      /\ UNCHANGED multipartVars
      /\ (Moves(c, q) \/ Moves(c, Settle(p)))
  BY DEF FindUpload
<1>2. BudgetInv /\ p \in Call /\ Named(p) /\ PartCall(p)
  BY DEF StoreInv, VersionInv, BudgetInv, TypeInv, TypeOK, CallsNamed,
     PartsWell
<1>3. /\ q \in Call /\ q.op = p.op /\ q.buf = p.buf /\ q.old = p.old
      /\ q.snap = p.snap /\ q.notes = p.notes /\ q.pc = "fetched"
      /\ q.part = p.part /\ q.content = p.content
      /\ q.bucket = p.bucket /\ q.key = p.key
  BY <1>2 DEF Call
<1> HIDE DEF p, q
<1>4. Named(q) /\ PartCall(q)
  BY <1>2, <1>3 DEF Named, PartCall
<1>5. Settle(p) \in Call /\ Named(Settle(p)) /\ PartCall(Settle(p))
  <2>1. Settle(p) = Idle \/ Settle(p) = [p EXCEPT !.pc = "unwind"]
    BY DEF Settle
  <2>2. PartCall(Settle(p))
    BY <1>2, <2>1 DEF PartCall, Idle, Call
  <2> QED
    BY <1>2, <2>2, SettleType
<1>6. BudgetInv'
  BY <1>1, <1>2, <1>3, <1>4, <1>5, BudgetReleases
<1>7. VersionInv' /\ GoodStep
  BY <1>1, <1>6, HistoryAlone DEF StoreInv
<1> QED
  BY <1>1, <1>3, <1>4, <1>5, <1>7 DEF p

\* The parts that a call replaces.
LEMMA SamePartWell ==
    ASSUME PartsWell, NEW r
    PROVE  /\ SamePart(r) \in SUBSET parts
           /\ IsFiniteSet(parts \ SamePart(r))
           /\ Capacity(SamePart(r)) \in Nat
           /\ Capacity(parts \ SamePart(r))
                = Capacity(parts) - Capacity(SamePart(r))
<1>1. SamePart(r) \in SUBSET parts
  BY DEF SamePart
<1> QED
  BY <1>1, CapacityLess DEF PartsWell

\* What is reserved for a part becomes resident.
LEMMA CommitPartStep ==
    ASSUME StoreInv, NEW c \in Clients, CommitPart(c)
    PROVE  /\ VersionInv' /\ GoodStep /\ PartsWell'
           /\ UNCHANGED <<buckets, objects, order>>
           /\ bytes' - Capacity(parts)' = bytes - Capacity(parts)
           /\ LET r == [call[c] EXCEPT !.buf = 0]
              IN \/ reserved' = reserved /\ Moves(c, Settle(call[c]))
                 \/ /\ reserved' = reserved - call[c].buf
                    /\ Moves(c, Settle(r))
<1> DEFINE p == call[c]
           q == [p EXCEPT !.buf = 0]
           same == SamePart(p)
           new == [upload |-> p.upload, number |-> p.part,
                   content |-> p.content, cap |-> p.buf, len |-> p.len]
<1>1. /\ BudgetInv /\ PartsWell /\ p \in Call /\ Named(p) /\ PartCall(p)
      /\ p.op = "part" /\ UNCHANGED <<buckets, objects, order, now, uploads>>
      /\ bytes \in Int /\ reserved \in Nat /\ bytes + reserved <= ByteLimit
      /\ parts \in SUBSET Part /\ IsFiniteSet(parts)
  BY DEF StoreInv, VersionInv, BudgetInv, TypeInv, TypeOK, CallsNamed,
     PartsWell, CommitPart, CapacityBound
<1>2. /\ q \in Call /\ q.op = p.op /\ q.buf = 0 /\ q.old = p.old
      /\ q.snap = p.snap /\ q.notes = p.notes /\ q.part = p.part
      /\ q.content = p.content /\ q.bucket = p.bucket /\ q.key = p.key
  BY <1>1 DEF Call
<1>3. Named(q) /\ PartCall(q)
  BY <1>1, <1>2 DEF Named, PartCall
<1>4. ASSUME NEW r \in Call, Named(r), PartCall(r), Moves(c, Settle(r))
      PROVE  /\ Settle(r) \in Call /\ Named(Settle(r))
             /\ \A d \in Clients : PartCall(call'[d])
  <2>1. Settle(r) = Idle \/ Settle(r) = [r EXCEPT !.pc = "unwind"]
    BY DEF Settle
  <2>2. PartCall(Settle(r))
    BY <1>4, <2>1 DEF PartCall, Idle, Call
  <2>3. call' = [call EXCEPT ![c] = Settle(r)] /\ call \in [Clients -> Call]
    BY <1>1, <1>4 DEF Moves, BudgetInv, TypeInv, TypeOK
  <2> QED
    BY <1>1, <1>4, <2>2, <2>3, SettleType DEF PartsWell
<1>5. CASE CanCommitPart(p)
  <2>1. /\ parts' = (parts \ same) \cup {new}
        /\ bytes' = bytes - Capacity(same) + p.buf
        /\ reserved' = reserved - p.buf /\ Moves(c, Settle(q))
        /\ p.buf <= ByteLimit - (bytes - Capacity(same)) /\ p.buf <= reserved
    BY <1>5 DEF CommitPart, CanCommitPart
  <2>2. /\ new \in Part /\ new.cap = p.buf /\ p.buf \in Nat
        /\ new.upload = p.upload /\ new.number = p.part
    BY <1>1 DEF Part, Call, PartCall
  <2>3. new \notin parts \ same
    BY <2>2 DEF SamePart
  <2>4. /\ IsFiniteSet(parts \ same) /\ Capacity(same) \in Nat
        /\ Capacity(parts \ same) = Capacity(parts) - Capacity(same)
        /\ Capacity(parts) \in Nat /\ parts \ same \in SUBSET Part
    BY <1>1, SamePartWell, SumOfParts
  <2> HIDE DEF new, same, p, q
  <2>5. /\ IsFiniteSet(parts') /\ parts' \subseteq Part
        /\ Capacity(parts') = Capacity(parts) - Capacity(same) + p.buf
    BY <1>1, <2>1, <2>2, <2>3, <2>4, CapacityMore
  <2>6. PartsWell'
    BY <1>1, <1>2, <1>3, <1>4, <2>1, <2>5 DEF PartsWell
  <2>7. reserved' \in Nat /\ bytes' \in Int /\ bytes' + reserved' <= ByteLimit
        /\ bytes' - Capacity(parts') = bytes - Capacity(parts)
    BY <1>1, <2>1, <2>2, <2>4, <2>5, SizesAssumption
  <2>8. call' \in [Clients -> Call] /\ CallsNamed'
    BY <1>1, <1>2, <1>3, <1>4, <2>1, MovesType DEF BudgetInv
  <2>9. BudgetInv'
    BY <1>1, <2>7, <2>8 DEF BudgetInv, TypeInv, TypeOK, CapacityBound
  <2> QED
    BY <1>1, <2>1, <2>6, <2>7, <2>9, HistoryAlone DEF StoreInv, p, q
<1>6. CASE ~CanCommitPart(p)
  <2>1. Moves(c, Settle(p)) /\ UNCHANGED <<parts, bytes, reserved>>
    BY <1>6 DEF CommitPart
  <2> HIDE DEF p
  <2>2. PartsWell'
    BY <1>1, <1>4, <2>1 DEF PartsWell
  <2>3. BudgetInv'
    BY <1>1, <1>4, <2>1, BudgetReleases
  <2>4. bytes' - Capacity(parts)' = bytes - Capacity(parts)
    BY <2>1 DEF Capacity
  <2> QED
    BY <1>1, <2>1, <2>2, <2>3, <2>4, HistoryAlone DEF StoreInv, p
<1> QED
  BY <1>5, <1>6

\* The end of an upload gives back its parts.
LEMMA StagedWell ==
    ASSUME PartsWell, NEW u
    PROVE  /\ Staged(u) \in SUBSET parts
           /\ IsFiniteSet(parts \ Staged(u))
           /\ StagedSpace(u) \in Nat
           /\ Capacity(parts \ Staged(u)) = Capacity(parts) - StagedSpace(u)
<1>1. Staged(u) \in SUBSET parts
  BY DEF Staged
<1> QED
  BY <1>1, CapacityLess DEF PartsWell, StagedSpace

LEMMA PartsLess ==
    ASSUME PartsWell, NEW u \in uploads, uploads' = uploads \ {u},
           parts' = parts \ Staged(u), UNCHANGED call
    PROVE  PartsWell'
BY StagedWell DEF PartsWell

LEMMA AbortStep ==
    ASSUME StoreInv, NEW u \in uploads, AbortMultipartUpload(u)
    PROVE  /\ VersionInv' /\ GoodStep /\ PartsWell'
           /\ UNCHANGED <<buckets, objects, order, reserved, call>>
           /\ bytes' - Capacity(parts)' = bytes - Capacity(parts)
<1>1. /\ UNCHANGED <<buckets, objects, order, reserved, now, call>>
      /\ bytes' = bytes - StagedSpace(u) /\ parts' = parts \ Staged(u)
      /\ uploads' = uploads \ {u}
  BY DEF AbortMultipartUpload
<1>2. /\ BudgetInv /\ bytes \in Int /\ reserved \in Nat
      /\ bytes + reserved <= ByteLimit /\ Capacity(parts) \in Nat
  BY SumOfParts DEF StoreInv, PartsWell, VersionInv, BudgetInv, TypeInv,
     TypeOK, CapacityBound
<1>3. StagedSpace(u) \in Nat
      /\ Capacity(parts \ Staged(u)) = Capacity(parts) - StagedSpace(u)
  BY StagedWell DEF StoreInv
<1>4. bytes' \in Int /\ bytes' + reserved <= ByteLimit
      /\ bytes' - Capacity(parts') = bytes - Capacity(parts)
  BY <1>1, <1>2, <1>3, SizesAssumption
<1>5. BudgetInv'
  BY <1>1, <1>2, <1>4 DEF BudgetInv, TypeInv, TypeOK, CallsNamed, Named,
     CapacityBound
<1> QED
  BY <1>1, <1>4, <1>5, HistoryAlone, PartsLess DEF StoreInv

\* The assembled generation, of the size of the listed parts.
LEMMA AssemblyWell ==
    ASSUME StoreInv, NEW u \in uploads, NEW refs \in Completions, NEW cond,
           CanComplete(u, refs, cond)
    PROVE  LET size == Size(Listed(u, refs))
               r == [Idle EXCEPT !.bucket = u.bucket, !.key = u.key,
                        !.content = refs, !.buf = size, !.len = size]
               replaced == Replaced(u.bucket, u.key)
           IN /\ size \in Nat
              /\ r \in Call /\ r.bucket = u.bucket /\ r.key = u.key
              /\ u.bucket \in Buckets /\ u.key \in Keys
              /\ buckets[u.bucket].used
              /\ Assembly(u, refs, replaced) = Published(r, replaced)
              /\ Assembly(u, refs, replaced) \in Generation
              /\ Assembly(u, refs, replaced).order = order + 1
              /\ Resident(Assembly(u, refs, replaced)) = size
<1> DEFINE size == Size(Listed(u, refs))
           r == [Idle EXCEPT !.bucket = u.bucket, !.key = u.key,
                    !.content = refs, !.buf = size, !.len = size]
           replaced == Replaced(u.bucket, u.key)
<1>1. /\ u.bucket \in Buckets /\ u.key \in Keys /\ buckets[u.bucket].used
      /\ TypeOK
  BY DEF StoreInv, MultipartInv, PartsWell, Upload, UploadsHaveBuckets,
     VersionInv, BudgetInv, TypeInv
<1>2. size \in Nat
  <2>1. Listed(u, refs) \in SUBSET Part /\ IsFiniteSet(Listed(u, refs))
    BY FS_Subset DEF Listed, Staged, StoreInv, PartsWell
  <2> QED
    BY <2>1, SumOfParts
<1>3. refs \in Bodies
  <2>1. DOMAIN refs # {}
    BY DEF CanComplete, PartsAccepted
  <2>2. refs # << >>
    BY <2>1
  <2> QED
    BY <2>2, AssemblyAssumption DEF Bodies
<1> HIDE DEF size
<1>4. r \in Call
  BY <1>1, <1>2, <1>3, IdleType DEF Call
<1>5. r.bucket = u.bucket /\ r.key = u.key /\ r.buf = size /\ r.notes = 0
  BY DEF Idle
<1>6. Assembly(u, refs, replaced) = Published(r, replaced)
  BY DEF Assembly, size
<1> HIDE DEF r
<1>7. replaced \in SUBSET objects
  BY <1>1, ReplacedStored
<1>8. Published(r, replaced) \in Generation
  BY <1>1, <1>4, <1>5, <1>7, PublishedType
<1>9. /\ Published(r, replaced).order = order + 1
      /\ Resident(Published(r, replaced)) = size
  BY <1>2, <1>5 DEF Published, NextOrder, Resident
<1> QED
  BY <1>1, <1>2, <1>4, <1>5, <1>6, <1>8, <1>9 DEF r, size

LEMMA CompletionStep ==
    ASSUME StoreInv, IsFiniteSet(objects), NEW u \in uploads,
           NEW refs \in Completions, NEW cond,
           CompleteMultipartUpload(u, refs, cond)
    PROVE  /\ VersionInv' /\ GoodStep /\ PartsWell'
           /\ IsFiniteSet(objects)'
           /\ UNCHANGED <<buckets, reserved, call>>
           /\ bytes' - StoredBytes(objects)' - Capacity(parts)'
                = bytes - StoredBytes(objects) - Capacity(parts)
<1> DEFINE size == Size(Listed(u, refs))
           r == [Idle EXCEPT !.bucket = u.bucket, !.key = u.key,
                    !.content = refs, !.buf = size, !.len = size]
           replaced == Replaced(u.bucket, u.key)
           p == Assembly(u, refs, replaced)
<1>1. /\ CanComplete(u, refs, cond)
      /\ objects' = (objects \ replaced) \cup {p}
      /\ bytes' = bytes - StagedSpace(u) - SpaceOf(replaced) + size
      /\ order' = order + 1
      /\ parts' = parts \ Staged(u) /\ uploads' = uploads \ {u}
      /\ UNCHANGED <<buckets, reserved, now, call>>
  BY DEF CompleteMultipartUpload, NextOrder
<1>2. /\ size \in Nat /\ r \in Call /\ r.bucket = u.bucket /\ r.key = u.key
      /\ u.bucket \in Buckets /\ u.key \in Keys /\ buckets[u.bucket].used
      /\ p = Published(r, replaced) /\ p \in Generation
      /\ p.order = order + 1 /\ Resident(p) = size
  BY <1>1, AssemblyWell
<1>3. /\ VersionInv /\ BudgetInv /\ PartsWell /\ TypeOK
      /\ bytes \in Int /\ reserved \in Nat
      /\ bytes + reserved <= ByteLimit /\ Capacity(parts) \in Nat
      /\ objects \subseteq Generation /\ order \in 0..MaxOrder
  BY SumOfParts DEF StoreInv, PartsWell, VersionInv, BudgetInv, TypeInv,
     TypeOK, CapacityBound
<1>4. StagedSpace(u) \in Nat
      /\ Capacity(parts \ Staged(u)) = Capacity(parts) - StagedSpace(u)
  BY <1>3, StagedWell
<1>5. /\ size <= ByteLimit - bytes /\ reserved <= ByteLimit - bytes - size
      /\ order < MaxOrder
  BY <1>1 DEF CanComplete, AssemblyFits, Fits, OrderLeft
<1>6. GoodStep
  <2>1. objects' = (objects \ Replaced(r.bucket, r.key))
                      \cup {Published(r, Replaced(r.bucket, r.key))}
    BY <1>1, <1>2
  <2> HIDE DEF r
  <2> QED
    BY <1>1, <1>2, <1>3, <2>1, GoodPublication
<1> HIDE DEF size, r, p
<1>7. /\ IsFiniteSet(objects')
      /\ StoredBytes(objects') = StoredBytes(objects) - SpaceOf(replaced) + size
      /\ StoredBytes(objects) \in Nat /\ SpaceOf(replaced) \in Nat
  <2>1. /\ objects' = (objects \ Replaced(u.bucket, u.key)) \cup {p}
        /\ u.bucket \in Buckets /\ p \in Generation /\ p.order = order + 1
    BY <1>1, <1>2
  <2>2. /\ IsFiniteSet(objects')
        /\ StoredBytes(objects') = StoredBytes(objects)
                - SpaceOf(Replaced(u.bucket, u.key)) + Resident(p)
        /\ StoredBytes(objects) \in Nat
        /\ SpaceOf(Replaced(u.bucket, u.key)) \in Nat
    BY <1>3, <2>1, StoredPublication
  <2> QED
    BY <1>2, <2>2
<1> HIDE DEF replaced
<1>8. /\ bytes' \in Int /\ bytes' + reserved <= ByteLimit
      /\ order' \in 0..MaxOrder
      /\ bytes' - StoredBytes(objects') - Capacity(parts')
            = bytes - StoredBytes(objects) - Capacity(parts)
  BY <1>1, <1>2, <1>3, <1>4, <1>5, <1>7, SizesAssumption
<1>9. BudgetInv'
  BY <1>1, <1>2, <1>3, <1>8 DEF BudgetInv, TypeInv, TypeOK, CallsNamed,
     Named, CapacityBound
<1>10. PartsWell'
  BY <1>1, <1>3, PartsLess
<1> QED
  BY <1>1, <1>6, <1>7, <1>8, <1>9, <1>10 DEF VersionInv, GoodStep, StoredBytes

\* A new upload has no parts.
LEMMA CreateStep ==
    ASSUME StoreInv, NEW b \in Buckets, NEW k \in Keys,
           CreateMultipartUpload(b, k)
    PROVE  PartsWell' /\ UNCHANGED <<vars, parts>>
<1> DEFINE new == [id |-> nextUpload + 1, bucket |-> b, key |-> k]
<1>1. new \in Upload
  BY DEF StoreInv, MultipartInv, UploadsNumbered, Upload
<1>2. UNCHANGED <<vars, parts>> /\ uploads' = uploads \cup {new}
  BY DEF CreateMultipartUpload, NewUploadNumber
<1> HIDE DEF new
<1> QED
  BY <1>1, <1>2 DEF StoreInv, PartsWell, vars

\* The steps of the store begin no part.
LEMMA BeginsNoPart ==
    ASSUME NEW c \in Clients, Begin(c)
    PROVE  \E r : Moves(c, r) /\ r.op # "part"
<1>1. ASSUME NEW b, NEW k, NEW v, NEW d, NEW cond,
             PutObject(c, b, k, v, d, cond)
      PROVE  \E r : Moves(c, r) /\ r.op # "part"
  <2> DEFINE r == [Idle EXCEPT !.op = "put", !.bucket = b, !.key = k,
                      !.cond = cond, !.content = v, !.declared = d,
                      !.size = Length[v]]
             q == [r EXCEPT !.pc = "read", !.buf = Larger(d, 0)]
  <2>1. Moves(c, q) \/ Moves(c, Settle(r))
    BY <1>1 DEF PutObject, Start, Idle
  <2>2. q.op # "part" /\ Settle(r).op # "part"
    BY DEF Settle, Idle
  <2> HIDE DEF q, r
  <2> QED
    BY <2>1, <2>2
<1>2. ASSUME NEW b, NEW k, NEW sel, NEW v, NEW d, NEW cond,
             PutObjectAnnotation(c, b, k, sel, v, d, cond)
      PROVE  \E r : Moves(c, r) /\ r.op # "part"
  <2> DEFINE r == [Idle EXCEPT !.op = "annotate", !.bucket = b, !.key = k,
                      !.sel = sel, !.cond = cond, !.content = v,
                      !.declared = d, !.size = Length[v]]
             q == [r EXCEPT !.pc = "read", !.buf = Larger(d, 0)]
  <2>1. Moves(c, q) \/ Moves(c, Settle(r))
    BY <1>2 DEF PutObjectAnnotation, Start, Idle
  <2>2. q.op # "part" /\ Settle(r).op # "part"
    BY DEF Settle, Idle
  <2> HIDE DEF q, r
  <2> QED
    BY <2>1, <2>2
<1>3. ASSUME NEW b, NEW k, NEW sel, GetObject(c, b, k, sel)
      PROVE  \E r : Moves(c, r) /\ r.op # "part"
  <2>1. PICK n : Moves(c, Settle([Idle EXCEPT !.op = "get", !.snap = n]))
    BY <1>3 DEF GetObject
  <2>2. Settle([Idle EXCEPT !.op = "get", !.snap = n]).op # "part"
    BY DEF Settle, Idle
  <2> QED
    BY <2>1, <2>2
<1>4. ASSUME NEW b, NEW k, NEW sel, NEW toBucket, NEW toKey, NEW cond,
             CopyObject(c, b, k, sel, toBucket, toKey, cond)
      PROVE  \E r : Moves(c, r) /\ r.op # "part"
  <2> DEFINE Copy(g) ==
               [Idle EXCEPT !.op = "copy", !.pc = "fetched",
                  !.bucket = toBucket, !.key = toKey, !.cond = cond,
                  !.content = g.content, !.declared = g.len,
                  !.size = g.len, !.snap = g.len, !.notes = g.noteLen]
  <2>1. PICK g : Moves(c, Copy(g))
    BY <1>4 DEF CopyObject
  <2>2. Copy(g).op = "copy"
    BY DEF Idle
  <2> HIDE DEF Copy
  <2> QED
    BY <2>1, <2>2
<1> QED
  BY <1>1, <1>2, <1>3, <1>4 DEF Begin

\* A part call keeps what it was asked.
LEMMA StorePartsWell ==
    ASSUME StoreInv, StoreNext \/ \E b \in Buckets : DeleteBucket(b),
           UNCHANGED multipartVars
    PROVE  PartsWell'
<1>1. TypeInv /\ TypeOK /\ call \in [Clients -> Call]
  BY DEF StoreInv, VersionInv, BudgetInv, TypeInv, TypeOK
<1>2. ASSUME NEW c \in Clients, NEW r, Moves(c, r), PartCall(r)
      PROVE  PartsWell'
  BY <1>1, <1>2 DEF Moves, StoreInv, PartsWell, multipartVars
<1>3. CASE UNCHANGED call
  BY <1>3 DEF StoreInv, PartsWell, multipartVars
<1>4. \/ UNCHANGED call
      \/ \E c \in Clients : Begin(c) \/ Advance(c) \/ Interrupt(c)
  <2>1. BucketNext \/ (\E b \in Buckets : DeleteBucket(b)) => UNCHANGED call
    BY DEF BucketNext, CreateBucket, DeleteBucket, PutBucketVersioning,
       EnableBucketObjectLock, PutBucketPolicy, PutBucketDocument,
       DeleteBucketPolicy, DeleteBucketDocument
  <2>2. ObjectNext => UNCHANGED call
    BY DEF ObjectNext, DeleteObject, DeleteObjects
  <2>3. LockNext => UNCHANGED call
    BY DEF LockNext, PutObjectLegalHold, PutObjectRetention,
       DeleteObjectAnnotation
  <2>4. Tick => UNCHANGED call
    BY DEF Tick
  <2> QED
    BY <2>1, <2>2, <2>3, <2>4 DEF StoreNext
<1>5. ASSUME NEW c \in Clients, Advance(c) \/ Interrupt(c)
      PROVE  PartsWell'
  <2>1. PICK r : Moves(c, r) /\ SameCall(call[c], r)
    BY <1>1, <1>5, CallsStay
  <2>2. PartCall(r)
    BY <2>1 DEF SameCall, PartCall, StoreInv, PartsWell
  <2> QED
    BY <1>2, <2>1, <2>2
<1> QED
  BY <1>2, <1>3, <1>4, <1>5, BeginsNoPart DEF PartCall

(***************************************************************************)
(* Every step, on the generations, the parts and the budget                *)
(***************************************************************************)
\* The resident bytes change by what generations, parts and documents change.
StagedBalance ==
    /\ IsFiniteSet(objects)'
    /\ bytes' - StoredBytes(objects)' - Capacity(parts)' - DocumentBytes'
        = bytes - StoredBytes(objects) - Capacity(parts) - DocumentBytes

GoodMultipart == VersionInv' /\ GoodStep /\ PartsWell' /\ StagedBalance

LEMMA StagedNat ==
    ASSUME StoreInv, IsFiniteSet(objects)
    PROVE  /\ StoredBytes(objects) \in Nat /\ Capacity(parts) \in Nat
           /\ DocumentBytes \in Nat /\ bytes \in Int
BY StoredNat, SumOfParts, DocumentsNat
DEF StoreInv, PartsWell, VersionInv, BudgetInv, TypeInv, TypeOK

\* The same after a step.
LEMMA StagedNatLater ==
    ASSUME VersionInv', PartsWell', IsFiniteSet(objects)'
    PROVE  /\ StoredBytes(objects)' \in Nat /\ Capacity(parts)' \in Nat
           /\ DocumentBytes' \in Nat /\ bytes' \in Int
<1>1. /\ objects' \in SUBSET Generation /\ parts' \in SUBSET Part
      /\ IsFiniteSet(objects') /\ IsFiniteSet(parts') /\ bytes' \in Int
      /\ buckets' \in [Buckets -> Bucket]
  BY DEF PartsWell, VersionInv, BudgetInv, TypeInv, TypeOK
<1>2. StoredBytes(objects') \in Nat /\ Capacity(parts') \in Nat
  BY <1>1, StoredNat, SumOfParts
<1> DEFINE w == [b \in Buckets |-> Documents(b)']
<1>3. w \in [Buckets -> Nat]
  BY <1>1 DEF Bucket, Documents
<1>4. DocumentBytes' = SumFunction(w)
  BY DEF DocumentBytes
<1> HIDE DEF w
<1> QED
  BY <1>1, <1>2, <1>3, <1>4, FiniteAssumption, SumNat DEF StoredBytes, Capacity

\* A step on which generations or parts pay what they take.
LEMMA StagedChange ==
    ASSUME StoreInv, IsFiniteSet(objects), UNCHANGED buckets,
           VersionInv', PartsWell', IsFiniteSet(objects)',
           bytes' - StoredBytes(objects)' - Capacity(parts)'
                = bytes - StoredBytes(objects) - Capacity(parts)
    PROVE  StagedBalance
<1> DEFINE m == StoredBytes(objects)
           n == Capacity(parts)
           d == DocumentBytes
           x == StoredBytes(objects)'
           y == Capacity(parts)'
           z == bytes'
<1>1. m \in Nat /\ n \in Nat /\ d \in Nat /\ bytes \in Int
  BY StagedNat
<1>2. x \in Nat /\ y \in Nat /\ z \in Int
  BY StagedNatLater
<1>3. DocumentBytes' = d
  BY DEF DocumentBytes, Documents
<1>4. z - x - y = bytes - m - n
  OBVIOUS
<1> HIDE DEF m, n, d, x, y, z
<1>5. z - x - y - d = bytes - m - n - d
  BY <1>1, <1>2, <1>4
<1> QED
  BY <1>3, <1>5 DEF StagedBalance, m, n, d, x, y, z

\* A step that leaves the generations alone.
LEMMA AlonePays ==
    ASSUME StoreInv, IsFiniteSet(objects), UNCHANGED <<buckets, objects>>,
           VersionInv', GoodStep, PartsWell',
           bytes' - Capacity(parts)' = bytes - Capacity(parts)
    PROVE  GoodMultipart
<1> DEFINE m == StoredBytes(objects)
           n == Capacity(parts)
           y == Capacity(parts)'
           z == bytes'
<1>1. m \in Nat /\ n \in Nat /\ bytes \in Int
  BY StagedNat
<1>2. StoredBytes(objects)' = m /\ IsFiniteSet(objects)'
  BY DEF StoredBytes
<1>3. y \in Nat /\ z \in Int
  BY <1>2, StagedNatLater
<1>4. z - y = bytes - n
  OBVIOUS
<1> HIDE DEF m, n, y, z
<1>5. z - m - y = bytes - m - n
  BY <1>1, <1>3, <1>4
<1>6. bytes' - StoredBytes(objects)' - Capacity(parts)'
        = bytes - StoredBytes(objects) - Capacity(parts)
  BY <1>2, <1>5 DEF m, n, y, z
<1> QED
  BY <1>2, <1>6, StagedChange DEF GoodMultipart

LEMMA StoreGood ==
    ASSUME StoreInv, IsFiniteSet(objects), [Next]_vars, PartsWell',
           UNCHANGED parts
    PROVE  GoodMultipart
<1>1. VersionInv' /\ GoodStep /\ BytesBalance
  BY VersionStep, GoodNext, BalanceStep DEF StoreInv
<1> DEFINE m == StoredBytes(objects)
           n == Capacity(parts)
           d == DocumentBytes
           x == StoredBytes(objects)'
           e == DocumentBytes'
           z == bytes'
<1>2. m \in Nat /\ n \in Nat /\ d \in Nat /\ bytes \in Int
  BY StagedNat
<1>3. x \in Nat /\ e \in Nat /\ z \in Int
  BY <1>1, StagedNatLater DEF BytesBalance
<1>4. Capacity(parts)' = n
  BY DEF Capacity
<1>5. z - x - e = bytes - m - d
  BY <1>1 DEF BytesBalance
<1> HIDE DEF m, n, d, x, e, z
<1>6. z - x - n - e = bytes - m - n - d
  BY <1>2, <1>3, <1>5
<1> QED
  BY <1>1, <1>4, <1>6 DEF GoodMultipart, StagedBalance, BytesBalance,
     m, n, d, x, e, z

\* A completion that fails gives back what it reserved.
LEMMA FailureStep ==
    ASSUME StoreInv, NEW u \in uploads, NEW refs, NEW cond,
           CompletionFails(u, refs, cond)
    PROVE  UNCHANGED allVars
<1> DEFINE n == Size(Listed(u, refs))
<1>1. Listed(u, refs) \in SUBSET parts
  BY DEF Listed, Staged
<1>2. /\ Listed(u, refs) \in SUBSET Part
      /\ IsFiniteSet(Listed(u, refs))
  BY <1>1, FS_Subset DEF StoreInv, PartsWell
<1>3. n \in Nat
  BY <1>2, SumOfParts
<1>4. reserved \in Nat
  BY SizesAssumption DEF StoreInv, VersionInv, BudgetInv, TypeInv, TypeOK
<1>5. reserved' = reserved + n - n
  BY DEF CompletionFails, AssemblyReturned
<1> HIDE DEF n
<1>6. reserved' = reserved
  BY <1>3, <1>4, <1>5
<1> QED
  BY <1>6 DEF CompletionFails, allVars, vars

LEMMA MultipartGood ==
    ASSUME StoreInv, IsFiniteSet(objects), [MultipartNext]_allVars
    PROVE  GoodMultipart
<1>1. VersionInv /\ PartsWell
  BY DEF StoreInv
<1>2. CASE StoreNext /\ UNCHANGED multipartVars
  BY <1>2, StorePartsWell, StoreGood DEF Next, multipartVars
<1>3. CASE \E b \in Buckets : DeleteEmptyBucket(b)
  <2>1. (\E b \in Buckets : DeleteBucket(b)) /\ UNCHANGED multipartVars
    BY <1>3 DEF DeleteEmptyBucket
  <2> QED
    BY <2>1, StorePartsWell, StoreGood DEF Next, multipartVars
<1>7. CASE UNCHANGED allVars
  BY <1>1, <1>7, StoreGood DEF allVars, multipartVars, vars, PartsWell
<1>4. CASE UploadNext
  <2>1. ASSUME NEW b \in Buckets, NEW k \in Keys, CreateMultipartUpload(b, k)
        PROVE  GoodMultipart
    BY <2>1, CreateStep, StoreGood
  <2>2. ASSUME NEW u \in uploads, AbortMultipartUpload(u)
        PROVE  GoodMultipart
    <3>1. /\ VersionInv' /\ GoodStep /\ PartsWell'
          /\ UNCHANGED <<buckets, objects>>
          /\ bytes' - Capacity(parts)' = bytes - Capacity(parts)
      BY <2>2, AbortStep
    <3> QED
      BY <3>1, AlonePays
  <2>3. ASSUME NEW u \in uploads, NEW refs \in Completions, NEW cond,
               CompleteMultipartUpload(u, refs, cond)
        PROVE  GoodMultipart
    BY <2>3, CompletionStep, StagedChange DEF GoodMultipart
  <2>4. ASSUME NEW u \in uploads, NEW refs, NEW cond,
               CompletionFails(u, refs, cond)
        PROVE  GoodMultipart
    BY <1>7, <2>4, FailureStep
  <2> QED
    BY <1>4, <2>1, <2>2, <2>3, <2>4 DEF UploadNext
<1>5. ASSUME NEW c \in Clients, NEW r, Moves(c, r), PartCall(r),
             VersionInv', GoodStep, UNCHANGED <<buckets, objects, bytes>>,
             UNCHANGED multipartVars
      PROVE  GoodMultipart
  <2>1. PartsWell'
    BY <1>1, <1>5 DEF PartsWell, Moves, multipartVars, VersionInv, BudgetInv,
       TypeInv, TypeOK
  <2>2. bytes' - Capacity(parts)' = bytes - Capacity(parts)
    BY <1>5 DEF multipartVars, Capacity
  <2> QED
    BY <1>5, <2>1, <2>2, AlonePays
<1>6. ASSUME NEW c \in Clients, PartNext(c) \/ PartAdvance(c)
      PROVE  GoodMultipart
  <2>1. CASE PartNext(c)
    BY <1>5, <2>1, PartNextStep
  <2>2. CASE FindUpload(c)
    BY <1>5, <2>2, FindUploadStep
  <2>3. CASE CommitPart(c)
    <3>1. /\ VersionInv' /\ GoodStep /\ PartsWell'
          /\ UNCHANGED <<buckets, objects>>
          /\ bytes' - Capacity(parts)' = bytes - Capacity(parts)
      BY <2>3, CommitPartStep
    <3> QED
      BY <3>1, AlonePays
  <2> QED
    BY <1>6, <2>1, <2>2, <2>3 DEF PartAdvance
<1> QED
  BY <1>2, <1>3, <1>4, <1>6, <1>7 DEF MultipartNext

\* A part call pays for its buffer and its source as the others do.
LEMMA PartPromises ==
    ASSUME StoreInv, PromisesKept, NEW c \in Clients,
           PartNext(c) \/ PartAdvance(c)
    PROVE  PromisesKept'
<1> DEFINE p == call[c]
<1>1. /\ TypeOK /\ p \in Call /\ HeldWell(p) /\ Charge(p) \in Nat
      /\ reserved \in Nat /\ p.buf \in Nat
      /\ Charge(p) = p.buf + p.old + p.snap + p.notes
  BY ChargeNat DEF StoreInv, VersionInv, BudgetInv, TypeInv, TypeOK,
     PromisesKept
<1>2. ASSUME NEW u \in uploads, NEW n \in PartNumbers, NEW v \in Contents,
             NEW d \in Declarations(Length[v]), UploadPart(c, u, n, v, d)
      PROVE  PromisesKept'
  <2>1. PICK r \in Call : /\ r.op # "annotate" /\ r.pc = "fetched"
                          /\ Charge(r) = 0 /\ r.buf = 0 /\ r.old = 0
                          /\ Moves(c, r)
    BY <1>2, UploadPartCall
  <2>2. reserved' = reserved /\ p.pc = "idle"
    BY <1>2 DEF UploadPart
  <2>3. HeldWell(r) /\ Charge(p) = 0
    BY <1>1, <2>1, <2>2 DEF HeldWell
  <2> QED
    BY <1>1, <2>1, <2>2, <2>3, PromisesMove
<1>3. ASSUME NEW b \in Buckets, NEW k \in Keys, NEW u \in Given,
             NEW n \in PartNumbers, UploadPartCopy(c, b, k, u, n)
      PROVE  PromisesKept'
  <2>1. PICK r \in Call : /\ r.op # "annotate" /\ r.pc = "asked"
                          /\ Charge(r) \in Nat /\ r.buf = 0 /\ r.old = 0
                          /\ Moves(c, r) /\ reserved' = reserved + Charge(r)
    BY <1>3, UploadPartCopyCall
  <2>2. p.pc = "idle"
    BY <1>3 DEF UploadPartCopy
  <2>3. HeldWell(r) /\ Charge(p) = 0
    BY <1>1, <2>1, <2>2 DEF HeldWell
  <2>4. reserved' = reserved - Charge(p) + Charge(r)
    BY <1>1, <2>1, <2>3
  <2> QED
    BY <1>1, <2>1, <2>3, <2>4, PromisesMove
<1>4. CASE FindUpload(c)
  <2>1. p.pc = "asked" /\ reserved' = reserved
    BY <1>4 DEF FindUpload
  <2>2. p.buf = 0 /\ p.old = 0 /\ (p.op = "annotate" => p.snap = 0 /\ p.notes = 0)
    BY <1>1, <2>1 DEF HeldWell
  <2>3. ASSUME NEW r \in Call, r.op = p.op, Moves(c, r), r.buf = p.buf,
               r.old = p.old, r.snap = p.snap, r.notes = p.notes,
               r.pc = "fetched"
        PROVE  PromisesKept'
    <3>1. HeldWell(r) /\ Charge(r) = Charge(p)
      BY <2>2, <2>3 DEF HeldWell, Charge
    <3>2. reserved' = reserved - Charge(p) + Charge(r)
      BY <1>1, <2>1, <3>1
    <3> QED
      BY <1>1, <2>3, <3>1, <3>2, PromisesMove
  <2>4. CASE Moves(c, Settle(p))
    <3>1. Settle(p) \in Call
      BY SettleType DEF StoreInv, VersionInv, BudgetInv, TypeInv, TypeOK,
         CallsNamed
    <3> QED
      BY <1>1, <2>1, <2>2, <2>4, <3>1, PromisesSettle
  <2> QED
    BY <1>4, <2>3, <2>4, FindUploadStep
<1>5. CASE CommitPart(c)
  <2> DEFINE r == [p EXCEPT !.buf = 0]
  <2>1. \/ reserved' = reserved /\ Moves(c, Settle(p))
        \/ reserved' = reserved - p.buf /\ Moves(c, Settle(r))
    BY <1>5, CommitPartStep
  <2>2. p.op = "part" /\ Named(p)
    BY <1>5 DEF CommitPart, StoreInv, VersionInv, BudgetInv, TypeInv,
       CallsNamed
  <2>3. /\ r \in Call /\ r.op = "part" /\ r.buf = 0 /\ r.old = p.old
        /\ r.snap = p.snap /\ r.notes = p.notes /\ r.bucket = p.bucket
        /\ r.key = p.key
    BY <1>1, <2>2 DEF Call
  <2> HIDE DEF r
  <2>4. Named(r) /\ Charge(p) = Charge(r) + p.buf /\ Charge(r) \in Nat
    BY <1>1, <2>2, <2>3, ChargeNat DEF Named
  <2>5. reserved - p.buf = reserved - Charge(p) + Charge(r)
    BY <1>1, <2>4
  <2>6. Settle(p) \in Call /\ Settle(r) \in Call
    BY <1>1, <2>2, <2>3, <2>4, SettleType
  <2>7. CASE reserved' = reserved /\ Moves(c, Settle(p))
    BY <1>1, <2>2, <2>6, <2>7, PromisesSettle
  <2>8. CASE reserved' = reserved - p.buf /\ Moves(c, Settle(r))
    BY <1>1, <2>3, <2>5, <2>6, <2>8, PromisesSettle
  <2> QED
    BY <2>1, <2>7, <2>8
<1> QED
  BY <1>2, <1>3, <1>4, <1>5 DEF PartNext, PartAdvance

LEMMA MultipartPromises ==
    ASSUME StoreInv, IsFiniteSet(objects), PromisesKept,
           [MultipartNext]_allVars
    PROVE  PromisesKept'
<1>1. TypeInv
  BY DEF StoreInv, VersionInv, BudgetInv
<1>2. CASE [Next]_vars
  BY <1>1, <1>2, PromisesStep
<1>3. CASE UploadNext
  <2>1. UNCHANGED <<reserved, call>>
    BY <1>3, FailureStep
    DEF UploadNext, CreateMultipartUpload, AbortMultipartUpload,
        CompleteMultipartUpload, allVars, vars
  <2> QED
    BY <2>1, PromisesAlone
<1>4. ASSUME NEW c \in Clients, PartNext(c) \/ PartAdvance(c)
      PROVE  PromisesKept'
  BY <1>4, PartPromises
<1>5. \/ StoreNext /\ UNCHANGED multipartVars
      \/ \E b \in Buckets : DeleteEmptyBucket(b)
      \/ UNCHANGED allVars
      => [Next]_vars
  BY DEF DeleteEmptyBucket, Next, allVars, vars
<1> QED
  BY <1>2, <1>3, <1>4, <1>5 DEF MultipartNext

\* The inductive invariant of the accounts.
StagedInv ==
    /\ StoreInv /\ IsFiniteSet(objects)
    /\ StagedAccounting /\ PromisesKept

LEMMA StagedInit == MultipartInit => StagedInv
<1> SUFFICES ASSUME MultipartInit PROVE StagedInv
  OBVIOUS
<1>1. AccountInv /\ MultipartInv
  BY AccountInit, InitInv DEF MultipartInit
<1>2. PartsWell
  BY FS_EmptySet DEF MultipartInit, Init, PartsWell, PartCall, Idle
<1>3. Capacity(parts) = 0
  BY SumEmpty DEF MultipartInit, Capacity
<1>4. bytes = 0 /\ StoredBytes(objects) = 0 /\ DocumentBytes = 0
  <2>1. bytes = StoredBytes(objects) + DocumentBytes /\ bytes = 0
    BY <1>1
    DEF AccountInv, Accounting, StoredBytes, DocumentBytes, MultipartInit, Init
  <2>2. StoredBytes(objects) = 0
    BY SumEmpty DEF MultipartInit, Init, StoredBytes
  <2>3. DocumentBytes \in Nat
    BY <1>1, DocumentsNat
    DEF AccountInv, VersionInv, BudgetInv, TypeInv, TypeOK
  <2> QED
    BY <2>1, <2>2, <2>3
<1>5. StagedAccounting
  BY <1>1, <1>3, <1>4 DEF StagedAccounting, AccountInv, PromisesKept,
     PromisedBytes, StoredBytes, DocumentBytes
<1> QED
  BY <1>1, <1>2, <1>5 DEF StagedInv, StoreInv, AccountInv

LEMMA StagedStep == StagedInv /\ [MultipartNext]_allVars => StagedInv'
<1> SUFFICES ASSUME StagedInv, [MultipartNext]_allVars PROVE StagedInv'
  OBVIOUS
<1>1. StoreInv /\ IsFiniteSet(objects) /\ PromisesKept /\ StagedAccounting
  BY DEF StagedInv
<1>2. GoodMultipart /\ PromisesKept' /\ MultipartInv'
  BY <1>1, MultipartGood, MultipartPromises, NextInv
  DEF StoreInv, KeepsTogether
<1>3. StoreInv' /\ IsFiniteSet(objects)'
  BY <1>2 DEF GoodMultipart, StagedBalance, StoreInv
<1>4. bytes' = StoredBytes(objects)' + Capacity(parts)' + DocumentBytes'
  <2> DEFINE m == StoredBytes(objects)
             n == Capacity(parts)
             d == DocumentBytes
             x == StoredBytes(objects)'
             y == Capacity(parts)'
             e == DocumentBytes'
             z == bytes'
  <2>1. m \in Nat /\ n \in Nat /\ d \in Nat /\ bytes \in Int
    BY <1>1, StagedNat
  <2>2. x \in Nat /\ y \in Nat /\ e \in Nat /\ z \in Int
    BY <1>3, StagedNatLater DEF StoreInv
  <2>3. bytes = m + n + d
    BY <1>1 DEF StagedAccounting, StoredBytes, DocumentBytes
  <2>4. z - x - y - e = bytes - m - n - d
    BY <1>2 DEF GoodMultipart, StagedBalance
  <2> HIDE DEF m, n, d, x, y, e, z
  <2>5. z = x + y + e
    BY <2>1, <2>2, <2>3, <2>4
  <2> QED
    BY <2>5 DEF x, y, e, z
<1>5. StagedAccounting'
  BY <1>2, <1>4
  DEF PromisesKept, StagedAccounting, StoredBytes, DocumentBytes, PromisedBytes
<1> QED
  BY <1>2, <1>3, <1>5 DEF StagedInv

\* The listed parts are published as they are staged.
LEMMA CompletionPublishes ==
    ASSUME StoreInv, NEW u \in uploads, NEW refs \in Completions, NEW cond,
           CompleteMultipartUpload(u, refs, cond),
           NEW g \in objects', g.order > order
    PROVE  /\ g.bucket = u.bucket /\ g.key = u.key
           /\ \A n \in DOMAIN g.content :
                \E p \in Staged(u) : p.number = n /\ p.content = g.content[n]
           /\ g.len = Size(Listed(u, g.content))
<1> DEFINE new == Assembly(u, refs, Replaced(u.bucket, u.key))
<1>1. /\ CanComplete(u, refs, cond)
      /\ objects' = (objects \ Replaced(u.bucket, u.key)) \cup {new}
  BY DEF CompleteMultipartUpload
<1>2. \A h \in objects : h.order <= order
  BY SizesAssumption DEF StoreInv, VersionInv, BudgetInv, TypeInv, TypeOK,
     HistoryOK
<1>3. \A h \in objects : h.order \in Nat
  BY DEF StoreInv, VersionInv, BudgetInv, TypeInv, TypeOK, Generation
<1>4. order \in Nat
  BY SizesAssumption DEF StoreInv, VersionInv, BudgetInv, TypeInv, TypeOK
<1>5. g = new
  <2> HIDE DEF new
  <2> QED
    BY <1>1, <1>2, <1>3, <1>4
<1>6. /\ new.bucket = u.bucket /\ new.key = u.key /\ new.content = refs
      /\ new.len = Size(Listed(u, refs))
  BY DEF Assembly, Published, Idle
<1>7. \A n \in DOMAIN refs :
        \E p \in Staged(u) : p.number = n /\ p.content = refs[n]
  BY <1>1 DEF CanComplete, PartsAccepted, SameTag
<1> QED
  BY <1>5, <1>6, <1>7

\* Only a completion ends an upload with a newer generation.
LEMMA OnlyCompletions ==
    ASSUME StoreInv, [MultipartNext]_allVars, uploads' # uploads,
           NEW g \in objects', g.order > order
    PROVE  \E u \in uploads, refs \in Completions, cond \in WriteConditions :
                CompleteMultipartUpload(u, refs, cond)
<1>1. UploadNext
  BY DEF MultipartNext, multipartVars, allVars, DeleteEmptyBucket, PartNext,
     PartAdvance, UploadPart, UploadPartCopy, FindUpload, CommitPart
<1>2. order \in Nat /\ \A h \in objects : h.order \in 1..order
  BY SizesAssumption DEF StoreInv, VersionInv, BudgetInv, TypeInv, TypeOK,
     HistoryOK
<1>3. objects' # objects
  BY <1>2
<1> QED
  BY <1>1, <1>3
  DEF UploadNext, CreateMultipartUpload, AbortMultipartUpload,
      CompletionFails, vars

(***************************************************************************)
(* The theorems on the generations and the budget                          *)
(***************************************************************************)
LEMMA StagedAlways == MultipartSpec => []StagedInv
BY StagedInit, StagedStep, PTL DEF MultipartSpec

\* Staged parts, generations and documents together hold exactly the resident
\* bytes: Commit_Part, Complete_Multipart and Abort_Multipart return what they
\* take away.
THEOREM StagedBytesAreOwed == MultipartSpec => []StagedAccounting
<1>1. StagedInv => StagedAccounting
  BY DEF StagedInv
<1> QED
  BY <1>1, StagedAlways, PTL

\* Parts, completions and the other calls stay within Byte_Capacity.
THEOREM PartsFit == MultipartSpec => []CapacityBound
<1>1. StagedInv => CapacityBound
  BY DEF StagedInv, StoreInv, VersionInv, BudgetInv
<1> QED
  BY <1>1, StagedAlways, PTL

\* Neither completions nor the calls beside them take a protected generation.
THEOREM ProtectedByUploads == MultipartSpec => ProtectedStay
<1>1. StagedInv /\ [MultipartNext]_allVars
        => [\A g \in objects : Protected(g) => Keeps(g)]_vars
  BY MultipartGood
  DEF StagedInv, GoodMultipart, GoodStep, KeepsProtected
<1> QED
  BY <1>1, StagedAlways, PTL DEF MultipartSpec, ProtectedStay

\* Complete_Multipart publishes the parts that are staged at that moment, at
\* their size.
THEOREM StagedIsPublished == MultipartSpec => PublishesStagedParts
<1> DEFINE Publishes ==
      \A g \in objects' :
          (g.order > order /\ uploads' # uploads) =>
              \E u \in uploads \ uploads' :
                  /\ g.bucket = u.bucket /\ g.key = u.key
                  /\ \A n \in DOMAIN g.content :
                        \E p \in Staged(u) : /\ p.number = n
                                             /\ p.content = g.content[n]
                  /\ g.len = Size(Listed(u, g.content))
<1>1. ASSUME StagedInv, [MultipartNext]_allVars PROVE Publishes
  <2> SUFFICES ASSUME NEW g \in objects', g.order > order, uploads' # uploads
               PROVE  \E u \in uploads \ uploads' :
                  /\ g.bucket = u.bucket /\ g.key = u.key
                  /\ \A n \in DOMAIN g.content :
                        \E p \in Staged(u) : /\ p.number = n
                                             /\ p.content = g.content[n]
                  /\ g.len = Size(Listed(u, g.content))
    OBVIOUS
  <2>1. StoreInv
    BY <1>1 DEF StagedInv
  <2>2. PICK u \in uploads, refs \in Completions, cond \in WriteConditions :
            CompleteMultipartUpload(u, refs, cond)
    BY <1>1, <2>1, OnlyCompletions
  <2>3. u \in uploads \ uploads'
    BY <2>2 DEF CompleteMultipartUpload
  <2> QED
    BY <2>1, <2>2, <2>3, CompletionPublishes
<1>2. StagedInv /\ [MultipartNext]_allVars => [Publishes]_allVars
  BY <1>1
<1> QED
  BY <1>2, StagedAlways, PTL DEF MultipartSpec, PublishesStagedParts
===============================================================================

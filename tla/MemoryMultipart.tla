--------------------------- MODULE MemoryMultipart ---------------------------
(***************************************************************************)
(* Multipart uploads in the in-memory backend, composed with the buckets,  *)
(* generations, calls and byte budget of MemoryStore.                      *)
(***************************************************************************)
EXTENDS MemoryStore

CONSTANTS
    PartNumbers,   \* part numbers that clients use
    MinPart,       \* the 5 MiB that every part but the last must have
    MaxUpload      \* the last upload number, Long_Long_Integer'Last

ASSUME PartsAssumption ==
    /\ PartNumbers \subseteq Nat \ {0}
    /\ MinPart \in Nat
    /\ MaxUpload \in Nat

VARIABLES
    uploads,      \* the used upload slots
    parts,        \* the used part slots
    nextUpload    \* Next_Upload, the last upload number given out

multipartVars == <<uploads, parts, nextUpload>>
allVars == <<vars, multipartVars>>

(* An upload ID is a digest of the bucket, the key and the upload number.  *)
Upload == [id : Nat, bucket : Buckets, key : Keys]
Part == [upload : Nat, number : PartNumbers, content : Contents,
         cap : Nat, len : Nat]

(* Mutant: parts are found by bucket and key. *)
StagedForKey(u) ==
    {p \in parts : \E w \in uploads : /\ w.id = p.upload
                                      /\ w.bucket = u.bucket
                                      /\ w.key = u.key}

Staged(u) == {p \in parts : p.upload = u.id}
Capacity(ps) == SumFunction([p \in ps |-> p.cap])
Size(ps) == SumFunction([p \in ps |-> p.len])

(* Mutant: the slack of the buffers is not returned. *)
StagedLength(u) == Size(Staged(u))

(* The bytes that the end of an upload returns. *)
StagedSpace(u) == Capacity(Staged(u))

MultipartInit ==
    /\ Init
    /\ uploads = {}
    /\ parts = {}
    /\ nextUpload = 0

UploadNumberLeft == nextUpload < MaxUpload

(* Mutant: the upload is named after its slot. *)
SlotNumber == Cardinality(uploads) + 1

NewUploadNumber == nextUpload + 1

CreateMultipartUpload(b, k) ==
    /\ "CreateMultipartUpload" \in Calls
    /\ buckets[b].used
    /\ Cardinality(uploads) < ObjectLimit
    /\ UploadNumberLeft
    /\ nextUpload' = NewUploadNumber
    /\ uploads' = uploads \cup
            {[id |-> NewUploadNumber, bucket |-> b, key |-> k]}
    /\ UNCHANGED <<vars, parts>>

(* A part finds its upload, and starts to read its body.                   *)
UploadPart(c, u, n, v, declared) ==
    /\ "UploadPart" \in Calls
    /\ call[c].pc = "idle"
    /\ u \in uploads
    /\ Moves(c, [Idle EXCEPT !.op = "part", !.pc = "fetched",
                    !.upload = u.id, !.part = n, !.bucket = u.bucket,
                    !.key = u.key, !.content = v, !.declared = declared,
                    !.size = Length[v]])
    /\ UNCHANGED <<buckets, objects, order, bytes, reserved, now>>
    /\ UNCHANGED multipartVars

(* Fetch_Range: the source is copied and charged before the upload is      *)
(* looked up, so the upload need not exist.  Only whole objects with a     *)
(* plain body are copied here.                                             *)
UploadPartCopy(c, b, k, u, n) ==
    /\ "UploadPartCopy" \in Calls
    /\ call[c].pc = "idle"
    /\ \E g \in Visible(objects, b, k, Current) :
            /\ g.content \in Contents
            /\ Fits(g.len)
            /\ reserved' = reserved + g.len
            /\ Moves(c, [Idle EXCEPT !.op = "part", !.pc = "asked",
                            !.upload = u.id, !.part = n,
                            !.bucket = u.bucket, !.key = u.key,
                            !.content = g.content, !.declared = g.len,
                            !.size = g.len, !.snap = g.len])
    /\ UNCHANGED <<buckets, objects, order, bytes, now>>
    /\ UNCHANGED multipartVars

Target(r) == {u \in uploads : /\ u.id = r.upload
                              /\ u.bucket = r.bucket
                              /\ u.key = r.key}

(* Multipart_Configuration. *)
FindUpload(c) ==
    /\ call[c].pc = "asked"
    /\ Moves(c, IF Target(call[c]) # {}
                THEN [call[c] EXCEPT !.pc = "fetched"]
                ELSE Settle(call[c]))
    /\ UNCHANGED <<buckets, objects, order, bytes, reserved, now>>
    /\ UNCHANGED multipartVars

SamePart(r) == {p \in parts : p.upload = r.upload /\ p.number = r.part}

(* Mutant: the upload that was found before the body was streamed. *)
UploadRemembered(r) == TRUE

(* Commit_Part looks the upload up again: it may have been completed or    *)
(* aborted while the body was streamed.                                    *)
UploadFound(r) == Target(r) # {}

CanCommitPart(r) ==
    /\ Honest(r)
    /\ UploadFound(r)
    /\ SamePart(r) # {} \/ Cardinality(parts) < ObjectLimit
    /\ r.buf <= ByteLimit - (bytes - Capacity(SamePart(r)))
    /\ r.buf <= reserved

CommitPart(c) ==
    /\ call[c].op = "part"
    /\ Delivered(call[c])
    /\ LET r == call[c]
       IN IF CanCommitPart(r)
          THEN /\ parts' = (parts \ SamePart(r)) \cup
                    {[upload |-> r.upload, number |-> r.part,
                      content |-> r.content, cap |-> r.buf, len |-> r.len]}
               /\ bytes' = bytes - Capacity(SamePart(r)) + r.buf
               /\ reserved' = reserved - r.buf
               /\ Moves(c, Settle([r EXCEPT !.buf = 0]))
          ELSE /\ Moves(c, Settle(r))
               /\ UNCHANGED <<parts, bytes, reserved>>
    /\ UNCHANGED <<buckets, objects, order, now, uploads, nextUpload>>

(* refs maps the part numbers that the client lists, in ascending order,   *)
(* to the ETags that it got for them.                                      *)
Listed(u, refs) == {p \in Staged(u) : p.number \in DOMAIN refs}

(* Mutant: the ETag is not compared. *)
AnyTag(p, tag) == TRUE

(* The stored part is the one that the client was told about. *)
SameTag(p, tag) == p.content = tag

PartsAccepted(u, refs) ==
    /\ DOMAIN refs # {}
    /\ \A n \in DOMAIN refs :
            \E p \in Staged(u) : p.number = n /\ SameTag(p, refs[n])
    /\ \A p \in Listed(u, refs) :
            p.len >= MinPart \/ \A n \in DOMAIN refs : n <= p.number

AssemblyFits(u, refs) == Fits(Size(Listed(u, refs)))

(* The assembled body is charged beside the staged parts and the old body. *)
CanComplete(u, refs, cond) ==
    /\ PartsAccepted(u, refs)
    /\ WriteAllowed(cond, Visible(objects, u.bucket, u.key, Current))
    /\ AssemblyFits(u, refs)
    /\ OrderLeft(order)
    /\ \/ Replaced(u.bucket, u.key) # {}
       \/ Cardinality(objects) < ObjectLimit

Assembly(u, refs, replaced) ==
    LET size == Size(Listed(u, refs))
    IN Published([Idle EXCEPT !.bucket = u.bucket, !.key = u.key,
                     !.content = refs, !.buf = size, !.len = size], replaced)

(* Publication, release of every staged part and the end of the upload are *)
(* one protected call; whatever is refused leaves the upload as it is.     *)
CompleteMultipartUpload(u, refs, cond) ==
    /\ "CompleteMultipartUpload" \in Calls
    /\ u \in uploads
    /\ CanComplete(u, refs, cond)
    /\ LET replaced == Replaced(u.bucket, u.key)
       IN /\ objects' = (objects \ replaced)
                            \cup {Assembly(u, refs, replaced)}
          /\ bytes' = bytes - StagedSpace(u) - SpaceOf(replaced)
                        + Size(Listed(u, refs))
    /\ order' = NextOrder(order)
    /\ parts' = parts \ Staged(u)
    /\ uploads' = uploads \ {u}
    /\ UNCHANGED <<buckets, reserved, now, call, nextUpload>>

(* What the handler gives back of the bytes reserved for an assembly.      *)
AssemblyReturned(u, refs) == Size(Listed(u, refs))

(* A completion that fails once the bytes of the assembled body are        *)
(* reserved: no order or no slot is left, or an allocation raises.         *)
CompletionFails(u, refs, cond) ==
    /\ "CompleteMultipartUpload" \in Calls
    /\ u \in uploads
    /\ PartsAccepted(u, refs)
    /\ WriteAllowed(cond, Visible(objects, u.bucket, u.key, Current))
    /\ AssemblyFits(u, refs)
    /\ reserved' = reserved + Size(Listed(u, refs))
                       - AssemblyReturned(u, refs)
    /\ UNCHANGED <<buckets, objects, order, bytes, now, call>>
    /\ UNCHANGED multipartVars

AbortMultipartUpload(u) ==
    /\ "AbortMultipartUpload" \in Calls
    /\ u \in uploads
    /\ bytes' = bytes - StagedSpace(u)
    /\ parts' = parts \ Staged(u)
    /\ uploads' = uploads \ {u}
    /\ UNCHANGED <<buckets, objects, order, reserved, now, call, nextUpload>>

(* Mutant: uploads in progress are not looked at. *)
UploadsIgnored(b) == TRUE

(* An upload in progress keeps its bucket. *)
NoUploads(b) == \A u \in uploads : u.bucket # b

DeleteEmptyBucket(b) ==
    /\ NoUploads(b)
    /\ DeleteBucket(b)
    /\ UNCHANGED multipartVars

(* The completions that a client can ask for. *)
Completions == UNION {[ns -> Contents] : ns \in SUBSET PartNumbers}

ASSUME AssemblyAssumption == Completions \ {<<>>} \subseteq Assembled

UploadNext ==
    \/ \E b \in Buckets, k \in Keys : CreateMultipartUpload(b, k)
    \/ \E u \in uploads :
            \/ AbortMultipartUpload(u)
            \/ \E refs \in Completions, cond \in WriteConditions :
                    \/ CompleteMultipartUpload(u, refs, cond)
                    \/ CompletionFails(u, refs, cond)

(* The uploads that a client can name: those that were given out, live or  *)
(* ended, with any bucket and key.                                         *)
Given == [id : 1..nextUpload, bucket : Buckets, key : Keys]

PartNext(c) ==
    \E n \in PartNumbers :
        \/ \E u \in uploads, v \in Contents :
                \E d \in Declarations(Length[v]) : UploadPart(c, u, n, v, d)
        \/ \E b \in Buckets, k \in Keys, u \in Given :
                UploadPartCopy(c, b, k, u, n)

PartAdvance(c) == FindUpload(c) \/ CommitPart(c)

MultipartNext ==
    \/ StoreNext /\ UNCHANGED multipartVars
    \/ \E b \in Buckets : DeleteEmptyBucket(b)
    \/ UploadNext
    \/ \E c \in Clients : PartNext(c) \/ PartAdvance(c)

MultipartSpec == MultipartInit /\ [][MultipartNext]_allVars

-----------------------------------------------------------------------------
(* Properties. *)

(* No part outlives its upload: a part that was streamed while its upload  *)
(* was completed or aborted is not stored, where it would hold bytes that  *)
(* no operation could ever free.  And an upload has one part per number,   *)
(* however many streams sent it.                                           *)
PartsHaveUploads ==
    /\ \A p \in parts : \E u \in uploads : u.id = p.upload
    /\ \A p, q \in parts :
            p.upload = q.upload /\ p.number = q.number => p = q

(* The bucket of an upload is live: CompleteMultipartUpload reads its      *)
(* versioning without looking whether it exists.                           *)
UploadsHaveBuckets == \A u \in uploads : buckets[u.bucket].used

(* The upload that has the number i. *)
Live(i) == \E u \in uploads : u.id = i

(* An upload ID names one upload: no two live uploads have it, and once    *)
(* the upload that had it has ended, no later one has it.  A client that   *)
(* still holds the ID of an upload that was completed or aborted, or a     *)
(* stream that committed nothing yet, never reaches another upload.        *)
IdsNameOneUpload ==
    /\ [](\A u, w \in uploads : u.id = w.id => u = w)
    /\ \A i \in 1..MaxUpload :
            [](Live(i) => [](~Live(i) => []~Live(i)))

(* Every byte is owed to somebody, the staged parts included: completing,  *)
(* replacing and aborting return exactly what they take away.              *)
StagedAccounting ==
    /\ bytes = SumFunction([g \in objects |-> Resident(g)]) + Capacity(parts)
                + SumFunction([b \in Buckets |-> Documents(b)])
    /\ reserved = SumFunction([c \in Clients |-> Charge(call[c])])

(* While an upload lasts it loses no part number: a completion that is     *)
(* refused, or another upload that ends, takes nothing from it.            *)
PartsStayWithUpload ==
    [][\A u \in uploads \cap uploads', p \in parts :
          p.upload = u.id =>
              \E q \in parts' : q.upload = u.id /\ q.number = p.number]_allVars

(* What a completion publishes is what was staged at that moment under the *)
(* upload that it ends, part by part, at the size of those parts; a part   *)
(* replaced after the client learnt its ETag is not published unseen.      *)
PublishesStagedParts ==
    [][\A g \in objects' :
          (g.order > order /\ uploads' # uploads) =>
              \E u \in uploads \ uploads' :
                  /\ g.bucket = u.bucket /\ g.key = u.key
                  /\ \A n \in DOMAIN g.content :
                        \E p \in Staged(u) : /\ p.number = n
                                             /\ p.content = g.content[n]
                  /\ g.len = Size(Listed(u, g.content))]_allVars
=============================================================================

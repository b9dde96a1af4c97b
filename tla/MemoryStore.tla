----------------------------- MODULE MemoryStore -----------------------------
(***************************************************************************)
(* The in-memory backend: the protected object Memory_State and the        *)
(* procedures of Store that call it, for buckets, object generations and   *)
(* the byte budget.  Multipart uploads are added by MemoryMultipart.       *)
(*                                                                         *)
(* Every protected procedure is one action, because Ada runs it under the  *)
(* lock of the protected object.  A streaming call (PutObject, CopyObject, *)
(* PutObjectAnnotation, GetObject) makes several protected calls and runs  *)
(* caller code between them: it is a record call[c] that moves through one *)
(* action per protected call, so that the calls interleave.                *)
(*                                                                         *)
(* A call that returns an error before it changed anything is a stuttering *)
(* step and has no action.                                                 *)
(***************************************************************************)
EXTENDS Integers, FiniteSets, Functions

CONSTANTS
    Buckets,      \* bucket names
    Keys,         \* object keys
    Contents,     \* bodies that a client uploads; a body stands for its ETag
    Assembled,    \* bodies that a completed multipart upload assembles
    NoContent,    \* the body of a delete marker
    Length,       \* Length[v] is the size of body v
    Clients,      \* tasks that make streaming calls
    BucketLimit,  \* Bucket_Capacity of the store
    ObjectLimit,  \* Object_Capacity of the store
    ByteLimit,    \* Byte_Capacity of the store
    MinGrowth,    \* the 4096-byte floor of Growth_Capacity
    Chunk,        \* the 16 KiB buffer of one Source.Read
    MaxOrder,     \* Version_Publication_Order'Last
    MaxTick,      \* bound of the clock in a model
    DocumentSizes,    \* sizes of the bucket documents that callers send
    WriteConditions,  \* conditions that callers put on a write
    DeleteConditions, \* conditions that callers put on a delete
    Attestations,     \* MFA_Validated as sent with a versioning change
    DeleteAttestations,   \* MFA_Validated as sent with a deletion
    Slips,        \* declared minus delivered length of a source that declares
    Calls,            \* the operations that callers use
    Current, Null,    \* the selectors that name no exact version
    Unconditional,    \* no condition; a body is If-Match with its ETag
    IfAbsent,         \* the write condition If-None-Match: *
    IfPresent         \* the delete condition with the ETag *

Bodies == Contents \cup Assembled

Statuses == {"Unconfigured", "Enabled", "Suspended"}
MFAStates == {"Unconfigured", "Enabled", "Disabled"}
Modes == {"None", "Governance", "Compliance"}

ASSUME SizesAssumption ==
    /\ Length \in [Contents -> Nat]
    /\ ByteLimit \in Nat
    /\ MinGrowth \in Nat \ {0}
    /\ Chunk \in Nat \ {0}
    /\ MaxOrder \in Nat
    /\ MaxTick \in Nat
    /\ DocumentSizes \subseteq Nat
    /\ Slips \subseteq Int

ASSUME ConditionsAssumption ==
    /\ WriteConditions \subseteq Contents \cup {Unconditional, IfAbsent}
    /\ DeleteConditions \subseteq Contents \cup {Unconditional, IfPresent}
    /\ Attestations \subseteq BOOLEAN
    /\ DeleteAttestations \subseteq BOOLEAN
    /\ {NoContent, Unconditional, IfAbsent, IfPresent} \cap Bodies = {}
    /\ Unconditional \notin {IfAbsent, IfPresent}
    /\ NoContent \notin {Unconditional, IfAbsent, IfPresent}
    /\ Current # Null
    /\ Current \notin Nat /\ Null \notin Nat

ASSUME FiniteAssumption == IsFiniteSet(Buckets) /\ IsFiniteSet(Clients)

VARIABLES
    buckets,   \* the bucket slots
    objects,   \* the used object slots: generations and delete markers
    order,     \* Next_Version, the last publication order given out
    bytes,     \* Bytes, the resident bytes
    reserved,  \* Reserved_Bytes, the bytes promised to calls in progress
    now,       \* the wall clock, in half seconds
    call       \* call[c] is the streaming call of client c

vars == <<buckets, objects, order, bytes, reserved, now, call>>

-----------------------------------------------------------------------------
(* Buckets, generations and calls. *)

NewBucket == [used |-> FALSE, versioning |-> "Unconfigured",
              mfa |-> "Unconfigured", lock |-> FALSE,
              policy |-> 0, document |-> 0]

Bucket == [used : BOOLEAN, versioning : Statuses, mfa : MFAStates,
           lock : BOOLEAN, policy : Nat, document : Nat]

(* cap is Data.Capacity and len is Data.Length; notes is the capacity and  *)
(* noteLen the length of the annotation body kept with the generation.     *)
Generation ==
    [bucket : Buckets, key : Keys, order : Nat, null : BOOLEAN,
     marker : BOOLEAN, content : Bodies \cup {NoContent},
     cap : Nat, len : Nat, notes : Nat, noteLen : Nat,
     hold : BOOLEAN, mode : Modes, until : Nat]

Selectors == {Current, Null} \cup 1..MaxOrder

(* buf is the reserved capacity of the buffer, old that of the array which *)
(* a growth replaces, snap a source snapshot and notes the annotations     *)
(* copied with it; len of the size bytes that the source delivers are read.*)
Call ==
    [pc : {"idle", "asked", "fetched", "read", "exact", "grown", "unwind"},
     op : {"none", "put", "copy", "annotate", "get", "part"},
     upload : Nat, part : Nat,   \* used by MemoryMultipart
     bucket : Buckets \cup {"none"}, key : Keys \cup {"none"},
     sel : Selectors,
     cond : WriteConditions \cup DeleteConditions \cup {Unconditional},
     content : Bodies \cup {NoContent},
     declared : Nat \cup {-1}, size : Nat, len : Nat,
     buf : Nat, old : Nat, snap : Nat, notes : Nat]

Idle == [pc |-> "idle", op |-> "none", upload |-> 0, part |-> 0,
         bucket |-> "none", key |-> "none", sel |-> Current,
         cond |-> Unconditional, content |-> NoContent,
         declared |-> -1, size |-> 0, len |-> 0, buf |-> 0, old |-> 0, snap |-> 0, notes |-> 0]

Unknown == -1   \* a source that does not declare its length

(* What a call holds of the budget. *)
Charge(r) == r.buf + r.old + r.snap + r.notes

(* The call once it ends, or once it has something left to release. *)
Settle(r) == IF Charge(r) = 0 THEN Idle ELSE [r EXCEPT !.pc = "unwind"]

-----------------------------------------------------------------------------
(* Version selection.  A selector is the current, the null or an exact     *)
(* version; an exact version ID is a digest of the publication order.      *)

Matches(g, sel) ==
    \/ sel = Current
    \/ sel = Null /\ g.null
    \/ sel = g.order /\ ~g.null

(* The newest generation that a selector names, or none. *)
Selected(objs, b, k, sel) ==
    LET named == {g \in objs : g.bucket = b /\ g.key = k /\ Matches(g, sel)}
    IN {g \in named : \A h \in named : h.order <= g.order}

(* The same for a read, which does not see a delete marker. *)
Visible(objs, b, k, sel) ==
    {g \in Selected(objs, b, k, sel) : ~g.marker}

(* Mutant: a null delete marker is not seen. *)
VisibleNullSlot(objs, b, k) == Visible(objs, b, k, Null)

(* The null generation, which a suspended bucket overwrites. *)
NullSlot(objs, b, k) == Selected(objs, b, k, Null)

(* Mutant: an enabled bucket overwrites the current generation. *)
OverwritesCurrent(b, k) == Visible(objects, b, k, Current)

(* The slot that a publication overwrites, if any. *)
Replaced(b, k) ==
    CASE buckets[b].versioning = "Unconfigured" ->
            Visible(objects, b, k, Current)
      [] buckets[b].versioning = "Enabled" -> {}
      [] buckets[b].versioning = "Suspended" -> NullSlot(objects, b, k)

(* Mutant: a publication order is the number of the generation. *)
CountedOrder(last) == Cardinality(objects) + 1

(* New_Order, and the check that it does not overflow. *)
NextOrder(last) == last + 1

(* Mutant: an off-by-one. *)
OrderOverflows(last) == last <= MaxOrder

OrderLeft(last) == last < MaxOrder

(* Mutant: a present key does not fail If-None-Match: *. *)
IgnoresIfAbsent(cond, current) ==
    cond \in {Unconditional, IfAbsent} \/ \E g \in current : g.content = cond

WriteAllowed(cond, current) ==
    \/ cond = Unconditional
    \/ cond = IfAbsent /\ current = {}
    \/ \E g \in current : g.content = cond

DeleteAllowed(cond, target) ==
    \/ cond = Unconditional
    \/ cond = IfPresent /\ target # {}
    \/ \E g \in target : g.content = cond

-----------------------------------------------------------------------------
(* The byte budget. *)

Larger(m, n) == IF m < n THEN n ELSE m

(* Growth_Capacity: at least double, never below the floor. *)
Growth(cap, required) ==
    IF required <= cap THEN cap ELSE 2 * Larger(required, MinGrowth)

Resident(g) == g.cap + g.notes

Documents(b) == buckets[b].policy + buckets[b].document

(* Mutant: the annotations of an overwritten slot are not discounted. *)
BodySpaceOf(gs) == IF gs = {} THEN 0 ELSE (CHOOSE g \in gs : TRUE).cap

(* The space of a slot that may be there. *)
SpaceOf(gs) == IF gs = {} THEN 0 ELSE Resident(CHOOSE g \in gs : TRUE)

(* Mutant: the promised bytes are forgotten. *)
FitsResident(n) == n <= ByteLimit - bytes

Fits(n) == /\ n <= ByteLimit - bytes
           /\ reserved <= ByteLimit - bytes - n

(* Release_Transient, which raises Program_Error on an underflow. *)
Freed(n) == IF n <= reserved THEN reserved - n ELSE reserved

(* The clock that the code reads: seconds, rounded to the nearest, because *)
(* an Ada conversion of a Duration to an integer rounds.                   *)
UnixTime(t) == (t + 1) \div 2

(* Readings that a call can carry into the protected object: it reads the  *)
(* clock first and may wait for the lock.                                  *)
Readings == {UnixTime(t) : t \in 0..now}

-----------------------------------------------------------------------------
(* Buckets. *)

Init ==
    /\ buckets = [b \in Buckets |-> NewBucket]
    /\ objects = {}
    /\ order = 0
    /\ bytes = 0
    /\ reserved = 0
    /\ now = 0
    /\ call = [c \in Clients |-> Idle]

CreateBucket(b) ==
    /\ "CreateBucket" \in Calls
    /\ ~buckets[b].used
    /\ Cardinality({d \in Buckets : buckets[d].used}) < BucketLimit
    /\ buckets' = [buckets EXCEPT ![b].used = TRUE]
    /\ UNCHANGED <<objects, order, bytes, reserved, now, call>>

DeleteBucket(b) ==
    /\ "DeleteBucket" \in Calls
    /\ buckets[b].used
    /\ \A g \in objects : g.bucket # b
    /\ bytes' = bytes - buckets[b].policy - buckets[b].document
    /\ buckets' = [buckets EXCEPT ![b] = NewBucket]
    /\ UNCHANGED <<objects, order, reserved, now, call>>

(* Mutant: a field that is absent from the request is reset. *)
Overwritten(current, update) == update

(* Merge_Bucket_Versioning: Unconfigured in the request means unchanged. *)
Merged(current, update) ==
    IF update = "Unconfigured" THEN current ELSE update

(* Mutant: the object lock is not looked at. *)
SuspendsLocked(b, status) == TRUE

(* A locked bucket keeps its versioning. *)
StatusAllowed(b, status) == ~(buckets[b].lock /\ status = "Suspended")

PutBucketVersioning(b, status, mfa, validated) ==
    /\ "PutBucketVersioning" \in Calls
    /\ buckets[b].used
    /\ StatusAllowed(b, status)
    /\ validated \/ (buckets[b].mfa # "Enabled" /\ mfa = "Unconfigured")
    /\ buckets' = [buckets EXCEPT
            ![b].versioning = Merged(@, status), ![b].mfa = Merged(@, mfa)]
    /\ UNCHANGED <<objects, order, bytes, reserved, now, call>>

EnableBucketObjectLock(b) ==
    /\ "EnableBucketObjectLock" \in Calls
    /\ buckets[b].used
    /\ buckets[b].versioning = "Enabled"
    /\ buckets' = [buckets EXCEPT ![b].lock = TRUE]
    /\ UNCHANGED <<objects, order, bytes, reserved, now, call>>

(* The old policy stays charged while the new one is checked. *)
PutBucketPolicy(b, n) ==
    /\ "PutBucketPolicy" \in Calls
    /\ buckets[b].used
    /\ Fits(n)
    /\ buckets' = [buckets EXCEPT ![b].policy = n]
    /\ bytes' = bytes - buckets[b].policy + n
    /\ UNCHANGED <<objects, order, reserved, now, call>>

(* The CORS, encryption, ownership and other documents: the old one is     *)
(* discounted before the new one is checked.                               *)
PutBucketDocument(b, n) ==
    /\ "PutBucketDocument" \in Calls
    /\ buckets[b].used
    /\ LET base == bytes - buckets[b].document
       IN /\ n <= ByteLimit - base
          /\ reserved <= ByteLimit - base - n
          /\ bytes' = base + n
    /\ buckets' = [buckets EXCEPT ![b].document = n]
    /\ UNCHANGED <<objects, order, reserved, now, call>>

DeleteBucketPolicy(b) ==
    /\ "DeleteBucketPolicy" \in Calls
    /\ buckets[b].used
    /\ bytes' = bytes - buckets[b].policy
    /\ buckets' = [buckets EXCEPT ![b].policy = 0]
    /\ UNCHANGED <<objects, order, reserved, now, call>>

DeleteBucketDocument(b) ==
    /\ "DeleteBucketDocument" \in Calls
    /\ buckets[b].used
    /\ bytes' = bytes - buckets[b].document
    /\ buckets' = [buckets EXCEPT ![b].document = 0]
    /\ UNCHANGED <<objects, order, reserved, now, call>>

BucketNext ==
    \E b \in Buckets :
        \/ CreateBucket(b)
        \/ \E s \in Statuses, f \in MFAStates, v \in Attestations :
                PutBucketVersioning(b, s, f, v)
        \/ EnableBucketObjectLock(b)
        \/ \E n \in DocumentSizes :
                PutBucketPolicy(b, n) \/ PutBucketDocument(b, n)
        \/ DeleteBucketPolicy(b)
        \/ DeleteBucketDocument(b)

-----------------------------------------------------------------------------
(* Deletion.  DeleteObjects runs its entries one after the other inside one*)
(* protected call, so an entry is a function on the part of the state that *)
(* it changes; an entry that fails leaves the state alone.                 *)

Catalog == [objects |-> objects, order |-> order, bytes |-> bytes]

Becomes(st) == /\ objects' = st.objects
               /\ order' = st.order
               /\ bytes' = st.bytes

(* Mutant: only the retention is looked at. *)
Unretained(g, modified) ==
    g.marker \/ ~(g.mode # "None" /\ g.until > modified)

Deletable(g, modified) ==
    g.marker \/ (~g.hold /\ ~(g.mode # "None" /\ g.until > modified))

Remove(st, target, modified) ==
    IF \A g \in target : Deletable(g, modified)
    THEN [st EXCEPT !.objects = @ \ target, !.bytes = @ - SpaceOf(target)]
    ELSE st

Marker(b, k, null, at) ==
    [bucket |-> b, key |-> k, order |-> at, null |-> null, marker |-> TRUE,
     content |-> NoContent, cap |-> 0, len |-> 0, notes |-> 0, noteLen |-> 0,
     hold |-> FALSE, mode |-> "None", until |-> 0]

(* A null marker takes the slot of the null generation. *)
PublishMarker(st, b, k) ==
    LET null == buckets[b].versioning = "Suspended"
        replaced == IF null THEN NullSlot(st.objects, b, k) ELSE {}
    IN IF \/ ~OrderLeft(st.order)
          \/ (replaced = {} /\ Cardinality(st.objects) >= ObjectLimit)
       THEN st
       ELSE [objects |-> (st.objects \ replaced)
                             \cup {Marker(b, k, null, NextOrder(st.order))},
             order |-> NextOrder(st.order),
             bytes |-> st.bytes - SpaceOf(replaced)]

Entry == [key : Keys, sel : Selectors, cond : DeleteConditions]

(* Mutant: the null version is not counted as a selected one. *)
NeededForExact(b, sel) ==
    sel \notin {Current, Null} /\ buckets[b].mfa = "Enabled"

AttestationNeeded(b, sel) == sel # Current /\ buckets[b].mfa = "Enabled"

DeleteEntry(st, b, e, validated, modified) ==
    LET target == IF e.sel = Current
                  THEN Visible(st.objects, b, e.key, Current)
                  ELSE Selected(st.objects, b, e.key, e.sel)
    IN IF \/ AttestationNeeded(b, e.sel) /\ ~validated
          \/ ~DeleteAllowed(e.cond, target)
       THEN st
       ELSE IF e.sel # Current \/ buckets[b].versioning = "Unconfigured"
            THEN Remove(st, target, modified)
            ELSE PublishMarker(st, b, e.key)

(* DeleteObject and the deletion of a selected version. *)
DeleteObject(b, e, validated, modified) ==
    /\ "DeleteObject" \in Calls
    /\ buckets[b].used
    /\ Becomes(DeleteEntry(Catalog, b, e, validated, modified))
    /\ UNCHANGED <<buckets, reserved, now, call>>

(* A batch of two entries, refused as a whole when one entry needs an MFA  *)
(* attestation, or when the caller requires an unversioned bucket.         *)
DeleteObjects(b, e1, e2, validated, modified, unversioned) ==
    /\ "DeleteObjects" \in Calls
    /\ buckets[b].used
    /\ unversioned => /\ buckets[b].versioning = "Unconfigured"
                      /\ buckets[b].mfa # "Enabled"
    /\ \A e \in {e1, e2} : AttestationNeeded(b, e.sel) => validated
    /\ LET first == DeleteEntry(Catalog, b, e1, validated, modified)
       IN Becomes(DeleteEntry(first, b, e2, validated, modified))
    /\ UNCHANGED <<buckets, reserved, now, call>>

-----------------------------------------------------------------------------
(* Object lock and annotations of a stored generation. *)

Rewrite(g, h) == objects' = (objects \ {g}) \cup {h}

LockReady(b) == /\ buckets[b].used
                /\ buckets[b].lock
                /\ buckets[b].versioning = "Enabled"

PutObjectLegalHold(b, k, sel, hold) ==
    /\ "PutObjectLegalHold" \in Calls
    /\ LockReady(b)
    /\ \E g \in Visible(objects, b, k, sel) :
            Rewrite(g, [g EXCEPT !.hold = hold])
    /\ UNCHANGED <<buckets, order, bytes, reserved, now, call>>

(* Mutant: the mode is not compared. *)
DateAllowed(g, mode, until, modified) ==
    (g.mode # "None" /\ g.until > modified) => until >= g.until

(* An active retention is extended in its own mode, or not changed. *)
RetentionAllowed(g, mode, until, modified) ==
    (g.mode # "None" /\ g.until > modified)
        => (mode = g.mode /\ until >= g.until)

(* No retention is sent with the date 0. *)
PutObjectRetention(b, k, sel, mode, until, modified) ==
    /\ "PutObjectRetention" \in Calls
    /\ mode = "None" => until = 0
    /\ LockReady(b)
    /\ \E g \in Visible(objects, b, k, sel) :
            /\ RetentionAllowed(g, mode, until, modified)
            /\ Rewrite(g, [g EXCEPT !.mode = mode, !.until = until])
    /\ UNCHANGED <<buckets, order, bytes, reserved, now, call>>

DeleteObjectAnnotation(b, k, sel, cond) ==
    /\ "DeleteObjectAnnotation" \in Calls
    /\ buckets[b].used
    /\ DeleteAllowed(cond, Visible(objects, b, k, sel))
    /\ \E g \in Visible(objects, b, k, sel) :
            /\ Rewrite(g, [g EXCEPT !.notes = 0, !.noteLen = 0])
            /\ bytes' = bytes - g.notes
    /\ UNCHANGED <<buckets, order, reserved, now, call>>

ObjectNext ==
    \E b \in Buckets, validated \in DeleteAttestations, modified \in Readings :
        \/ \E e \in Entry : DeleteObject(b, e, validated, modified)
        \/ \E e1, e2 \in Entry, unversioned \in BOOLEAN :
                DeleteObjects(b, e1, e2, validated, modified, unversioned)

LockNext ==
    \E b \in Buckets, k \in Keys, sel \in Selectors :
        \/ \E hold \in BOOLEAN : PutObjectLegalHold(b, k, sel, hold)
        \/ \E mode \in Modes, until \in 0..UnixTime(MaxTick),
              modified \in Readings :
                PutObjectRetention(b, k, sel, mode, until, modified)
        \/ \E cond \in DeleteConditions :
                DeleteObjectAnnotation(b, k, sel, cond)

-----------------------------------------------------------------------------
(* Streaming calls. *)

Moves(c, r) == call' = [call EXCEPT ![c] = r]

(* Reserve_Buffer_Capacity for the declared length, before the first read. *)
Start(c, r) ==
    LET n == Larger(r.declared, 0)
    IN IF Fits(n)
       THEN /\ reserved' = reserved + n
            /\ Moves(c, [r EXCEPT !.pc = "read", !.buf = n])
       ELSE /\ Moves(c, Settle(r))
            /\ UNCHANGED reserved

Declarations(n) == {Unknown} \cup ({n + d : d \in Slips} \cap Nat)

PutObject(c, b, k, v, declared, cond) ==
    /\ "PutObject" \in Calls
    /\ call[c].pc = "idle"
    /\ Start(c, [Idle EXCEPT !.op = "put", !.bucket = b, !.key = k,
                    !.cond = cond, !.content = v, !.declared = declared,
                    !.size = Length[v]])
    /\ UNCHANGED <<buckets, objects, order, bytes, now>>

PutObjectAnnotation(c, b, k, sel, v, declared, cond) ==
    /\ "PutObjectAnnotation" \in Calls
    /\ call[c].pc = "idle"
    /\ declared # 0
    /\ Start(c, [Idle EXCEPT !.op = "annotate", !.bucket = b, !.key = k,
                    !.sel = sel, !.cond = cond, !.content = v,
                    !.declared = declared, !.size = Length[v]])
    /\ UNCHANGED <<buckets, objects, order, bytes, now>>

(* Fetch: the body is copied under the lock, and its bytes stay charged    *)
(* until the caller's sink has taken them.                                 *)
GetObject(c, b, k, sel) ==
    /\ "GetObject" \in Calls
    /\ call[c].pc = "idle"
    /\ \E g \in Visible(objects, b, k, sel) :
            \E n \in {g.len, g.noteLen} :   \* GetObject, GetObjectAnnotation
                /\ Fits(n)
                /\ reserved' = reserved + n
                /\ Moves(c, Settle([Idle EXCEPT !.op = "get", !.snap = n]))
    /\ UNCHANGED <<buckets, objects, order, bytes, now>>

(* Fetch_For_Copy: the source and its annotations are copied and charged.  *)
CopyObject(c, b, k, sel, toBucket, toKey, cond) ==
    /\ "CopyObject" \in Calls
    /\ call[c].pc = "idle"
    /\ \E g \in Visible(objects, b, k, sel) :
            /\ Fits(g.len + g.noteLen)
            /\ reserved' = reserved + g.len + g.noteLen
            /\ Moves(c, [Idle EXCEPT !.op = "copy", !.pc = "fetched",
                            !.bucket = toBucket, !.key = toKey,
                            !.cond = cond, !.content = g.content,
                            !.declared = g.len, !.size = g.len,
                            !.snap = g.len, !.notes = g.noteLen])
    /\ UNCHANGED <<buckets, objects, order, bytes, now>>

(* The directive that leaves the annotations behind. *)
ExcludeAnnotations(c) ==
    /\ call[c].pc = "fetched"
    /\ call[c].notes > 0
    /\ reserved' = Freed(call[c].notes)
    /\ Moves(c, [call[c] EXCEPT !.notes = 0])
    /\ UNCHANGED <<buckets, objects, order, bytes, now>>

(* The destination of a copy, or a part whose upload has been looked up.   *)
StartBody(c) ==
    /\ call[c].pc = "fetched"
    /\ Start(c, call[c])
    /\ UNCHANGED <<buckets, objects, order, bytes, now>>

(* A growth charges the whole new array beside the old one. *)
Grow(c, r, target) ==
    /\ reserved' = reserved + target
    /\ Moves(c, [r EXCEPT !.pc = "grown", !.old = r.buf, !.buf = target])

(* One Source.Read and the reservation for its bytes. *)
Read(c) ==
    /\ call[c].pc = "read"
    /\ call[c].len < call[c].size
    /\ LET rest == call[c].size - call[c].len
           required == call[c].len + (IF rest < Chunk THEN rest ELSE Chunk)
           target == Growth(call[c].buf, required)
           r == [call[c] EXCEPT !.len = required]
       IN IF required > ByteLimit
          THEN Moves(c, Settle(r)) /\ UNCHANGED reserved
          ELSE IF target <= r.buf
          THEN Moves(c, r) /\ UNCHANGED reserved
          ELSE IF Fits(target)
          THEN Grow(c, r, target)
          ELSE /\ Moves(c, IF target > required
                           THEN [r EXCEPT !.pc = "exact"] ELSE Settle(r))
               /\ UNCHANGED reserved
    /\ UNCHANGED <<buckets, objects, order, bytes, now>>

(* Mutant: the call waits for the required size. *)
WaitsForSpace(c) ==
    /\ call[c].pc = "exact"
    /\ Fits(call[c].len)
    /\ Grow(c, call[c], call[c].len)
    /\ UNCHANGED <<buckets, objects, order, bytes, now>>

(* When doubling does not fit, the required size is tried. *)
RetryExact(c) ==
    /\ call[c].pc = "exact"
    /\ IF Fits(call[c].len)
       THEN Grow(c, call[c], call[c].len)
       ELSE Moves(c, Settle(call[c])) /\ UNCHANGED reserved
    /\ UNCHANGED <<buckets, objects, order, bytes, now>>

(* The old array is freed, and then its charge is returned. *)
ReleaseOld(c) ==
    /\ call[c].pc = "grown"
    /\ reserved' = Freed(call[c].old)
    /\ Moves(c, [call[c] EXCEPT !.pc = "read", !.old = 0])
    /\ UNCHANGED <<buckets, objects, order, bytes, now>>

(* Storage_Error in the growth: the new charge is returned. *)
AllocationFails(c) ==
    /\ call[c].pc = "grown"
    /\ reserved' = Freed(call[c].buf)
    /\ Moves(c, Settle([call[c] EXCEPT !.buf = call[c].old, !.old = 0]))
    /\ UNCHANGED <<buckets, objects, order, bytes, now>>

(* Cancellation, the deadline, a malformed or failing source, a refused    *)
(* copy condition.                                                         *)
Abandon(c) ==
    /\ call[c].pc \in {"asked", "fetched", "read"}
    /\ Moves(c, Settle(call[c]))
    /\ UNCHANGED <<buckets, objects, order, bytes, reserved, now>>

Delivered(r) == r.pc = "read" /\ r.len = r.size
Honest(r) == r.declared \in {Unknown, r.size}

(* Mutant: the bucket was looked up before the body was streamed. *)
BucketRemembered(b) == TRUE

(* Bucket_Index finds the bucket when the body is there. *)
BucketFound(b) == buckets[b].used

CanCommit(r) ==
    LET replaced == Replaced(r.bucket, r.key)
        incoming == r.buf + r.notes
    IN /\ Honest(r)
       /\ BucketFound(r.bucket)
       /\ WriteAllowed(r.cond, Visible(objects, r.bucket, r.key, Current))
       /\ OrderLeft(order)
       /\ replaced # {} \/ Cardinality(objects) < ObjectLimit
       /\ incoming <= ByteLimit - (bytes - SpaceOf(replaced))
       /\ incoming <= reserved

(* What a publication leaves in a slot that it overwrites. *)
KeptLock(replaced) ==
    IF replaced = {} THEN [hold |-> FALSE, mode |-> "None", until |-> 0]
    ELSE LET g == CHOOSE g \in replaced : TRUE
         IN [hold |-> g.hold, mode |-> g.mode, until |-> g.until]

Published(r, replaced) ==
    LET kept == KeptLock(replaced)
    IN [bucket |-> r.bucket, key |-> r.key, order |-> NextOrder(order),
        null |-> buckets[r.bucket].versioning # "Enabled", marker |-> FALSE,
        content |-> r.content, cap |-> r.buf, len |-> r.len,
        notes |-> r.notes, noteLen |-> r.notes,
        hold |-> kept.hold, mode |-> kept.mode, until |-> kept.until]

(* Commit: the reservation becomes resident. *)
Commit(c) ==
    /\ call[c].op \in {"put", "copy"}
    /\ Delivered(call[c])
    /\ LET r == call[c]
           replaced == Replaced(r.bucket, r.key)
       IN IF CanCommit(r)
          THEN /\ objects' = (objects \ replaced) \cup {Published(r, replaced)}
               /\ order' = NextOrder(order)
               /\ bytes' = bytes - SpaceOf(replaced) + r.buf + r.notes
               /\ reserved' = reserved - (r.buf + r.notes)
               /\ Moves(c, Settle([r EXCEPT !.buf = 0, !.notes = 0]))
          ELSE /\ Moves(c, Settle(r))
               /\ UNCHANGED <<objects, order, bytes, reserved>>
    /\ UNCHANGED <<buckets, now>>

CanAnnotate(r, g) ==
    /\ Honest(r)
    /\ r.size > 0
    /\ buckets[r.bucket].used
    /\ DeleteAllowed(r.cond, {g})
    /\ r.buf <= ByteLimit - (bytes - g.notes)
    /\ r.buf <= reserved

CommitAnnotation(c) ==
    /\ call[c].op = "annotate"
    /\ Delivered(call[c])
    /\ LET r == call[c]
           able == {g \in Visible(objects, r.bucket, r.key, r.sel) :
                        CanAnnotate(r, g)}
       IN IF able # {}
          THEN /\ \E g \in able :
                    /\ Rewrite(g, [g EXCEPT !.notes = r.buf,
                                            !.noteLen = r.len])
                    /\ bytes' = bytes - g.notes + r.buf
               /\ reserved' = reserved - r.buf
               /\ Moves(c, Idle)
          ELSE /\ Moves(c, Settle(r))
               /\ UNCHANGED <<objects, bytes, reserved>>
    /\ UNCHANGED <<buckets, order, now>>

(* The buffer is freed first; the snapshot and the annotations follow, the *)
(* annotations first unless the copy fails by an exception.                *)
ReleaseBuffer(c) ==
    /\ call[c].pc = "unwind"
    /\ call[c].buf > 0
    /\ reserved' = Freed(call[c].buf)
    /\ Moves(c, Settle([call[c] EXCEPT !.buf = 0]))
    /\ UNCHANGED <<buckets, objects, order, bytes, now>>

ReleaseNotes(c) ==
    /\ call[c].pc = "unwind"
    /\ call[c].buf = 0
    /\ call[c].notes > 0
    /\ reserved' = Freed(call[c].notes)
    /\ Moves(c, Settle([call[c] EXCEPT !.notes = 0]))
    /\ UNCHANGED <<buckets, objects, order, bytes, now>>

ReleaseSnapshot(c) ==
    /\ call[c].pc = "unwind"
    /\ call[c].buf = 0
    /\ call[c].snap > 0
    /\ reserved' = Freed(call[c].snap)
    /\ Moves(c, Settle([call[c] EXCEPT !.snap = 0]))
    /\ UNCHANGED <<buckets, objects, order, bytes, now>>

Begin(c) ==
    \E b \in Buckets, k \in Keys :
        \/ \E v \in Contents : \E d \in Declarations(Length[v]) :
                \/ \E cond \in WriteConditions : PutObject(c, b, k, v, d, cond)
                \/ \E sel \in Selectors, cond \in DeleteConditions :
                        PutObjectAnnotation(c, b, k, sel, v, d, cond)
        \/ \E sel \in Selectors : GetObject(c, b, k, sel)
        \/ \E sel \in Selectors, toBucket \in Buckets, toKey \in Keys,
              cond \in WriteConditions :
                CopyObject(c, b, k, sel, toBucket, toKey, cond)

(* The steps that a call takes by itself. *)
Advance(c) ==
    \/ StartBody(c)
    \/ Read(c)
    \/ RetryExact(c)
    \/ ReleaseOld(c)
    \/ Commit(c)
    \/ CommitAnnotation(c)
    \/ ReleaseBuffer(c)
    \/ ReleaseNotes(c)
    \/ ReleaseSnapshot(c)

Interrupt(c) ==
    \/ ExcludeAnnotations(c)
    \/ AllocationFails(c)
    \/ Abandon(c)

Tick ==
    /\ now < MaxTick
    /\ now' = now + 1
    /\ UNCHANGED <<buckets, objects, order, bytes, reserved, call>>

StoreNext ==
    \/ BucketNext
    \/ ObjectNext
    \/ LockNext
    \/ \E c \in Clients : Begin(c) \/ Advance(c) \/ Interrupt(c)
    \/ Tick

Next == StoreNext \/ \E b \in Buckets : DeleteBucket(b)

Spec == Init /\ [][Next]_vars

(* The task of a call runs until the call returns: protected actions never *)
(* block, and a source that does not deliver is cut by its deadline.       *)
FairSpec == Spec /\ \A c \in Clients : WF_vars(Advance(c))

-----------------------------------------------------------------------------
(* Properties. *)

TypeOK ==
    /\ buckets \in [Buckets -> Bucket]
    /\ objects \subseteq Generation
    /\ order \in 0..MaxOrder
    /\ bytes \in Int
    /\ reserved \in Nat
    /\ now \in 0..MaxTick
    /\ call \in [Clients -> Call]

(* Resident and promised bytes together stay within Byte_Capacity, the     *)
(* old array of a growth and both bodies of a replacement included.        *)
CapacityBound == bytes + reserved <= ByteLimit

(* Every byte is owed to somebody: the resident counter is the capacity of *)
(* the stored bodies, annotations and documents, and the reservation is    *)
(* what the calls in progress hold.  No release underflows, no commit finds*)
(* its reservation missing, and nothing leaks.                             *)
Accounting ==
    /\ bytes = SumFunction([g \in objects |-> Resident(g)])
                + SumFunction([b \in Buckets |-> Documents(b)])
    /\ reserved = SumFunction([c \in Clients |-> Charge(call[c])])

(* Where every writer asks that the key be absent, and nobody deletes, one *)
(* of them wins: a key never gets a second generation, whatever its        *)
(* versioning and however long the writers stream.                         *)
CreateOnce ==
    \A g, h \in objects : g.bucket = h.bucket /\ g.key = h.key => g = h

(* A publication order names one generation, and no generation is newer    *)
(* than the last order given out: a version ID is never reused.            *)
OrdersUnique ==
    /\ \A g \in objects : g.order \in 1..order
    /\ \A g, h \in objects : g.order = h.order => g = h

(* A key has at most one null generation, however its bucket moved between *)
(* unversioned, enabled and suspended while writers were streaming.        *)
OneNullVersion ==
    \A g, h \in objects :
        /\ g.null /\ h.null
        /\ g.bucket = h.bucket /\ g.key = h.key
        => g = h

(* Every generation lies in a live bucket, also when the bucket was deleted*)
(* while the body was being streamed.                                      *)
NoOrphans == \A g \in objects : buckets[g.bucket].used

(* A bucket that never had versioning keeps no history and no markers.     *)
NoHistoryUnversioned ==
    \A g \in objects :
        buckets[g.bucket].versioning = "Unconfigured" => g.null /\ ~g.marker

(* A hold or a retention exists only where a write adds generations and    *)
(* overwrites none: in a locked bucket, whose versioning is enabled.       *)
LocksOnlyWhereEnabled ==
    /\ \A b \in Buckets :
            buckets[b].lock => buckets[b].versioning = "Enabled"
    /\ \A g \in objects :
            g.hold \/ g.mode # "None" => buckets[g.bucket].lock

(* The generation is under a hold, or its retention is not over by any     *)
(* reading of the clock so far.                                            *)
Protected(g) == g.hold \/ (g.mode # "None" /\ g.until > UnixTime(now))

Keeps(g) == \E h \in objects' : /\ h.order = g.order
                                /\ h.content = g.content
                                /\ h.marker = g.marker

(* No step removes or overwrites a protected generation: no selected or    *)
(* batched deletion, no marker, no commit and no bucket deletion, also     *)
(* when the caller read the clock long before it got the lock.             *)
ProtectedStay == [][\A g \in objects : Protected(g) => Keeps(g)]_vars

(* Where no deletion carries an MFA attestation, a bucket with MFA Delete  *)
(* and versioning enabled loses no generation: writes add generations,     *)
(* current deletions add markers, and selected ones are refused.           *)
MFADeleteKeepsHistory ==
    [][\A g \in objects :
          (buckets[g.bucket].mfa = "Enabled"
             /\ buckets[g.bucket].versioning = "Enabled") => Keeps(g)]_vars

(* The retention of a generation does not get shorter or change its mode   *)
(* while it is active.                                                     *)
RetentionOnlyGrows ==
    [][\A g \in objects, h \in objects' :
          (g.order = h.order /\ g.mode # "None" /\ g.until > UnixTime(now))
              => h.mode = g.mode /\ h.until >= g.until]_vars

(* A call returns to its caller, and with it every byte that it held: the  *)
(* fall-back from doubling to the exact size does not repeat.              *)
EveryCallReturns ==
    \A c \in Clients : call[c].pc # "idle" ~> call[c].pc = "idle"

=============================================================================

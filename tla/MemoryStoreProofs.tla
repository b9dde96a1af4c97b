-------------------------- MODULE MemoryStoreProofs --------------------------
(***************************************************************************)
(* Theorems about MemoryStore, for every value of its constants.           *)
(***************************************************************************)
EXTENDS MemoryStore, TLAPS

-----------------------------------------------------------------------------
(* The records that the actions build. *)

(* A call that will publish knows where. *)
Named(r) ==
    r.op \in {"put", "copy", "annotate", "part"} =>
        r.bucket \in Buckets /\ r.key \in Keys

CallsNamed == \A c \in Clients : Named(call[c])

TypeInv == TypeOK /\ CallsNamed

(* The inductive invariant of the budget: every state is well typed, the   *)
(* calls know what they publish, the bytes stay within the capacity.       *)
BudgetInv == TypeInv /\ CapacityBound

(* A call at rest is a call, and publishes nothing. *)
LEMMA IdleType == Idle \in Call /\ Named(Idle)
  BY DEF Idle, Call, Named, Selectors

(* Ending or unwinding keeps a call well formed. *)
LEMMA SettleType ==
  ASSUME NEW r \in Call, Named(r)
  PROVE  Settle(r) \in Call /\ Named(Settle(r))
  BY IdleType DEF Settle, Call, Named

(* A slot occupies a number of bytes. *)
LEMMA SpaceNat ==
  ASSUME NEW gs \in SUBSET Generation
  PROVE  SpaceOf(gs) \in Nat
  <1>1. CASE gs = {}
    BY <1>1 DEF SpaceOf
  <1>2. CASE gs # {}
    <2>1. (CHOOSE g \in gs : TRUE) \in Generation
      BY <1>2
    <2> QED
      BY <1>2, <2>1 DEF SpaceOf, Resident, Generation
  <1> QED
    BY <1>1, <1>2

(* The clock that the code reads is a natural number, and is monotone. *)
LEMMA UnixTimeNat ==
  ASSUME NEW t \in Nat
  PROVE  UnixTime(t) \in Nat
  BY DEF UnixTime

LEMMA UnixTimeMonotone ==
  ASSUME NEW t \in Nat, NEW u \in Nat, t <= u
  PROVE  UnixTime(t) <= UnixTime(u)
  BY DEF UnixTime

(* The calls after the step of one client. *)
LEMMA MovesType ==
  ASSUME TypeInv, NEW c \in Clients, NEW r \in Call, Named(r), Moves(c, r)
  PROVE  call' \in [Clients -> Call] /\ CallsNamed'
  BY DEF TypeInv, TypeOK, Moves, CallsNamed

(* A release leaves a number of reserved bytes, and never a larger one. *)
LEMMA FreedNat ==
  ASSUME reserved \in Nat, NEW n \in Nat
  PROVE  Freed(n) \in Nat /\ Freed(n) <= reserved
  BY DEF Freed

(* A step of one call that touches nothing but the reservation.            *)
LEMMA BudgetMoves ==
  ASSUME BudgetInv, NEW c \in Clients, NEW r \in Call, Named(r), Moves(c, r),
         reserved' \in Nat, bytes + reserved' <= ByteLimit,
         UNCHANGED <<buckets, objects, order, bytes, now>>
  PROVE  BudgetInv'
  BY MovesType DEF BudgetInv, TypeInv, TypeOK, CapacityBound

(* Such a step that reserves nothing, or releases what a call held.        *)
LEMMA BudgetReleases ==
  ASSUME BudgetInv, NEW c \in Clients, NEW r \in Call, Named(r), Moves(c, r),
         \/ reserved' = reserved
         \/ \E n \in Nat : reserved' = Freed(n),
         UNCHANGED <<buckets, objects, order, bytes, now>>
  PROVE  BudgetInv'
  <1>1. reserved \in Nat /\ bytes \in Int /\ bytes + reserved <= ByteLimit
    BY DEF BudgetInv, TypeInv, TypeOK, CapacityBound
  <1>2. reserved' \in Nat /\ reserved' <= reserved
    BY <1>1, FreedNat
  <1>3. \A m, n \in Nat : m <= n /\ bytes + n <= ByteLimit
                             => bytes + m <= ByteLimit
    BY <1>1, SizesAssumption
  <1> QED
    BY <1>1, <1>2, <1>3, BudgetMoves

(* Such a step that reserves what fits.                                    *)
LEMMA BudgetReserves ==
  ASSUME BudgetInv, NEW c \in Clients, NEW r \in Call, Named(r), Moves(c, r),
         NEW n \in Nat, Fits(n), reserved' = reserved + n,
         UNCHANGED <<buckets, objects, order, bytes, now>>
  PROVE  BudgetInv'
  <1>1. reserved' \in Nat /\ bytes + reserved' <= ByteLimit
    BY SizesAssumption DEF BudgetInv, TypeInv, TypeOK, Fits
  <1> QED
    BY <1>1, BudgetMoves

(* Starting and growing a buffer stay within the budget. *)
LEMMA BudgetStart ==
  ASSUME BudgetInv, NEW c \in Clients, NEW r \in Call, Named(r), Start(c, r),
         UNCHANGED <<buckets, objects, order, bytes, now>>
  PROVE  BudgetInv'
  <1> DEFINE n == Larger(r.declared, 0)
             q == [r EXCEPT !.pc = "read", !.buf = n]
  <1>1. n \in Nat
    BY DEF Larger, Call
  <1>2. q \in Call /\ Named(q)
    BY <1>1 DEF Call, Named
  <1>3. \/ Fits(n) /\ Moves(c, q) /\ reserved' = reserved + n
        \/ Moves(c, Settle(r)) /\ reserved' = reserved
    BY DEF Start
  <1> HIDE DEF n, q
  <1> QED
    BY <1>1, <1>2, <1>3, SettleType, BudgetReserves, BudgetReleases

LEMMA BudgetGrow ==
  ASSUME BudgetInv, NEW c \in Clients, NEW r \in Call, Named(r),
         NEW target \in Nat, Fits(target), Grow(c, r, target),
         UNCHANGED <<buckets, objects, order, bytes, now>>
  PROVE  BudgetInv'
  <1> DEFINE q == [r EXCEPT !.pc = "grown", !.old = r.buf, !.buf = target]
  <1>1. q \in Call /\ Named(q)
    BY DEF Call, Named
  <1>2. Moves(c, q) /\ reserved' = reserved + target
    BY DEF Grow
  <1> HIDE DEF q
  <1> QED
    BY <1>1, <1>2, BudgetReserves

-----------------------------------------------------------------------------
(* Deletion. *)

Catalogs == [objects : SUBSET Generation, order : 0..MaxOrder, bytes : Int]

(* An entry of a deletion leaves a catalog that is not larger in bytes. *)
LEMMA DeleteEntryType ==
  ASSUME NEW st \in Catalogs, NEW b \in Buckets, NEW e \in Entry,
         NEW validated, NEW modified
  PROVE  LET after == DeleteEntry(st, b, e, validated, modified)
         IN after \in Catalogs /\ after.bytes <= st.bytes
  <1> DEFINE after == DeleteEntry(st, b, e, validated, modified)
             target == IF e.sel = Current
                       THEN Visible(st.objects, b, e.key, Current)
                       ELSE Selected(st.objects, b, e.key, e.sel)
             null == buckets[b].versioning = "Suspended"
             replaced == IF null
                         THEN Selected(st.objects, b, e.key, Null) ELSE {}
  <1>1. target \in SUBSET Generation /\ replaced \in SUBSET Generation
    BY DEF Catalogs, Visible, Selected
  <1>2. SpaceOf(target) \in Nat /\ SpaceOf(replaced) \in Nat
    BY <1>1, SpaceNat
  <1>3. CASE after = st
    BY <1>3 DEF Catalogs
  <1>4. CASE after = [st EXCEPT !.objects = @ \ target,
                                !.bytes = @ - SpaceOf(target)]
    <2>1. /\ after.objects = st.objects \ target
          /\ after.order = st.order
          /\ after.bytes = st.bytes - SpaceOf(target)
          /\ after = [objects |-> st.objects \ target, order |-> st.order,
                      bytes |-> st.bytes - SpaceOf(target)]
      BY <1>4 DEF Catalogs
    <2> QED
      BY <1>2, <2>1 DEF Catalogs
  <1>5. CASE /\ st.order # MaxOrder
             /\ after = [objects |-> (st.objects \ replaced) \cup
                                {Marker(b, e.key, null, st.order + 1)},
                         order |-> st.order + 1,
                         bytes |-> st.bytes - SpaceOf(replaced)]
    <2>1. st.order + 1 \in 0..MaxOrder
      BY <1>5, SizesAssumption DEF Catalogs
    <2>2. Marker(b, e.key, null, st.order + 1) \in Generation
      BY <2>1, SizesAssumption DEF Marker, Generation, Entry, Modes
    <2> QED
      BY <1>2, <1>5, <2>1, <2>2 DEF Catalogs
  <1> HIDE DEF after
  <1>6. \/ after = st
        \/ after = [st EXCEPT !.objects = @ \ target,
                              !.bytes = @ - SpaceOf(target)]
        \/ /\ st.order # MaxOrder
           /\ after = [objects |-> (st.objects \ replaced) \cup
                              {Marker(b, e.key, null, st.order + 1)},
                       order |-> st.order + 1,
                       bytes |-> st.bytes - SpaceOf(replaced)]
    BY SizesAssumption
    DEF after, DeleteEntry, Remove, PublishMarker, NullSlot, OrderLeft,
        NextOrder, Catalogs
  <1> QED
    BY <1>3, <1>4, <1>5, <1>6 DEF after

-----------------------------------------------------------------------------
(* The budget invariant holds initially, and each group of actions keeps it.*)

LEMMA BudgetInit == Init => BudgetInv
  <1> SUFFICES ASSUME Init PROVE BudgetInv
    OBVIOUS
  <1>1. NewBucket \in Bucket
    BY DEF NewBucket, Bucket, Statuses, MFAStates
  <1> QED
    BY <1>1, IdleType, SizesAssumption
    DEF Init, BudgetInv, TypeInv, TypeOK, CallsNamed, CapacityBound

LEMMA BudgetBuckets ==
  ASSUME BudgetInv, BucketNext \/ \E b \in Buckets : DeleteBucket(b)
  PROVE  BudgetInv'
  <1> USE SizesAssumption DEF BudgetInv, TypeInv, TypeOK, CallsNamed, Named,
                              CapacityBound
  <1>1. ASSUME NEW b \in Buckets, CreateBucket(b)
        PROVE  BudgetInv'
    BY <1>1 DEF CreateBucket, Bucket
  <1>2. ASSUME NEW b \in Buckets, DeleteBucket(b)
        PROVE  BudgetInv'
    <2>1. NewBucket \in Bucket
      BY DEF NewBucket, Bucket, Statuses, MFAStates
    <2>2. buckets[b].policy \in Nat /\ buckets[b].document \in Nat
      BY DEF Bucket
    <2> QED
      BY <1>2, <2>1, <2>2 DEF DeleteBucket
  <1>3. ASSUME NEW b \in Buckets, NEW s \in Statuses, NEW f \in MFAStates,
               NEW v \in Attestations, PutBucketVersioning(b, s, f, v)
        PROVE  BudgetInv'
    <2> DEFINE status == IF s = "Unconfigured"
                         THEN buckets[b].versioning ELSE s
               mfa == IF f = "Unconfigured" THEN buckets[b].mfa ELSE f
    <2>1. status \in Statuses /\ mfa \in MFAStates
      BY DEF Bucket
    <2> HIDE DEF status, mfa
    <2>2. buckets' = [buckets EXCEPT ![b].versioning = status, ![b].mfa = mfa]
      BY <1>3 DEF PutBucketVersioning, Merged, status, mfa
    <2>3. buckets' \in [Buckets -> Bucket]
      BY <2>1, <2>2 DEF Bucket
    <2> QED
      BY <1>3, <2>3 DEF PutBucketVersioning
  <1>4. ASSUME NEW b \in Buckets, EnableBucketObjectLock(b)
        PROVE  BudgetInv'
    BY <1>4 DEF EnableBucketObjectLock, Bucket
  <1>5. ASSUME NEW b \in Buckets, NEW n \in DocumentSizes,
               PutBucketPolicy(b, n)
        PROVE  BudgetInv'
    <2>1. buckets[b].policy \in Nat /\ n \in Nat
      BY DEF Bucket
    <2>2. buckets' \in [Buckets -> Bucket]
      BY <1>5, <2>1 DEF PutBucketPolicy, Bucket
    <2> QED
      BY <1>5, <2>1, <2>2 DEF PutBucketPolicy, Fits
  <1>6. ASSUME NEW b \in Buckets, NEW n \in DocumentSizes,
               PutBucketDocument(b, n)
        PROVE  BudgetInv'
    <2>1. buckets[b].document \in Nat /\ n \in Nat
      BY DEF Bucket
    <2>2. buckets' \in [Buckets -> Bucket]
      BY <1>6, <2>1 DEF PutBucketDocument, Bucket
    <2> QED
      BY <1>6, <2>1, <2>2 DEF PutBucketDocument
  <1>7. ASSUME NEW b \in Buckets, DeleteBucketPolicy(b)
        PROVE  BudgetInv'
    <2>1. buckets[b].policy \in Nat
      BY DEF Bucket
    <2>2. buckets' \in [Buckets -> Bucket]
      BY <1>7 DEF DeleteBucketPolicy, Bucket
    <2> QED
      BY <1>7, <2>1, <2>2 DEF DeleteBucketPolicy
  <1>8. ASSUME NEW b \in Buckets, DeleteBucketDocument(b)
        PROVE  BudgetInv'
    <2>1. buckets[b].document \in Nat
      BY DEF Bucket
    <2>2. buckets' \in [Buckets -> Bucket]
      BY <1>8 DEF DeleteBucketDocument, Bucket
    <2> QED
      BY <1>8, <2>1, <2>2 DEF DeleteBucketDocument
  <1> QED
    BY <1>1, <1>2, <1>3, <1>4, <1>5, <1>6, <1>7, <1>8 DEF BucketNext

LEMMA BudgetObjects ==
  ASSUME BudgetInv, ObjectNext
  PROVE  BudgetInv'
  <1>1. Catalog \in Catalogs
    BY DEF BudgetInv, TypeInv, TypeOK, Catalog, Catalogs
  <1>2. ASSUME NEW st \in Catalogs, st.bytes <= bytes, Becomes(st),
               UNCHANGED <<buckets, reserved, now, call>>
        PROVE  BudgetInv'
    BY <1>2, SizesAssumption
    DEF BudgetInv, TypeInv, TypeOK, CallsNamed, Named, CapacityBound,
        Catalogs, Becomes
  <1>3. ASSUME NEW b \in Buckets, NEW validated \in DeleteAttestations,
               NEW modified \in Readings, NEW e \in Entry,
               DeleteObject(b, e, validated, modified)
        PROVE  BudgetInv'
    <2> DEFINE st == DeleteEntry(Catalog, b, e, validated, modified)
    <2>1. st \in Catalogs /\ st.bytes <= bytes
      BY <1>1, DeleteEntryType DEF Catalog
    <2> QED
      BY <1>2, <1>3, <2>1 DEF DeleteObject
  <1>4. ASSUME NEW b \in Buckets, NEW validated \in DeleteAttestations,
               NEW modified \in Readings, NEW e1 \in Entry,
               NEW e2 \in Entry, NEW unversioned \in BOOLEAN,
               DeleteObjects(b, e1, e2, validated, modified, unversioned)
        PROVE  BudgetInv'
    <2> DEFINE first == DeleteEntry(Catalog, b, e1, validated, modified)
               st == DeleteEntry(first, b, e2, validated, modified)
    <2>1. first \in Catalogs /\ first.bytes <= bytes
      BY <1>1, DeleteEntryType DEF Catalog
    <2> HIDE DEF first
    <2>2. st \in Catalogs /\ st.bytes <= first.bytes
      BY <2>1, DeleteEntryType
    <2>3. st.bytes <= bytes
      BY <2>1, <2>2
      DEF Catalogs, BudgetInv, TypeInv, TypeOK
    <2>4. Becomes(st) /\ UNCHANGED <<buckets, reserved, now, call>>
      BY <1>4 DEF DeleteObjects, first
    <2> HIDE DEF st
    <2> QED
      BY <1>2, <2>2, <2>3, <2>4
  <1> QED
    BY <1>3, <1>4 DEF ObjectNext

LEMMA Retained ==
  ASSUME NEW g \in Generation, NEW mode \in Modes, NEW until \in Nat
  PROVE  [g EXCEPT !.mode = mode, !.until = until] \in Generation
  BY DEF Generation

LEMMA BudgetLocks ==
  ASSUME BudgetInv, LockNext
  PROVE  BudgetInv'
  <1> USE SizesAssumption DEF BudgetInv, TypeInv, TypeOK, CallsNamed, Named,
                              CapacityBound
  <1>1. ASSUME NEW b \in Buckets, NEW k \in Keys, NEW sel \in Selectors,
               NEW hold \in BOOLEAN, PutObjectLegalHold(b, k, sel, hold)
        PROVE  BudgetInv'
    <2>1. PICK g \in Visible(objects, b, k, sel) :
                Rewrite(g, [g EXCEPT !.hold = hold])
      BY <1>1 DEF PutObjectLegalHold
    <2>2. [g EXCEPT !.hold = hold] \in Generation
      BY DEF Visible, Selected, Generation
    <2> QED
      BY <1>1, <2>1, <2>2 DEF PutObjectLegalHold, Rewrite
  <1>2. ASSUME NEW b \in Buckets, NEW k \in Keys, NEW sel \in Selectors,
               NEW mode \in Modes, NEW until \in 0..UnixTime(MaxTick),
               NEW modified \in Readings,
               PutObjectRetention(b, k, sel, mode, until, modified)
        PROVE  BudgetInv'
    <2>1. PICK g \in Visible(objects, b, k, sel) :
                Rewrite(g, [g EXCEPT !.mode = mode, !.until = until])
      BY <1>2 DEF PutObjectRetention
    <2>2. until \in Nat
      BY UnixTimeNat
    <2>3. g \in Generation
      BY DEF Visible, Selected
    <2>4. [g EXCEPT !.mode = mode, !.until = until] \in Generation
      BY <2>2, <2>3, Retained
    <2> QED
      BY <1>2, <2>1, <2>4 DEF PutObjectRetention, Rewrite
  <1>3. ASSUME NEW b \in Buckets, NEW k \in Keys, NEW sel \in Selectors,
               NEW cond \in DeleteConditions,
               DeleteObjectAnnotation(b, k, sel, cond)
        PROVE  BudgetInv'
    <2>1. PICK g \in Visible(objects, b, k, sel) :
                /\ Rewrite(g, [g EXCEPT !.notes = 0, !.noteLen = 0])
                /\ bytes' = bytes - g.notes
      BY <1>3 DEF DeleteObjectAnnotation
    <2>2. /\ [g EXCEPT !.notes = 0, !.noteLen = 0] \in Generation
          /\ g.notes \in Nat
      BY DEF Visible, Selected, Generation
    <2> QED
      BY <1>3, <2>1, <2>2 DEF DeleteObjectAnnotation, Rewrite
  <1> QED
    BY <1>1, <1>2, <1>3 DEF LockNext

LEMMA BudgetBegin ==
  ASSUME BudgetInv, NEW c \in Clients, Begin(c)
  PROVE  BudgetInv'
  <1>1. ASSUME NEW v \in Contents, NEW d \in Declarations(Length[v])
        PROVE  d \in Nat \cup {-1} /\ Length[v] \in Nat
    BY SizesAssumption DEF Declarations, Unknown
  <1>2. ASSUME NEW b \in Buckets, NEW k \in Keys, NEW v \in Contents,
               NEW d \in Declarations(Length[v]), NEW cond \in WriteConditions,
               PutObject(c, b, k, v, d, cond)
        PROVE  BudgetInv'
    <2> DEFINE r == [Idle EXCEPT !.op = "put", !.bucket = b, !.key = k,
                        !.cond = cond, !.content = v, !.declared = d,
                        !.size = Length[v]]
    <2>1. r \in Call /\ Named(r)
      BY <1>1, IdleType DEF Call, Named, Bodies
    <2> QED
      BY <1>2, <2>1, BudgetStart DEF PutObject
  <1>3. ASSUME NEW b \in Buckets, NEW k \in Keys, NEW v \in Contents,
               NEW d \in Declarations(Length[v]), NEW sel \in Selectors,
               NEW cond \in DeleteConditions,
               PutObjectAnnotation(c, b, k, sel, v, d, cond)
        PROVE  BudgetInv'
    <2> DEFINE r == [Idle EXCEPT !.op = "annotate", !.bucket = b, !.key = k,
                        !.sel = sel, !.cond = cond, !.content = v,
                        !.declared = d, !.size = Length[v]]
    <2>1. r \in Call /\ Named(r)
      BY <1>1, IdleType DEF Call, Named, Bodies
    <2> QED
      BY <1>3, <2>1, BudgetStart DEF PutObjectAnnotation
  <1>4. ASSUME NEW b \in Buckets, NEW k \in Keys, NEW sel \in Selectors,
               GetObject(c, b, k, sel)
        PROVE  BudgetInv'
    <2>1. PICK g \in objects : \E n \in {g.len, g.noteLen} :
                /\ Fits(n)
                /\ reserved' = reserved + n
                /\ Moves(c, Settle([Idle EXCEPT !.op = "get", !.snap = n]))
      BY <1>4 DEF GetObject, Visible, Selected
    <2>2. PICK n \in Nat :
                /\ Fits(n)
                /\ reserved' = reserved + n
                /\ Moves(c, Settle([Idle EXCEPT !.op = "get", !.snap = n]))
      BY <2>1 DEF BudgetInv, TypeInv, TypeOK, Generation
    <2> DEFINE r == [Idle EXCEPT !.op = "get", !.snap = n]
    <2>3. r \in Call /\ Named(r)
      BY IdleType DEF Call, Named
    <2> QED
      BY <1>4, <2>2, <2>3, SettleType, BudgetReserves DEF GetObject
  <1>5. ASSUME NEW b \in Buckets, NEW k \in Keys, NEW sel \in Selectors,
               NEW toBucket \in Buckets, NEW toKey \in Keys,
               NEW cond \in WriteConditions,
               CopyObject(c, b, k, sel, toBucket, toKey, cond)
        PROVE  BudgetInv'
    <2> DEFINE Copy(g) ==
                 [Idle EXCEPT !.op = "copy", !.pc = "fetched",
                    !.bucket = toBucket, !.key = toKey, !.cond = cond,
                    !.content = g.content, !.declared = g.len,
                    !.size = g.len, !.snap = g.len, !.notes = g.noteLen]
    <2>1. PICK g \in objects : /\ Fits(g.len + g.noteLen)
                               /\ reserved' = reserved + g.len + g.noteLen
                               /\ Moves(c, Copy(g))
      BY <1>5 DEF CopyObject, Visible, Selected
    <2>2. g \in Generation
      BY DEF BudgetInv, TypeInv, TypeOK
    <2>3. g.len + g.noteLen \in Nat
      BY <2>2 DEF Generation
    <2>4. reserved' = reserved + (g.len + g.noteLen)
      BY <2>1, <2>2 DEF Generation, BudgetInv, TypeInv, TypeOK
    <2>5. Copy(g) \in Call /\ Named(Copy(g))
      BY <2>2, IdleType DEF Call, Named, Generation
    <2> HIDE DEF Copy
    <2> QED
      BY <1>5, <2>1, <2>3, <2>4, <2>5, BudgetReserves DEF CopyObject
  <1> QED
    BY <1>2, <1>3, <1>4, <1>5 DEF Begin

LEMMA BudgetInterrupt ==
  ASSUME BudgetInv, NEW c \in Clients, Interrupt(c)
  PROVE  BudgetInv'
  <1>1. call[c] \in Call /\ Named(call[c])
    BY DEF BudgetInv, TypeInv, TypeOK, CallsNamed
  <1>2. CASE ExcludeAnnotations(c)
    <2>1. [call[c] EXCEPT !.notes = 0] \in Call
          /\ Named([call[c] EXCEPT !.notes = 0])
      BY <1>1 DEF Call, Named
    <2>2. call[c].notes \in Nat
      BY <1>1 DEF Call
    <2> QED
      BY <1>2, <2>1, <2>2, BudgetReleases DEF ExcludeAnnotations
  <1>3. CASE AllocationFails(c)
    <2> DEFINE r == [call[c] EXCEPT !.buf = call[c].old, !.old = 0]
    <2>1. r \in Call /\ Named(r) /\ call[c].buf \in Nat
      BY <1>1 DEF Call, Named
    <2> QED
      BY <1>3, <2>1, SettleType, BudgetReleases DEF AllocationFails
  <1>4. CASE Abandon(c)
    BY <1>1, <1>4, SettleType, BudgetReleases DEF Abandon
  <1> QED
    BY <1>2, <1>3, <1>4 DEF Interrupt

(* The publication of a body: the slot it overwrites, and what it stores.  *)
LEMMA ReplacedStored ==
  ASSUME TypeOK, NEW b \in Buckets, NEW k
  PROVE  Replaced(b, k) \in SUBSET objects
  <1>1. buckets[b].versioning \in Statuses
    BY DEF TypeOK, Bucket
  <1> QED
    BY <1>1 DEF Replaced, NullSlot, Visible, Selected, Statuses

LEMMA PublishedType ==
  ASSUME TypeOK, NEW r \in Call, r.bucket \in Buckets, r.key \in Keys,
         NEW gs \in SUBSET objects
  PROVE  Published(r, gs) \in Generation
  <1> DEFINE kept == KeptLock(gs)
  <1>1. kept.hold \in BOOLEAN /\ kept.mode \in Modes /\ kept.until \in Nat
    <2>1. CASE gs = {}
      BY <2>1 DEF KeptLock, Modes
    <2>2. CASE gs # {}
      <3>1. (CHOOSE g \in gs : TRUE) \in Generation
        BY <2>2 DEF TypeOK
      <3> QED
        BY <2>2, <3>1 DEF KeptLock, Generation
    <2> QED
      BY <2>1, <2>2
  <1>2. order + 1 \in Nat
    BY SizesAssumption DEF TypeOK
  <1> HIDE DEF kept
  <1>3. Published(r, gs) =
          [bucket |-> r.bucket, key |-> r.key, order |-> order + 1,
           null |-> buckets[r.bucket].versioning # "Enabled",
           marker |-> FALSE, content |-> r.content, cap |-> r.buf,
           len |-> r.len, notes |-> r.notes, noteLen |-> r.notes,
           hold |-> kept.hold, mode |-> kept.mode, until |-> kept.until]
    BY DEF Published, NextOrder, kept
  <1>4. /\ r.content \in Bodies \cup {NoContent}
        /\ r.buf \in Nat /\ r.len \in Nat /\ r.notes \in Nat
    BY DEF Call
  <1> QED
    BY <1>1, <1>2, <1>3, <1>4 DEF Generation

LEMMA BudgetCommit ==
  ASSUME BudgetInv, NEW c \in Clients, Commit(c)
  PROVE  BudgetInv'
  <1> DEFINE r == call[c]
             replaced == Replaced(r.bucket, r.key)
  <1>1. r \in Call /\ Named(r) /\ r.op \in {"put", "copy"}
    BY DEF BudgetInv, TypeInv, TypeOK, CallsNamed, Commit
  <1>2. r.bucket \in Buckets /\ r.key \in Keys
    BY <1>1 DEF Named
  <1>3. CASE CanCommit(r)
    <2>1. replaced \in SUBSET objects
      BY <1>2, ReplacedStored DEF BudgetInv, TypeInv
    <2>2. Published(r, replaced) \in Generation
      BY <1>1, <1>2, <2>1, PublishedType DEF BudgetInv, TypeInv
    <2>3. SpaceOf(replaced) \in Nat
      BY <2>1, SpaceNat DEF BudgetInv, TypeInv, TypeOK
    <2>4. /\ objects' = (objects \ replaced) \cup {Published(r, replaced)}
          /\ order' = order + 1
          /\ bytes' = bytes - SpaceOf(replaced) + r.buf + r.notes
          /\ reserved' = reserved - (r.buf + r.notes)
          /\ Moves(c, Settle([r EXCEPT !.buf = 0, !.notes = 0]))
          /\ UNCHANGED <<buckets, now>>
      BY <1>3 DEF Commit, NextOrder
    <2>5. order < MaxOrder /\ r.buf + r.notes <= reserved
      BY <1>3 DEF CanCommit, OrderLeft
    <2>6. r.buf \in Nat /\ r.notes \in Nat
      BY <1>1 DEF Call
    <2>7. /\ [r EXCEPT !.buf = 0, !.notes = 0] \in Call
          /\ Named([r EXCEPT !.buf = 0, !.notes = 0])
      BY <1>1 DEF Call, Named
    <2> HIDE DEF r, replaced
    <2>8. call' \in [Clients -> Call] /\ CallsNamed'
      BY <2>4, <2>7, SettleType, MovesType DEF BudgetInv
    <2>9. /\ order' \in 0..MaxOrder /\ bytes' \in Int /\ reserved' \in Nat
          /\ bytes' + reserved' <= ByteLimit
      BY <2>3, <2>4, <2>5, <2>6, SizesAssumption
      DEF BudgetInv, TypeInv, TypeOK, CapacityBound
    <2>10. objects' \subseteq Generation
      BY <2>2, <2>4 DEF BudgetInv, TypeInv, TypeOK
    <2> QED
      BY <2>4, <2>8, <2>9, <2>10
      DEF BudgetInv, TypeInv, TypeOK, CapacityBound
  <1>4. CASE ~CanCommit(r)
    <2>1. Moves(c, Settle(r)) /\ reserved' = reserved
          /\ UNCHANGED <<buckets, objects, order, bytes, now>>
      BY <1>4 DEF Commit
    <2> QED
      BY <1>1, <2>1, SettleType, BudgetReleases
  <1> QED
    BY <1>3, <1>4

LEMMA BudgetCommitAnnotation ==
  ASSUME BudgetInv, NEW c \in Clients, CommitAnnotation(c)
  PROVE  BudgetInv'
  <1> DEFINE r == call[c]
             able == {g \in Visible(objects, r.bucket, r.key, r.sel) :
                        CanAnnotate(r, g)}
  <1>1. r \in Call /\ Named(r)
    BY DEF BudgetInv, TypeInv, TypeOK, CallsNamed
  <1>2. CASE able # {}
    <2>1. PICK g \in able :
                /\ Rewrite(g, [g EXCEPT !.notes = r.buf, !.noteLen = r.len])
                /\ bytes' = bytes - g.notes + r.buf
      BY <1>2 DEF CommitAnnotation
    <2>2. /\ reserved' = reserved - r.buf
          /\ Moves(c, Idle)
          /\ UNCHANGED <<buckets, order, now>>
      BY <1>2 DEF CommitAnnotation
    <2>3. g \in Generation /\ r.buf <= reserved
      BY DEF CanAnnotate, Visible, Selected, BudgetInv, TypeInv, TypeOK
    <2>4. r.buf \in Nat /\ r.len \in Nat /\ g.notes \in Nat
      BY <1>1, <2>3 DEF Call, Generation
    <2>5. [g EXCEPT !.notes = r.buf, !.noteLen = r.len] \in Generation
      BY <2>3, <2>4 DEF Generation
    <2>6. call' \in [Clients -> Call] /\ CallsNamed'
      BY <2>2, IdleType, MovesType DEF BudgetInv
    <2>7. bytes' \in Int /\ reserved' \in Nat
          /\ bytes' + reserved' <= ByteLimit
      BY <2>1, <2>2, <2>3, <2>4, SizesAssumption
      DEF BudgetInv, TypeInv, TypeOK, CapacityBound
    <2>8. objects' \subseteq Generation
      BY <2>1, <2>5 DEF Rewrite, BudgetInv, TypeInv, TypeOK
    <2> QED
      BY <2>2, <2>6, <2>7, <2>8 DEF BudgetInv, TypeInv, TypeOK, CapacityBound
  <1>3. CASE able = {}
    <2>1. Moves(c, Settle(r)) /\ reserved' = reserved
          /\ UNCHANGED <<buckets, objects, order, bytes, now>>
      BY <1>3 DEF CommitAnnotation
    <2> QED
      BY <1>1, <2>1, SettleType, BudgetReleases
  <1> QED
    BY <1>2, <1>3

LEMMA BudgetAdvance ==
  ASSUME BudgetInv, NEW c \in Clients, Advance(c)
  PROVE  BudgetInv'
  <1>1. /\ call[c] \in Call /\ Named(call[c])
        /\ call[c].len \in Nat /\ call[c].size \in Nat
        /\ call[c].buf \in Nat /\ call[c].old \in Nat
        /\ call[c].snap \in Nat /\ call[c].notes \in Nat
    BY DEF BudgetInv, TypeInv, TypeOK, CallsNamed, Call
  <1>2. CASE StartBody(c)
    BY <1>1, <1>2, BudgetStart DEF StartBody
  <1>3. CASE Read(c)
    <2> DEFINE rest == call[c].size - call[c].len
               required == call[c].len + (IF rest < Chunk THEN rest ELSE Chunk)
               target == Growth(call[c].buf, required)
               r == [call[c] EXCEPT !.len = required]
    <2>1. required \in Nat
      BY <1>1, <1>3, SizesAssumption DEF Read
    <2>2. target \in Nat
      BY <1>1, <2>1, SizesAssumption DEF Growth, Larger
    <2>3. r \in Call /\ Named(r)
      BY <1>1, <2>1 DEF Call, Named
    <2> HIDE DEF r
    <2>4. [r EXCEPT !.pc = "exact"] \in Call
          /\ Named([r EXCEPT !.pc = "exact"])
      BY <2>3 DEF Call, Named
    <2>5. /\ \/ Moves(c, Settle(r)) /\ reserved' = reserved
             \/ Moves(c, r) /\ reserved' = reserved
             \/ Fits(target) /\ Grow(c, r, target)
             \/ Moves(c, [r EXCEPT !.pc = "exact"]) /\ reserved' = reserved
          /\ UNCHANGED <<buckets, objects, order, bytes, now>>
      BY <1>3 DEF Read, r
    <2> HIDE DEF target
    <2> QED
      BY <2>2, <2>3, <2>4, <2>5, SettleType, BudgetReleases, BudgetGrow
  <1>4. CASE RetryExact(c)
    BY <1>1, <1>4, SettleType, BudgetReleases, BudgetGrow DEF RetryExact
  <1>5. CASE ReleaseOld(c)
    <2> DEFINE r == [call[c] EXCEPT !.pc = "read", !.old = 0]
    <2>1. r \in Call /\ Named(r)
      BY <1>1 DEF Call, Named
    <2> QED
      BY <1>1, <1>5, <2>1, BudgetReleases DEF ReleaseOld
  <1>6. CASE Commit(c)
    BY <1>6, BudgetCommit
  <1>7. CASE CommitAnnotation(c)
    BY <1>7, BudgetCommitAnnotation
  <1>8. CASE ReleaseBuffer(c)
    <2> DEFINE r == [call[c] EXCEPT !.buf = 0]
    <2>1. r \in Call /\ Named(r)
      BY <1>1 DEF Call, Named
    <2> QED
      BY <1>1, <1>8, <2>1, SettleType, BudgetReleases DEF ReleaseBuffer
  <1>9. CASE ReleaseNotes(c)
    <2> DEFINE r == [call[c] EXCEPT !.notes = 0]
    <2>1. r \in Call /\ Named(r)
      BY <1>1 DEF Call, Named
    <2> QED
      BY <1>1, <1>9, <2>1, SettleType, BudgetReleases DEF ReleaseNotes
  <1>10. CASE ReleaseSnapshot(c)
    <2> DEFINE r == [call[c] EXCEPT !.snap = 0]
    <2>1. r \in Call /\ Named(r)
      BY <1>1 DEF Call, Named
    <2> QED
      BY <1>1, <1>10, <2>1, SettleType, BudgetReleases DEF ReleaseSnapshot
  <1> QED
    BY <1>2, <1>3, <1>4, <1>5, <1>6, <1>7, <1>8, <1>9, <1>10 DEF Advance

LEMMA BudgetStep == BudgetInv /\ [Next]_vars => BudgetInv'
  <1> SUFFICES ASSUME BudgetInv, [Next]_vars
               PROVE  BudgetInv'
    OBVIOUS
  <1>1. CASE BucketNext \/ \E b \in Buckets : DeleteBucket(b)
    BY <1>1, BudgetBuckets
  <1>2. CASE ObjectNext
    BY <1>2, BudgetObjects
  <1>3. CASE LockNext
    BY <1>3, BudgetLocks
  <1>4. ASSUME NEW c \in Clients, Begin(c) \/ Advance(c) \/ Interrupt(c)
        PROVE  BudgetInv'
    BY <1>4, BudgetBegin, BudgetAdvance, BudgetInterrupt
  <1>5. CASE Tick
    BY <1>5, SizesAssumption
    DEF Tick, BudgetInv, TypeInv, TypeOK, CallsNamed, CapacityBound
  <1>6. CASE UNCHANGED vars
    BY <1>6
    DEF vars, BudgetInv, TypeInv, TypeOK, CallsNamed, CapacityBound
  <1> QED
    BY <1>1, <1>2, <1>3, <1>4, <1>5, <1>6 DEF Next, StoreNext

(* Every state of the store is well typed, whatever the clients do.        *)
THEOREM TypeCorrect == Spec => []TypeOK
  <1>1. BudgetInv => TypeOK
    BY DEF BudgetInv, TypeInv
  <1> QED
    BY <1>1, BudgetInit, BudgetStep, PTL DEF Spec

(* The store never holds or promises more bytes than Byte_Capacity, with   *)
(* any number of clients and any sizes: Reserve_Buffer_Capacity and Commit.*)
THEOREM CapacityKept == Spec => []CapacityBound
  <1>1. BudgetInv => CapacityBound
    BY DEF BudgetInv
  <1> QED
    BY <1>1, BudgetInit, BudgetStep, PTL DEF Spec
=============================================================================

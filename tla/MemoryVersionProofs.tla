------------------------- MODULE MemoryVersionProofs -------------------------
(***************************************************************************)
(* Theorems about the generations of MemoryStore, for every value of the   *)
(* constants: version orders, the null generation, object lock and         *)
(* retention, MFA Delete, conditional creation, and the account of every   *)
(* byte that the store holds or has promised.                              *)
(***************************************************************************)
EXTENDS MemoryStoreProofs, ArithmeticFacts

-----------------------------------------------------------------------------
(* The inductive invariant, on any set of generations: a batch of deletions*)
(* goes through catalogs that no state shows.                              *)

BucketsLocked ==
    \A b \in Buckets :
        buckets[b].lock => buckets[b].versioning = "Enabled"

HistoryOK(objs, last) ==
    /\ \A g \in objs : g.order \in 1..last
    /\ \A g, h \in objs : g.order = h.order => g = h
    /\ \A g, h \in objs :
            /\ g.null /\ h.null
            /\ g.bucket = h.bucket /\ g.key = h.key
            => g = h
    /\ \A g \in objs :
            /\ buckets[g.bucket].used
            /\ buckets[g.bucket].versioning = "Unconfigured"
                    => g.null /\ ~g.marker
            /\ g.hold \/ g.mode # "None"
                    => buckets[g.bucket].lock /\ ~g.marker

VersionInv == BudgetInv /\ BucketsLocked /\ HistoryOK(objects, order)

(* What a publication has to bring to keep the history in order. *)
Fresh(h, rest, last) ==
    /\ h.order = last + 1
    /\ buckets[h.bucket].used
    /\ ~h.hold /\ h.mode = "None"
    /\ buckets[h.bucket].versioning = "Unconfigured" => h.null /\ ~h.marker
    /\ h.null => \A g \in rest :
                    ~(g.null /\ g.bucket = h.bucket /\ g.key = h.key)

(* Fewer generations are still in order. *)
LEMMA HistoryShrinks ==
  ASSUME NEW objs, NEW last, HistoryOK(objs, last), NEW rest \in SUBSET objs
  PROVE  HistoryOK(rest, last)
  BY DEF HistoryOK

LEMMA HistoryGrows ==
  ASSUME NEW rest \in SUBSET Generation, NEW last \in Nat,
         HistoryOK(rest, last), NEW h \in Generation, Fresh(h, rest, last)
  PROVE  HistoryOK(rest \cup {h}, last + 1)
  <1> DEFINE all == rest \cup {h}
  <1>1. \A g \in rest : g.order \in Nat /\ g.order \in 1..last
    BY DEF HistoryOK, Generation
  <1>2. \A g \in all : g.order \in 1..(last + 1)
    BY <1>1 DEF Fresh
  <1>3. \A g \in rest : g.order # h.order
    BY <1>1 DEF Fresh
  <1>4. \A f, g \in all : f.order = g.order => f = g
    BY <1>3 DEF HistoryOK
  <1>5. \A f, g \in all :
            f.null /\ g.null /\ f.bucket = g.bucket /\ f.key = g.key => f = g
    BY DEF HistoryOK, Fresh
  <1>6. \A g \in all :
            /\ buckets[g.bucket].used
            /\ buckets[g.bucket].versioning = "Unconfigured"
                    => g.null /\ ~g.marker
            /\ g.hold \/ g.mode # "None"
                    => buckets[g.bucket].lock /\ ~g.marker
    BY DEF HistoryOK, Fresh
  <1> QED
    BY <1>2, <1>4, <1>5, <1>6 DEF HistoryOK

(* A suspended bucket publishes over its null generation, of which there is*)
(* one: no other is left beside it.                                        *)
LEMMA NullReplaced ==
  ASSUME NEW objs \in SUBSET Generation, NEW last, HistoryOK(objs, last),
         NEW b, NEW k
  PROVE  \A g \in objs \ Selected(objs, b, k, Null) :
            ~(g.null /\ g.bucket = b /\ g.key = k)
  <1> SUFFICES ASSUME NEW g \in objs, g.null, g.bucket = b, g.key = k
               PROVE  g \in Selected(objs, b, k, Null)
    OBVIOUS
  <1>1. \A h \in objs : h.bucket = b /\ h.key = k /\ Matches(h, Null)
            => h.null
    BY ConditionsAssumption DEF Matches, Generation
  <1>2. \A h \in objs : h.bucket = b /\ h.key = k /\ Matches(h, Null)
            => h.order <= g.order
    BY <1>1 DEF HistoryOK, Generation
  <1> QED
    BY <1>2 DEF Selected, Matches

(* An unversioned bucket publishes over the only generation of the key. *)
LEMMA CurrentReplaced ==
  ASSUME NEW objs \in SUBSET Generation, NEW last, HistoryOK(objs, last),
         NEW b, NEW k, buckets[b].versioning = "Unconfigured"
  PROVE  \A g \in objs \ Visible(objs, b, k, Current) :
            ~(g.bucket = b /\ g.key = k)
  <1> SUFFICES ASSUME NEW g \in objs, g.bucket = b, g.key = k
               PROVE  g \in Visible(objs, b, k, Current)
    OBVIOUS
  <1>1. ~g.marker /\ \A h \in objs : h.bucket = b /\ h.key = k => h = g
    BY DEF HistoryOK
  <1>2. \A h \in objs : h.bucket = b /\ h.key = k => h.order <= g.order
    BY <1>1 DEF Generation
  <1> QED
    BY <1>1, <1>2 DEF Visible, Selected, Matches

(* A lock sits in a bucket whose versioning is enabled, on no marker. *)
LEMMA ProtectedEnabled ==
  ASSUME BucketsLocked, NEW objs \in SUBSET Generation, NEW last,
         HistoryOK(objs, last), NEW g \in objs, g.hold \/ g.mode # "None"
  PROVE  buckets[g.bucket].versioning = "Enabled" /\ ~g.marker
  BY DEF BucketsLocked, HistoryOK, Generation

-----------------------------------------------------------------------------
(* Deletion. *)

(* The three outcomes of an entry: refused, one version removed, a marker  *)
(* published.                                                              *)
LEMMA DeleteEntryCases ==
  ASSUME NEW st \in Catalogs, NEW b \in Buckets, NEW e \in Entry,
         NEW validated, NEW modified
  PROVE  LET after == DeleteEntry(st, b, e, validated, modified)
             target == IF e.sel = Current
                       THEN Visible(st.objects, b, e.key, Current)
                       ELSE Selected(st.objects, b, e.key, e.sel)
             null == buckets[b].versioning = "Suspended"
             replaced == IF null
                         THEN Selected(st.objects, b, e.key, Null) ELSE {}
         IN \/ after = st
            \/ /\ \A g \in target : Deletable(g, modified)
               /\ after.objects = st.objects \ target
               /\ after.order = st.order
            \/ /\ buckets[b].versioning # "Unconfigured"
               /\ after.objects = (st.objects \ replaced) \cup
                                    {Marker(b, e.key, null, st.order + 1)}
               /\ after.order = st.order + 1
  BY DEF DeleteEntry, Remove, PublishMarker, NullSlot, NextOrder, Catalogs

LEMMA DeleteEntryHistory ==
  ASSUME NEW st \in Catalogs, NEW b \in Buckets, NEW e \in Entry,
         NEW validated, NEW modified,
         HistoryOK(st.objects, st.order), buckets[b].used
  PROVE  LET after == DeleteEntry(st, b, e, validated, modified)
         IN HistoryOK(after.objects, after.order)
  <1> DEFINE after == DeleteEntry(st, b, e, validated, modified)
             target == IF e.sel = Current
                       THEN Visible(st.objects, b, e.key, Current)
                       ELSE Selected(st.objects, b, e.key, e.sel)
             null == buckets[b].versioning = "Suspended"
             replaced == IF null
                         THEN Selected(st.objects, b, e.key, Null) ELSE {}
             m == Marker(b, e.key, null, st.order + 1)
  <1>1. CASE after = st
    BY <1>1
  <1>2. CASE after.objects = st.objects \ target /\ after.order = st.order
    BY <1>2, HistoryShrinks
  <1>3. CASE /\ buckets[b].versioning # "Unconfigured"
             /\ after.objects = (st.objects \ replaced) \cup {m}
             /\ after.order = st.order + 1
    <2> DEFINE rest == st.objects \ replaced
    <2>1. rest \in SUBSET Generation /\ st.order \in Nat
      BY SizesAssumption DEF Catalogs
    <2>2. HistoryOK(rest, st.order)
      BY HistoryShrinks
    <2>3. m \in Generation
      <3>1. st.order + 1 \in Nat
        BY <2>1
      <3> QED
        BY <3>1 DEF Marker, Generation, Entry, Modes
    <2>4. null => \A g \in rest :
                     ~(g.null /\ g.bucket = b /\ g.key = e.key)
      BY NullReplaced DEF Catalogs
    <2>5. /\ m.bucket = b /\ m.key = e.key /\ m.order = st.order + 1
          /\ m.null => null
          /\ ~m.hold /\ m.mode = "None"
      BY DEF Marker
    <2> HIDE DEF rest, m, null
    <2>6. Fresh(m, rest, st.order)
      BY <1>3, <2>4, <2>5 DEF Fresh
    <2>7. HistoryOK(rest \cup {m}, st.order + 1)
      BY <2>1, <2>2, <2>3, <2>6, HistoryGrows
    <2> QED
      BY <1>3, <2>7 DEF rest, m
  <1> QED
    BY <1>1, <1>2, <1>3, DeleteEntryCases

(* No entry of a deletion takes a protected generation, whenever the clock *)
(* was read.                                                               *)
LEMMA DeleteEntryKeeps ==
  ASSUME BucketsLocked, now \in Nat,
         NEW st \in Catalogs, NEW b \in Buckets, NEW e \in Entry,
         NEW validated, NEW modified \in Readings,
         HistoryOK(st.objects, st.order),
         NEW g \in st.objects, Protected(g)
  PROVE  g \in DeleteEntry(st, b, e, validated, modified).objects
  <1> DEFINE after == DeleteEntry(st, b, e, validated, modified)
             target == IF e.sel = Current
                       THEN Visible(st.objects, b, e.key, Current)
                       ELSE Selected(st.objects, b, e.key, e.sel)
             null == buckets[b].versioning = "Suspended"
             replaced == IF null
                         THEN Selected(st.objects, b, e.key, Null) ELSE {}
             m == Marker(b, e.key, null, st.order + 1)
  <1>1. buckets[g.bucket].versioning = "Enabled" /\ ~g.marker
    BY ProtectedEnabled DEF Protected, Catalogs
  <1>2. modified \in Nat /\ modified <= UnixTime(now)
    BY UnixTimeNat, UnixTimeMonotone DEF Readings
  <1>3. g.until \in Nat /\ UnixTime(now) \in Nat
    BY UnixTimeNat DEF Catalogs, Generation
  <1>4. ~Deletable(g, modified)
    BY <1>1, <1>2, <1>3 DEF Deletable, Protected
  <1>5. CASE after = st
    BY <1>5
  <1>6. CASE /\ \A h \in target : Deletable(h, modified)
             /\ after.objects = st.objects \ target
    BY <1>4, <1>6
  <1>7. CASE after.objects = (st.objects \ replaced) \cup {m}
    <2>1. g \notin replaced
      BY <1>1 DEF Selected
    <2> QED
      BY <1>7, <2>1
  <1> QED
    BY <1>5, <1>6, <1>7, DeleteEntryCases

-----------------------------------------------------------------------------
(* What every step does to the generations: it keeps the history in order, *)
(* the protected generations in place, and the active retentions growing.  *)

Active(g) == g.mode # "None" /\ g.until > UnixTime(now)

KeepsProtected == \A g \in objects : Protected(g) => Keeps(g)

RetentionsGrow ==
    \A g \in objects, h \in objects' :
        (g.order = h.order /\ Active(g))
            => h.mode = g.mode /\ h.until >= g.until

GoodStep == /\ BucketsLocked'
            /\ HistoryOK(objects, order)'
            /\ KeepsProtected
            /\ RetentionsGrow

(* A step whose new generations are all newer than the old ones. *)
LEMMA NewerGrow ==
  ASSUME VersionInv,
         \A h \in objects' : h \in objects \/ h.order = order + 1
                             \/ h.order = order + 2
  PROVE  RetentionsGrow
  <1> SUFFICES ASSUME NEW g \in objects, NEW h \in objects',
                      g.order = h.order, Active(g)
               PROVE  h.mode = g.mode /\ h.until >= g.until
    BY DEF RetentionsGrow
  <1>1. g \in Generation /\ order \in Nat /\ g.order \in 1..order
    BY SizesAssumption
    DEF VersionInv, BudgetInv, TypeInv, TypeOK, HistoryOK
  <1>2. h \in objects
    BY <1>1
  <1>3. h = g
    BY <1>2 DEF VersionInv, HistoryOK
  <1>4. g.until >= g.until
    BY <1>1 DEF Generation
  <1> QED
    BY <1>3, <1>4

(* A step of the buckets alone. *)
LEMMA BucketsChange ==
  ASSUME VersionInv, BucketsLocked', UNCHANGED <<objects, order>>,
         \A g \in objects :
            /\ buckets'[g.bucket].used
            /\ buckets'[g.bucket].versioning = "Unconfigured"
                    => buckets[g.bucket].versioning = "Unconfigured"
            /\ buckets[g.bucket].lock => buckets'[g.bucket].lock
  PROVE  GoodStep
  <1>1. HistoryOK(objects, order)'
    BY DEF VersionInv, HistoryOK
  <1>2. KeepsProtected
    BY DEF KeepsProtected, Keeps
  <1>3. RetentionsGrow
    BY NewerGrow
  <1> QED
    BY <1>1, <1>2, <1>3 DEF GoodStep

(* A step that rewrites the lock or the annotations of one generation. *)
LEMMA RewriteStep ==
  ASSUME VersionInv, UNCHANGED <<buckets, order>>,
         NEW g \in objects, NEW h \in Generation, Rewrite(g, h),
         h.order = g.order, h.bucket = g.bucket, h.key = g.key,
         h.null = g.null, h.marker = g.marker, h.content = g.content,
         h.hold \/ h.mode # "None" => buckets[g.bucket].lock /\ ~g.marker,
         Active(g) => h.mode = g.mode /\ h.until >= g.until
  PROVE  GoodStep
  <1>1. objects' = (objects \ {g}) \cup {h}
    BY DEF Rewrite
  <1>2. HistoryOK(objects, order)'
    <2>1. \A f \in objects' : f.order \in 1..order
      BY <1>1 DEF VersionInv, HistoryOK
    <2>2. \A e, f \in objects' : e.order = f.order => e = f
      BY <1>1 DEF VersionInv, HistoryOK
    <2>3. \A e, f \in objects' :
            e.null /\ f.null /\ e.bucket = f.bucket /\ e.key = f.key => e = f
      BY <1>1 DEF VersionInv, HistoryOK
    <2>4. \A f \in objects' :
            /\ buckets[f.bucket].used
            /\ buckets[f.bucket].versioning = "Unconfigured"
                    => f.null /\ ~f.marker
            /\ f.hold \/ f.mode # "None"
                    => buckets[f.bucket].lock /\ ~f.marker
      BY <1>1 DEF VersionInv, HistoryOK
    <2> QED
      BY <2>1, <2>2, <2>3, <2>4 DEF HistoryOK
  <1>3. KeepsProtected
    BY <1>1 DEF KeepsProtected, Keeps
  <1>4. RetentionsGrow
    <2> SUFFICES ASSUME NEW e \in objects, NEW f \in objects',
                        e.order = f.order, Active(e)
                 PROVE  f.mode = e.mode /\ f.until >= e.until
      BY DEF RetentionsGrow
    <2>1. CASE f = h
      <3>1. e = g
        BY <2>1 DEF VersionInv, HistoryOK
      <3> QED
        BY <2>1, <3>1
    <2>2. CASE f \in objects
      <3>1. e = f /\ e.until \in Nat
        BY <2>2
        DEF VersionInv, HistoryOK, BudgetInv, TypeInv, TypeOK, Generation
      <3> QED
        BY <3>1
    <2> QED
      BY <1>1, <2>1, <2>2
  <1>5. BucketsLocked'
    BY DEF VersionInv, BucketsLocked
  <1> QED
    BY <1>2, <1>3, <1>4, <1>5 DEF GoodStep

-----------------------------------------------------------------------------
(* Every action is a good step. *)

LEMMA GoodBuckets ==
  ASSUME VersionInv, BucketNext \/ \E b \in Buckets : DeleteBucket(b)
  PROVE  GoodStep
  <1>1. /\ buckets \in [Buckets -> Bucket]
        /\ \A g \in objects : g.bucket \in Buckets /\ buckets[g.bucket].used
    BY DEF VersionInv, BudgetInv, TypeInv, TypeOK, Generation, HistoryOK
  <1>2. \A b \in Buckets :
            buckets[b].lock => buckets[b].versioning = "Enabled"
    BY DEF VersionInv, BucketsLocked
  <1> USE <1>1, <1>2, BucketsChange DEF BucketsLocked, Bucket
  <1>3. ASSUME NEW b \in Buckets, CreateBucket(b) PROVE GoodStep
    BY <1>3 DEF CreateBucket
  <1>4. ASSUME NEW b \in Buckets, DeleteBucket(b) PROVE GoodStep
    BY <1>4 DEF DeleteBucket, NewBucket
  <1>5. ASSUME NEW b \in Buckets, NEW s \in Statuses, NEW f \in MFAStates,
               NEW v \in Attestations, PutBucketVersioning(b, s, f, v)
        PROVE  GoodStep
    <2> DEFINE status == IF s = "Unconfigured"
                         THEN buckets[b].versioning ELSE s
               mfa == IF f = "Unconfigured" THEN buckets[b].mfa ELSE f
    <2>1. /\ buckets' = [buckets EXCEPT ![b].versioning = status,
                                        ![b].mfa = mfa]
          /\ UNCHANGED <<objects, order>>
      BY <1>5 DEF PutBucketVersioning, Merged
    <2>2. /\ status = "Unconfigured" => buckets[b].versioning = "Unconfigured"
          /\ buckets[b].lock => status = "Enabled"
      BY <1>5 DEF PutBucketVersioning, StatusAllowed, Statuses
    <2> HIDE DEF status, mfa
    <2>3. \A d \in Buckets :
            /\ buckets'[d].used = buckets[d].used
            /\ buckets'[d].lock = buckets[d].lock
            /\ buckets'[d].versioning =
                    IF d = b THEN status ELSE buckets[d].versioning
      BY <2>1
    <2> QED
      BY <2>1, <2>2, <2>3
  <1>6. ASSUME NEW b \in Buckets, EnableBucketObjectLock(b) PROVE GoodStep
    BY <1>6 DEF EnableBucketObjectLock
  <1>7. ASSUME NEW b \in Buckets, NEW n \in DocumentSizes,
               PutBucketPolicy(b, n) \/ PutBucketDocument(b, n)
        PROVE  GoodStep
    BY <1>7 DEF PutBucketPolicy, PutBucketDocument
  <1>8. ASSUME NEW b \in Buckets,
               DeleteBucketPolicy(b) \/ DeleteBucketDocument(b)
        PROVE  GoodStep
    BY <1>8 DEF DeleteBucketPolicy, DeleteBucketDocument
  <1> QED
    BY <1>3, <1>4, <1>5, <1>6, <1>7, <1>8 DEF BucketNext

(* What one entry, and so a batch, does to the catalog. *)
LEMMA DeleteEntryNewer ==
  ASSUME NEW st \in Catalogs, NEW b \in Buckets, NEW e \in Entry,
         NEW validated, NEW modified
  PROVE  LET after == DeleteEntry(st, b, e, validated, modified)
         IN /\ \A h \in after.objects :
                    h \in st.objects \/ h.order = st.order + 1
            /\ after.order = st.order \/ after.order = st.order + 1
  BY DeleteEntryCases DEF Marker

LEMMA GoodObjects ==
  ASSUME VersionInv, ObjectNext
  PROVE  GoodStep
  <1>1. /\ Catalog \in Catalogs
        /\ HistoryOK(Catalog.objects, Catalog.order)
        /\ Catalog.objects = objects /\ Catalog.order = order
        /\ now \in Nat /\ order \in Nat
    BY SizesAssumption
    DEF VersionInv, BudgetInv, TypeInv, TypeOK, Catalog, Catalogs
  <1>2. ASSUME NEW st, Becomes(st), UNCHANGED buckets,
               HistoryOK(st.objects, st.order),
               \A g \in objects : Protected(g) => g \in st.objects,
               \A h \in st.objects : h \in objects \/ h.order = order + 1
                                      \/ h.order = order + 2
        PROVE  GoodStep
    <2>1. HistoryOK(objects, order)' /\ BucketsLocked'
      BY <1>2 DEF Becomes, HistoryOK, VersionInv, BucketsLocked
    <2>2. KeepsProtected
      BY <1>2 DEF Becomes, KeepsProtected, Keeps
    <2>3. RetentionsGrow
      BY <1>2, NewerGrow DEF Becomes
    <2> QED
      BY <2>1, <2>2, <2>3 DEF GoodStep
  <1>3. ASSUME NEW b \in Buckets, NEW validated \in DeleteAttestations,
               NEW modified \in Readings, NEW e \in Entry,
               DeleteObject(b, e, validated, modified)
        PROVE  GoodStep
    <2> DEFINE st == DeleteEntry(Catalog, b, e, validated, modified)
    <2>1. Becomes(st) /\ UNCHANGED buckets /\ buckets[b].used
      BY <1>3 DEF DeleteObject
    <2>2. HistoryOK(st.objects, st.order)
      BY <1>1, <2>1, DeleteEntryHistory
    <2>3. \A g \in objects : Protected(g) => g \in st.objects
      BY <1>1, DeleteEntryKeeps DEF VersionInv
    <2>4. \A h \in st.objects : h \in objects \/ h.order = order + 1
      BY <1>1, DeleteEntryNewer
    <2> HIDE DEF st
    <2> QED
      BY <1>2, <2>1, <2>2, <2>3, <2>4
  <1>4. ASSUME NEW b \in Buckets, NEW validated \in DeleteAttestations,
               NEW modified \in Readings, NEW e1 \in Entry,
               NEW e2 \in Entry, NEW unversioned \in BOOLEAN,
               DeleteObjects(b, e1, e2, validated, modified, unversioned)
        PROVE  GoodStep
    <2> DEFINE first == DeleteEntry(Catalog, b, e1, validated, modified)
               st == DeleteEntry(first, b, e2, validated, modified)
    <2>1. Becomes(st) /\ UNCHANGED buckets /\ buckets[b].used
      BY <1>4 DEF DeleteObjects
    <2>2. first \in Catalogs /\ HistoryOK(first.objects, first.order)
      BY <1>1, <2>1, DeleteEntryType, DeleteEntryHistory
    <2>3. \A g \in objects : Protected(g) => g \in first.objects
      BY <1>1, DeleteEntryKeeps DEF VersionInv
    <2>4. /\ \A h \in first.objects : h \in objects \/ h.order = order + 1
          /\ first.order = order \/ first.order = order + 1
      BY <1>1, DeleteEntryNewer
    <2> HIDE DEF first
    <2>5. HistoryOK(st.objects, st.order)
      BY <2>1, <2>2, DeleteEntryHistory
    <2>6. \A g \in objects : Protected(g) => g \in st.objects
      BY <1>1, <2>2, <2>3, DeleteEntryKeeps DEF VersionInv
    <2>7. \A h \in st.objects :
            h \in first.objects \/ h.order = first.order + 1
      BY <2>2, DeleteEntryNewer
    <2>8. \A h \in st.objects : h \in objects \/ h.order = order + 1
                                \/ h.order = order + 2
      BY <1>1, <2>4, <2>7
    <2> HIDE DEF st
    <2> QED
      BY <1>2, <2>1, <2>5, <2>6, <2>8
  <1> QED
    BY <1>3, <1>4 DEF ObjectNext

(* Rewriting the annotations leaves the rest of a generation as it is. *)
LEMMA AnnotationFields ==
  ASSUME NEW g \in Generation, NEW n \in Nat, NEW m \in Nat
  PROVE  LET h == [g EXCEPT !.notes = n, !.noteLen = m]
         IN /\ h \in Generation /\ h.order = g.order /\ h.bucket = g.bucket
            /\ h.key = g.key /\ h.null = g.null /\ h.marker = g.marker
            /\ h.content = g.content /\ h.mode = g.mode
            /\ h.until = g.until /\ g.until >= g.until
            /\ h.hold => g.hold
  <1> DEFINE h == [g EXCEPT !.notes = n, !.noteLen = m]
  <1>1. h \in Generation
    BY DEF Generation
  <1>2. h.order = g.order /\ h.until = g.until /\ g.until >= g.until
    BY DEF Generation
  <1>3. /\ h.bucket = g.bucket /\ h.key = g.key /\ h.content = g.content
        /\ h.mode = g.mode
    BY DEF Generation
  <1>4. h.null = g.null /\ h.marker = g.marker
    BY DEF Generation
  <1>5. h.hold = g.hold
    BY DEF Generation
  <1> QED
    BY <1>1, <1>2, <1>3, <1>4, <1>5

LEMMA GoodLocks ==
  ASSUME VersionInv, LockNext
  PROVE  GoodStep
  <1>1. /\ objects \subseteq Generation /\ now \in Nat
        /\ \A g \in objects : g.hold \/ g.mode # "None"
                => buckets[g.bucket].lock /\ ~g.marker
    BY DEF VersionInv, BudgetInv, TypeInv, TypeOK, HistoryOK
  <1>2. ASSUME NEW b \in Buckets, NEW k \in Keys, NEW sel \in Selectors,
               NEW hold \in BOOLEAN, PutObjectLegalHold(b, k, sel, hold)
        PROVE  GoodStep
    <2>1. PICK g \in objects : /\ Rewrite(g, [g EXCEPT !.hold = hold])
                               /\ g.bucket = b /\ ~g.marker
      BY <1>2 DEF PutObjectLegalHold, Visible, Selected
    <2> DEFINE h == [g EXCEPT !.hold = hold]
    <2>2. /\ h \in Generation /\ h.order = g.order /\ h.bucket = g.bucket
          /\ h.key = g.key /\ h.null = g.null /\ h.marker = g.marker
          /\ h.content = g.content /\ h.mode = g.mode /\ h.until = g.until
          /\ g.until >= g.until
      BY <1>1 DEF Generation
    <2>3. UNCHANGED <<buckets, order>> /\ buckets[b].lock
      BY <1>2 DEF PutObjectLegalHold, LockReady
    <2> HIDE DEF h
    <2> QED
      BY <2>1, <2>2, <2>3, RewriteStep DEF h
  <1>3. ASSUME NEW b \in Buckets, NEW k \in Keys, NEW sel \in Selectors,
               NEW mode \in Modes, NEW until \in 0..UnixTime(MaxTick),
               NEW modified \in Readings,
               PutObjectRetention(b, k, sel, mode, until, modified)
        PROVE  GoodStep
    <2>1. PICK g \in objects :
                /\ g.bucket = b /\ ~g.marker
                /\ (g.mode # "None" /\ g.until > modified)
                        => (mode = g.mode /\ until >= g.until)
                /\ Rewrite(g, [g EXCEPT !.mode = mode, !.until = until])
      BY <1>3 DEF PutObjectRetention, RetentionAllowed, Visible, Selected
    <2> DEFINE h == [g EXCEPT !.mode = mode, !.until = until]
    <2>2. until \in Nat
      BY UnixTimeNat, SizesAssumption
    <2>3. /\ h \in Generation /\ h.order = g.order /\ h.bucket = g.bucket
          /\ h.key = g.key /\ h.null = g.null /\ h.marker = g.marker
          /\ h.content = g.content /\ h.mode = mode /\ h.until = until
          /\ g.until \in Nat
      BY <1>1, <2>2 DEF Generation
    <2>4. UNCHANGED <<buckets, order>> /\ buckets[b].lock
      BY <1>3 DEF PutObjectRetention, LockReady
    <2>5. modified \in Nat /\ modified <= UnixTime(now)
          /\ UnixTime(now) \in Nat
      BY <1>1, UnixTimeNat, UnixTimeMonotone DEF Readings
    <2>6. Active(g) => mode = g.mode /\ until >= g.until
      BY <2>1, <2>3, <2>5 DEF Active
    <2> HIDE DEF h
    <2> QED
      BY <2>1, <2>3, <2>4, <2>6, RewriteStep DEF h
  <1>4. ASSUME NEW b \in Buckets, NEW k \in Keys, NEW sel \in Selectors,
               NEW cond \in DeleteConditions,
               DeleteObjectAnnotation(b, k, sel, cond)
        PROVE  GoodStep
    <2>1. PICK g \in objects :
                Rewrite(g, [g EXCEPT !.notes = 0, !.noteLen = 0])
      BY <1>4 DEF DeleteObjectAnnotation, Visible, Selected
    <2> DEFINE h == [g EXCEPT !.notes = 0, !.noteLen = 0]
    <2>2. /\ h \in Generation /\ h.order = g.order /\ h.bucket = g.bucket
          /\ h.key = g.key /\ h.null = g.null /\ h.marker = g.marker
          /\ h.content = g.content /\ h.mode = g.mode /\ h.until = g.until
          /\ h.hold => g.hold
          /\ g.until >= g.until
      <3>1. g \in Generation /\ 0 \in Nat
        BY <1>1
      <3> QED
        BY <3>1, AnnotationFields
    <2>3. UNCHANGED <<buckets, order>>
      BY <1>4 DEF DeleteObjectAnnotation
    <2> HIDE DEF h
    <2> QED
      BY <1>1, <2>1, <2>2, <2>3, RewriteStep DEF h
  <1> QED
    BY <1>2, <1>3, <1>4 DEF LockNext

(* A publication keeps the history in order, and takes no protected slot.  *)
LEMMA GoodPublication ==
  ASSUME VersionInv, UNCHANGED buckets,
         NEW r \in Call, r.bucket \in Buckets, r.key \in Keys,
         buckets[r.bucket].used, order' = order + 1,
         LET replaced == Replaced(r.bucket, r.key)
         IN objects' = (objects \ replaced) \cup {Published(r, replaced)}
  PROVE  GoodStep
  <1> DEFINE replaced == Replaced(r.bucket, r.key)
             p == Published(r, replaced)
             rest == objects \ replaced
  <1>1. /\ TypeOK /\ buckets \in [Buckets -> Bucket]
        /\ objects \in SUBSET Generation /\ order \in Nat
        /\ BucketsLocked /\ HistoryOK(objects, order)
        /\ objects' = rest \cup {p}
    BY SizesAssumption DEF VersionInv, BudgetInv, TypeInv, TypeOK
  <1>2. replaced \in SUBSET objects
    BY <1>1, ReplacedStored
  <1>3. p \in Generation
    BY <1>1, <1>2, PublishedType
  <1>4. /\ buckets[r.bucket].versioning \in Statuses
        /\ \A g \in replaced : g.bucket = r.bucket
    BY <1>1 DEF Replaced, NullSlot, Visible, Selected, Bucket, Statuses
  <1>5. \A g \in replaced : ~g.hold /\ g.mode = "None"
    <2>1. CASE buckets[r.bucket].versioning = "Enabled"
      BY <2>1 DEF Replaced
    <2>2. CASE buckets[r.bucket].versioning # "Enabled"
      BY <1>1, <1>2, <1>4, <2>2, ProtectedEnabled
    <2> QED
      BY <2>1, <2>2
  <1>6. /\ p.order = order + 1 /\ p.bucket = r.bucket /\ p.key = r.key
        /\ ~p.marker
        /\ p.null <=> buckets[r.bucket].versioning # "Enabled"
    BY DEF Published, NextOrder
  <1>7. ~p.hold /\ p.mode = "None"
    <2>1. CASE replaced = {}
      BY <2>1 DEF Published, KeptLock
    <2>2. CASE replaced # {}
      <3>1. PICK g \in replaced : g = CHOOSE h \in replaced : TRUE
        BY <2>2
      <3>2. p.hold = g.hold /\ p.mode = g.mode
        BY <2>2, <3>1 DEF Published, KeptLock
      <3> QED
        BY <1>5, <3>2
    <2> QED
      BY <2>1, <2>2
  <1>8. p.null => \A g \in rest :
                    ~(g.null /\ g.bucket = r.bucket /\ g.key = r.key)
    <2>1. CASE buckets[r.bucket].versioning = "Unconfigured"
      BY <1>1, <2>1, CurrentReplaced DEF Replaced
    <2>2. CASE buckets[r.bucket].versioning = "Suspended"
      BY <1>1, <2>2, NullReplaced DEF Replaced, NullSlot
    <2> QED
      BY <1>4, <1>6, <2>1, <2>2 DEF Statuses
  <1> HIDE DEF p, rest
  <1>9. HistoryOK(rest, order) /\ rest \in SUBSET Generation
    BY <1>1, HistoryShrinks DEF rest
  <1>10. Fresh(p, rest, order)
    BY <1>1, <1>6, <1>7, <1>8 DEF Fresh
  <1>11. HistoryOK(rest \cup {p}, order + 1)
    BY <1>1, <1>3, <1>9, <1>10, HistoryGrows
  <1>12. HistoryOK(objects, order)' /\ BucketsLocked'
    BY <1>1, <1>11 DEF HistoryOK, BucketsLocked
  <1>13. KeepsProtected
    BY <1>1, <1>5 DEF KeepsProtected, Keeps, Protected, rest
  <1>14. RetentionsGrow
    BY <1>1, <1>6, NewerGrow DEF rest
  <1> QED
    BY <1>12, <1>13, <1>14 DEF GoodStep

LEMMA GoodCommit ==
  ASSUME VersionInv, NEW c \in Clients, Commit(c)
  PROVE  GoodStep
  <1> DEFINE r == call[c]
  <1>1. r \in Call /\ r.bucket \in Buckets /\ r.key \in Keys
    BY DEF VersionInv, BudgetInv, TypeInv, TypeOK, CallsNamed, Named, Commit
  <1>2. CASE CanCommit(r)
    <2>1. /\ LET replaced == Replaced(r.bucket, r.key)
             IN objects' = (objects \ replaced) \cup {Published(r, replaced)}
          /\ order' = order + 1
          /\ UNCHANGED buckets
          /\ buckets[r.bucket].used
      BY <1>2 DEF Commit, CanCommit, BucketFound, NextOrder
    <2> QED
      BY <1>1, <2>1, GoodPublication
  <1>3. CASE ~CanCommit(r)
    <2>1. UNCHANGED <<buckets, objects, order>>
      BY <1>3 DEF Commit
    <2> QED
      BY <2>1, BucketsChange DEF VersionInv, BucketsLocked, HistoryOK
  <1> QED
    BY <1>2, <1>3

(* A call changes the generations when it commits, and only then. *)
LEMMA CallsObjects ==
  ASSUME NEW c \in Clients, Begin(c) \/ Advance(c) \/ Interrupt(c)
  PROVE  \/ UNCHANGED <<buckets, objects, order>>
         \/ Commit(c) \/ CommitAnnotation(c)
  <1>1. Begin(c) => UNCHANGED <<buckets, objects, order>>
    <2>1. ASSUME NEW b, NEW k, NEW v, NEW d, NEW cond,
                 PutObject(c, b, k, v, d, cond)
          PROVE  UNCHANGED <<buckets, objects, order>>
      BY <2>1 DEF PutObject
    <2>2. ASSUME NEW b, NEW k, NEW sel, NEW v, NEW d, NEW cond,
                 PutObjectAnnotation(c, b, k, sel, v, d, cond)
          PROVE  UNCHANGED <<buckets, objects, order>>
      BY <2>2 DEF PutObjectAnnotation
    <2>3. ASSUME NEW b, NEW k, NEW sel, GetObject(c, b, k, sel)
          PROVE  UNCHANGED <<buckets, objects, order>>
      BY <2>3 DEF GetObject
    <2>4. ASSUME NEW b, NEW k, NEW sel, NEW toBucket, NEW toKey, NEW cond,
                 CopyObject(c, b, k, sel, toBucket, toKey, cond)
          PROVE  UNCHANGED <<buckets, objects, order>>
      BY <2>4 DEF CopyObject
    <2> QED
      BY <2>1, <2>2, <2>3, <2>4 DEF Begin
  <1>2. Interrupt(c) => UNCHANGED <<buckets, objects, order>>
    BY DEF Interrupt, ExcludeAnnotations, AllocationFails, Abandon
  <1>3. Advance(c) => \/ UNCHANGED <<buckets, objects, order>>
                      \/ Commit(c) \/ CommitAnnotation(c)
    BY DEF Advance, StartBody, Read, RetryExact, ReleaseOld, ReleaseBuffer,
           ReleaseNotes, ReleaseSnapshot
  <1> QED
    BY <1>1, <1>2, <1>3

LEMMA GoodCalls ==
  ASSUME VersionInv, NEW c \in Clients, Begin(c) \/ Advance(c) \/ Interrupt(c)
  PROVE  GoodStep
  <1>1. /\ objects \subseteq Generation /\ call[c] \in Call
        /\ \A g \in objects : g.hold \/ g.mode # "None"
                => buckets[g.bucket].lock /\ ~g.marker
    BY DEF VersionInv, BudgetInv, TypeInv, TypeOK, HistoryOK
  <1>2. CASE UNCHANGED <<buckets, objects, order>>
    BY <1>2, BucketsChange DEF VersionInv, BucketsLocked, HistoryOK
  <1>3. CASE Commit(c)
    BY <1>3, GoodCommit
  <1>4. CASE CommitAnnotation(c)
    <2> DEFINE r == call[c]
               able == {g \in Visible(objects, r.bucket, r.key, r.sel) :
                          CanAnnotate(r, g)}
    <2>1. CASE able = {}
      <3>1. UNCHANGED <<buckets, objects, order>>
        BY <1>4, <2>1 DEF CommitAnnotation
      <3> QED
        BY <1>2, <3>1
    <2>2. CASE able # {}
      <3>1. PICK g \in able :
                  Rewrite(g, [g EXCEPT !.notes = r.buf, !.noteLen = r.len])
        BY <1>4, <2>2 DEF CommitAnnotation
      <3>2. g \in objects /\ g \in Generation
        BY <1>1 DEF Visible, Selected
      <3>3. r.buf \in Nat /\ r.len \in Nat
        BY <1>1 DEF Call
      <3>4. UNCHANGED <<buckets, order>>
        BY <1>4, <2>2 DEF CommitAnnotation
      <3> DEFINE h == [g EXCEPT !.notes = r.buf, !.noteLen = r.len]
      <3>5. /\ h \in Generation /\ h.order = g.order /\ h.bucket = g.bucket
            /\ h.key = g.key /\ h.null = g.null /\ h.marker = g.marker
            /\ h.content = g.content /\ h.mode = g.mode
            /\ h.until = g.until /\ g.until >= g.until
            /\ h.hold => g.hold
        BY <3>2, <3>3, AnnotationFields
      <3> HIDE DEF h
      <3> QED
        BY <1>1, <3>1, <3>2, <3>4, <3>5, RewriteStep DEF h
    <2> QED
      BY <2>1, <2>2
  <1> QED
    BY <1>2, <1>3, <1>4, CallsObjects

LEMMA GoodNext == VersionInv /\ [Next]_vars => GoodStep
  <1> SUFFICES ASSUME VersionInv, [Next]_vars
               PROVE  GoodStep
    OBVIOUS
  <1>1. CASE UNCHANGED <<buckets, objects, order>>
    BY <1>1, BucketsChange DEF VersionInv, BucketsLocked, HistoryOK
  <1>2. Tick \/ UNCHANGED vars => UNCHANGED <<buckets, objects, order>>
    BY DEF Tick, vars
  <1>3. ASSUME NEW c \in Clients, Begin(c) \/ Advance(c) \/ Interrupt(c)
        PROVE  GoodStep
    BY <1>3, GoodCalls
  <1> QED
    BY <1>1, <1>2, <1>3, GoodBuckets, GoodObjects, GoodLocks
    DEF Next, StoreNext

LEMMA VersionInit == Init => VersionInv
  BY BudgetInit DEF Init, VersionInv, BucketsLocked, HistoryOK, NewBucket

LEMMA VersionStep == VersionInv /\ [Next]_vars => VersionInv'
  BY GoodNext, BudgetStep DEF VersionInv, GoodStep

LEMMA VersionAlways == Spec => []VersionInv
  BY VersionInit, VersionStep, PTL DEF Spec

-----------------------------------------------------------------------------
(* The theorems. *)

(* No publication order names two generations, now or after deletions:     *)
(* Next_Version in Commit, Publish_Marker and their overflow checks.       *)
THEOREM OrdersAreUnique == Spec => []OrdersUnique
  <1>1. VersionInv => OrdersUnique
    BY DEF VersionInv, HistoryOK, OrdersUnique
  <1> QED
    BY <1>1, VersionAlways, PTL

(* A key has at most one null generation, through every change of the      *)
(* versioning of its bucket and every interleaving of writers.             *)
THEOREM NullVersionIsUnique == Spec => []OneNullVersion
  <1>1. VersionInv => OneNullVersion
    BY DEF VersionInv, HistoryOK, OneNullVersion
  <1> QED
    BY <1>1, VersionAlways, PTL

(* A bucket that never had versioning has neither history nor markers.     *)
THEOREM UnversionedHasNoHistory == Spec => []NoHistoryUnversioned
  <1>1. VersionInv => NoHistoryUnversioned
    BY DEF VersionInv, HistoryOK, NoHistoryUnversioned
  <1> QED
    BY <1>1, VersionAlways, PTL

(* A commit that comes after its bucket was deleted leaves no orphan.      *)
THEOREM ObjectsHaveBuckets == Spec => []NoOrphans
  <1>1. VersionInv => NoOrphans
    BY DEF VersionInv, HistoryOK, NoOrphans
  <1> QED
    BY <1>1, VersionAlways, PTL

(* Locks exist only where writes overwrite nothing, so that the hold which *)
(* Commit leaves in a reused slot is never one that a client set.          *)
THEOREM LocksNeedVersioning == Spec => []LocksOnlyWhereEnabled
  <1>1. VersionInv => LocksOnlyWhereEnabled
    BY DEF VersionInv, BucketsLocked, HistoryOK, LocksOnlyWhereEnabled
  <1> QED
    BY <1>1, VersionAlways, PTL

(* No step takes a generation that is under a hold or an active retention. *)
THEOREM ProtectedIsKept == Spec => ProtectedStay
  <1>1. VersionInv /\ [Next]_vars
            => [\A g \in objects : Protected(g) => Keeps(g)]_vars
    BY GoodNext DEF GoodStep, KeepsProtected
  <1> QED
    BY <1>1, VersionAlways, PTL DEF Spec, ProtectedStay

(* An active retention keeps its mode and does not get shorter.            *)
THEOREM RetentionIsKept == Spec => RetentionOnlyGrows
  <1>1. VersionInv /\ [Next]_vars
            => [\A g \in objects, h \in objects' :
                  (g.order = h.order /\ g.mode # "None"
                     /\ g.until > UnixTime(now))
                      => h.mode = g.mode /\ h.until >= g.until]_vars
    BY GoodNext DEF GoodStep, RetentionsGrow, Active
  <1> QED
    BY <1>1, VersionAlways, PTL DEF Spec, RetentionOnlyGrows

-----------------------------------------------------------------------------
(* The accounts.  What the generations, the documents and the calls hold,  *)
(* and what a call holds of the budget in each of its states.              *)

StoredBytes(objs) == SumFunction([g \in objs |-> Resident(g)])
DocumentBytes == SumFunction([b \in Buckets |-> Documents(b)])
PromisedBytes == SumFunction([c \in Clients |-> Charge(call[c])])

(* A buffer is charged from the first read on, an old array only until the *)
(* growth that replaced it is over, a copied source only in a copy.        *)
HeldWell(r) ==
    /\ r.pc = "idle" => Charge(r) = 0
    /\ r.pc \in {"asked", "fetched"} => r.buf = 0 /\ r.old = 0
    /\ r.pc \in {"read", "exact"} => r.old = 0
    /\ r.op = "annotate" => r.snap = 0 /\ r.notes = 0

PromisesKept ==
    /\ \A c \in Clients : HeldWell(call[c])
    /\ reserved = PromisedBytes

(* A step that moves as many bytes as its generations and documents show.  *)
BytesBalance ==
    /\ IsFiniteSet(objects)'
    /\ bytes' - StoredBytes(objects)' - DocumentBytes'
            = bytes - StoredBytes(objects) - DocumentBytes

LEMMA ResidentNat ==
  ASSUME NEW g \in Generation
  PROVE  Resident(g) \in Nat
  BY DEF Resident, Generation

LEMMA StoredNat ==
  ASSUME NEW objs \in SUBSET Generation, IsFiniteSet(objs)
  PROVE  /\ StoredBytes(objs) \in Nat
         /\ [g \in objs |-> Resident(g)] \in [objs -> Nat]
  <1>1. [g \in objs |-> Resident(g)] \in [objs -> Nat]
    BY ResidentNat
  <1> QED
    BY <1>1, SumNat DEF StoredBytes

LEMMA StoredAdd ==
  ASSUME NEW objs \in SUBSET Generation, IsFiniteSet(objs),
         NEW h \in Generation, h \notin objs
  PROVE  /\ IsFiniteSet(objs \cup {h})
         /\ StoredBytes(objs \cup {h}) = StoredBytes(objs) + Resident(h)
  <1> DEFINE w == [g \in objs |-> Resident(g)]
             v == [g \in objs \cup {h} |-> Resident(g)]
  <1>1. w \in [objs -> Nat] /\ v \in [objs \cup {h} -> Nat]
    BY ResidentNat
  <1>2. \A g \in objs : v[g] = w[g]
    OBVIOUS
  <1>3. v[h] = Resident(h)
    OBVIOUS
  <1>4. /\ StoredBytes(objs) = SumFunction(w)
        /\ StoredBytes(objs \cup {h}) = SumFunction(v)
    BY DEF StoredBytes
  <1> HIDE DEF w, v
  <1>5. SumFunction(v) = v[h] + SumFunction(w)
    BY <1>1, <1>2, SumAdd
  <1>6. SumFunction(w) \in Nat /\ Resident(h) \in Nat
    BY <1>1, SumNat, ResidentNat
  <1> QED
    BY <1>3, <1>4, <1>5, <1>6, FS_AddElement

LEMMA StoredLess ==
  ASSUME NEW objs \in SUBSET Generation, IsFiniteSet(objs),
         NEW gs \in SUBSET objs, \A g, h \in gs : g = h
  PROVE  /\ IsFiniteSet(objs \ gs)
         /\ StoredBytes(objs \ gs) = StoredBytes(objs) - SpaceOf(gs)
  <1>1. IsFiniteSet(objs \ gs)
    BY FS_Subset
  <1>2. CASE gs = {}
    <2>1. objs \ gs = objs /\ SpaceOf(gs) = 0
      BY <1>2 DEF SpaceOf
    <2>2. StoredBytes(objs) \in Nat
      BY StoredNat
    <2> QED
      BY <1>1, <2>1, <2>2
  <1>3. CASE gs # {}
    <2> DEFINE g == CHOOSE h \in gs : TRUE
    <2>1. g \in gs /\ gs = {g} /\ SpaceOf(gs) = Resident(g)
      BY <1>3 DEF SpaceOf
    <2> HIDE DEF g
    <2>2. (objs \ gs) \cup {g} = objs /\ g \notin objs \ gs /\ g \in Generation
      BY <2>1
    <2>3. StoredBytes(objs) = StoredBytes(objs \ gs) + Resident(g)
      BY <1>1, <2>2, StoredAdd
    <2>4. StoredBytes(objs \ gs) \in Nat /\ Resident(g) \in Nat
      BY <1>1, <2>2, StoredNat, ResidentNat
    <2> QED
      BY <1>1, <2>1, <2>3, <2>4
  <1> QED
    BY <1>2, <1>3

(* A selector names at most one generation. *)
LEMMA SelectedUnique ==
  ASSUME NEW objs \in SUBSET Generation, NEW last, HistoryOK(objs, last),
         NEW b, NEW k, NEW sel
  PROVE  /\ Selected(objs, b, k, sel) \in SUBSET objs
         /\ Visible(objs, b, k, sel) \in SUBSET objs
         /\ \A g, h \in Selected(objs, b, k, sel) : g = h
         /\ \A g, h \in Visible(objs, b, k, sel) : g = h
  <1>1. \A g, h \in objs : g.order <= h.order /\ h.order <= g.order => g = h
    BY DEF HistoryOK, Generation
  <1>2. Selected(objs, b, k, sel) \in SUBSET objs
    BY DEF Selected
  <1>3. \A g, h \in Selected(objs, b, k, sel) : g = h
    BY <1>1 DEF Selected
  <1>4. Visible(objs, b, k, sel) \in SUBSET Selected(objs, b, k, sel)
    BY DEF Visible
  <1> QED
    BY <1>2, <1>3, <1>4

(* A generation that takes the place of another, or of none. *)
LEMMA StoredReplace ==
  ASSUME NEW objs \in SUBSET Generation, IsFiniteSet(objs),
         NEW gs \in SUBSET objs, \A g, h \in gs : g = h,
         NEW h \in Generation, h \notin objs \ gs
  PROVE  /\ IsFiniteSet((objs \ gs) \cup {h})
         /\ StoredBytes((objs \ gs) \cup {h})
                = StoredBytes(objs) - SpaceOf(gs) + Resident(h)
  <1> DEFINE rest == objs \ gs
  <1>1. IsFiniteSet(rest) /\ StoredBytes(rest) = StoredBytes(objs) - SpaceOf(gs)
    BY StoredLess
  <1>2. rest \in SUBSET Generation /\ h \notin rest
    OBVIOUS
  <1> HIDE DEF rest
  <1>3. IsFiniteSet(rest \cup {h})
        /\ StoredBytes(rest \cup {h}) = StoredBytes(rest) + Resident(h)
    BY <1>1, <1>2, StoredAdd
  <1> QED
    BY <1>1, <1>3 DEF rest

(* Rewriting a generation keeps its order, so that it is not another one.  *)
LEMMA RewriteBalance ==
  ASSUME VersionInv, IsFiniteSet(objects),
         NEW g \in objects, NEW h \in Generation, h.order = g.order,
         Rewrite(g, h)
  PROVE  /\ IsFiniteSet(objects')
         /\ StoredBytes(objects')
                = StoredBytes(objects) - Resident(g) + Resident(h)
  <1>1. objects \in SUBSET Generation /\ objects' = (objects \ {g}) \cup {h}
    BY DEF VersionInv, BudgetInv, TypeInv, TypeOK, Rewrite
  <1>2. h \notin objects \ {g}
    BY DEF VersionInv, HistoryOK
  <1>3. {g} \in SUBSET objects /\ \A e, f \in {g} : e = f
    OBVIOUS
  <1>4. SpaceOf({g}) = Resident(g)
    <2>1. \A e : e \in {g} <=> e = g
      OBVIOUS
    <2>2. {g} # {} /\ (CHOOSE e \in {g} : TRUE) = g
      OBVIOUS
    <2> QED
      BY <2>2 DEF SpaceOf
  <1> QED
    BY <1>1, <1>2, <1>3, <1>4, StoredReplace

(* An entry of a deletion returns what it removes. *)
LEMMA DeleteEntryBalance ==
  ASSUME NEW st \in Catalogs, NEW b \in Buckets, NEW e \in Entry,
         NEW validated, NEW modified,
         HistoryOK(st.objects, st.order), IsFiniteSet(st.objects)
  PROVE  LET after == DeleteEntry(st, b, e, validated, modified)
         IN /\ IsFiniteSet(after.objects)
            /\ after.bytes - StoredBytes(after.objects)
                    = st.bytes - StoredBytes(st.objects)
  <1> DEFINE after == DeleteEntry(st, b, e, validated, modified)
             target == IF e.sel = Current
                       THEN Visible(st.objects, b, e.key, Current)
                       ELSE Selected(st.objects, b, e.key, e.sel)
             null == buckets[b].versioning = "Suspended"
             replaced == IF null
                         THEN Selected(st.objects, b, e.key, Null) ELSE {}
             m == Marker(b, e.key, null, st.order + 1)
             Balanced == /\ IsFiniteSet(after.objects)
                         /\ after.bytes - StoredBytes(after.objects)
                                = st.bytes - StoredBytes(st.objects)
  <1>0. /\ st.objects \in SUBSET Generation /\ st.bytes \in Int
        /\ st.order \in Nat
    BY SizesAssumption DEF Catalogs
  <1> SUFFICES Balanced
    OBVIOUS
  <1>1. /\ target \in SUBSET st.objects /\ \A g, h \in target : g = h
        /\ replaced \in SUBSET st.objects /\ \A g, h \in replaced : g = h
    <2>1. \A k, sel :
            /\ Selected(st.objects, b, k, sel) \in SUBSET st.objects
            /\ Visible(st.objects, b, k, sel) \in SUBSET st.objects
            /\ \A g, h \in Selected(st.objects, b, k, sel) : g = h
            /\ \A g, h \in Visible(st.objects, b, k, sel) : g = h
      BY <1>0, SelectedUnique
    <2>2. CASE e.sel = Current
      BY <2>1, <2>2
    <2>3. CASE e.sel # Current
      BY <2>1, <2>3
    <2> QED
      BY <2>2, <2>3
  <1>2. /\ StoredBytes(st.objects) \in Nat
        /\ SpaceOf(target) \in Nat /\ SpaceOf(replaced) \in Nat
    BY <1>0, <1>1, StoredNat, SpaceNat
  <1>3. CASE after = st
    BY <1>3
  <1>4. CASE after = [st EXCEPT !.objects = @ \ target,
                                !.bytes = @ - SpaceOf(target)]
    <2>1. /\ after.objects = st.objects \ target
          /\ after.bytes = st.bytes - SpaceOf(target)
      BY <1>4 DEF Catalogs
    <2> HIDE DEF after, target
    <2>2. /\ IsFiniteSet(st.objects \ target)
          /\ StoredBytes(st.objects \ target)
                = StoredBytes(st.objects) - SpaceOf(target)
      BY <1>0, <1>1, StoredLess
    <2> QED
      BY <1>0, <1>1, <1>2, <2>1, <2>2
  <1>5. CASE /\ after.objects = (st.objects \ replaced) \cup {m}
             /\ after.bytes = st.bytes - SpaceOf(replaced)
    <2>1. m \in Generation /\ m.order = st.order + 1 /\ Resident(m) = 0
      <3>1. st.order + 1 \in Nat
        BY <1>0
      <3> QED
        BY <3>1 DEF Marker, Generation, Entry, Modes, Resident
    <2>2. m \notin st.objects \ replaced
      BY <1>0, <2>1 DEF HistoryOK
    <2> HIDE DEF m, after, replaced
    <2>3. /\ IsFiniteSet((st.objects \ replaced) \cup {m})
          /\ StoredBytes((st.objects \ replaced) \cup {m})
                = StoredBytes(st.objects) - SpaceOf(replaced) + 0
      BY <1>0, <1>1, <2>1, <2>2, StoredReplace
    <2> QED
      BY <1>0, <1>1, <1>2, <1>5, <2>3
  <1>6. \/ after = st
        \/ after = [st EXCEPT !.objects = @ \ target,
                              !.bytes = @ - SpaceOf(target)]
        \/ /\ after.objects = (st.objects \ replaced) \cup {m}
           /\ after.bytes = st.bytes - SpaceOf(replaced)
    BY DEF DeleteEntry, Remove, PublishMarker, NullSlot, NextOrder
  <1> HIDE DEF after
  <1> QED
    BY <1>3, <1>4, <1>5, <1>6 DEF after

(* Only the documents of one bucket change at a time. *)
DocumentsIn(bs) == [d \in Buckets |-> bs[d].policy + bs[d].document]

LEMMA DocumentsInChange ==
  ASSUME NEW bs \in [Buckets -> Bucket], NEW b \in Buckets, NEW r \in Bucket
  PROVE  /\ SumFunction(DocumentsIn([bs EXCEPT ![b] = r]))
                = SumFunction(DocumentsIn(bs))
                    - (bs[b].policy + bs[b].document)
                    + (r.policy + r.document)
         /\ SumFunction(DocumentsIn(bs)) \in Nat
  <1> DEFINE w == DocumentsIn(bs)
             v == DocumentsIn([bs EXCEPT ![b] = r])
  <1>1. \A q \in Bucket : q.policy + q.document \in Nat
    BY DEF Bucket
  <1>2. w \in [Buckets -> Nat] /\ v \in [Buckets -> Nat]
    BY <1>1 DEF DocumentsIn
  <1>3. \A d \in Buckets \ {b} : v[d] = w[d]
    BY DEF DocumentsIn
  <1>4. w[b] = bs[b].policy + bs[b].document /\ v[b] = r.policy + r.document
    BY DEF DocumentsIn
  <1> HIDE DEF w, v
  <1>5. SumFunction(v) = SumFunction(w) - w[b] + v[b]
    BY <1>2, <1>3, FiniteAssumption, SumChange
  <1>6. SumFunction(w) \in Nat
    BY <1>2, FiniteAssumption, SumNat
  <1> QED
    BY <1>4, <1>5, <1>6 DEF w, v

LEMMA DocumentsChange ==
  ASSUME buckets \in [Buckets -> Bucket], NEW b \in Buckets,
         NEW r \in Bucket, buckets' = [buckets EXCEPT ![b] = r]
  PROVE  /\ DocumentBytes' = DocumentBytes - Documents(b)
                                + (r.policy + r.document)
         /\ DocumentBytes \in Nat
         /\ Documents(b) = buckets[b].policy + buckets[b].document
         /\ buckets[b].policy \in Nat /\ buckets[b].document \in Nat
  <1>1. /\ DocumentBytes = SumFunction(DocumentsIn(buckets))
        /\ DocumentBytes' = SumFunction(DocumentsIn(buckets'))
        /\ Documents(b) = buckets[b].policy + buckets[b].document
    BY DEF DocumentBytes, DocumentsIn, Documents
  <1>2. buckets[b].policy \in Nat /\ buckets[b].document \in Nat
    BY DEF Bucket
  <1> QED
    BY <1>1, <1>2, DocumentsInChange

LEMMA DocumentsNat ==
  ASSUME buckets \in [Buckets -> Bucket]
  PROVE  DocumentBytes \in Nat
  <1> DEFINE w == [b \in Buckets |-> Documents(b)]
  <1>1. w \in [Buckets -> Nat]
    BY DEF Bucket, Documents
  <1>2. DocumentBytes = SumFunction(w)
    BY DEF DocumentBytes
  <1> HIDE DEF w
  <1> QED
    BY <1>1, <1>2, FiniteAssumption, SumNat

(* A step that leaves generations, documents and resident bytes alone.     *)
LEMMA BytesAlone ==
  ASSUME IsFiniteSet(objects), UNCHANGED <<buckets, objects, bytes>>
  PROVE  BytesBalance
  BY DEF BytesBalance, StoredBytes, DocumentBytes, Documents

LEMMA BucketsBalance ==
  ASSUME VersionInv, IsFiniteSet(objects),
         BucketNext \/ \E b \in Buckets : DeleteBucket(b)
  PROVE  BytesBalance
  <1>1. /\ buckets \in [Buckets -> Bucket] /\ bytes \in Int
        /\ StoredBytes(objects) \in Nat
    BY StoredNat DEF VersionInv, BudgetInv, TypeInv, TypeOK
  <1>2. ASSUME NEW b \in Buckets, NEW r \in Bucket,
               buckets' = [buckets EXCEPT ![b] = r], UNCHANGED objects,
               bytes' = bytes - (buckets[b].policy + buckets[b].document)
                            + (r.policy + r.document)
        PROVE  BytesBalance
    <2>1. /\ DocumentBytes' = DocumentBytes - Documents(b)
                                  + (r.policy + r.document)
          /\ DocumentBytes \in Nat
          /\ Documents(b) = buckets[b].policy + buckets[b].document
          /\ buckets[b].policy \in Nat /\ buckets[b].document \in Nat
      BY <1>1, <1>2, DocumentsChange
    <2>2. r.policy \in Nat /\ r.document \in Nat
      BY DEF Bucket
    <2>3. StoredBytes(objects)' = StoredBytes(objects) /\ IsFiniteSet(objects)'
      BY <1>2 DEF StoredBytes
    <2> QED
      BY <1>1, <1>2, <2>1, <2>2, <2>3 DEF BytesBalance
  <1>3. \A b \in Buckets : /\ buckets[b] \in Bucket
                           /\ buckets[b].policy \in Nat
                           /\ buckets[b].document \in Nat
    BY <1>1 DEF Bucket
  <1>4. ASSUME NEW b \in Buckets, NEW r \in Bucket,
               r.policy = buckets[b].policy, r.document = buckets[b].document,
               buckets' = [buckets EXCEPT ![b] = r],
               UNCHANGED <<objects, bytes>>
        PROVE  BytesBalance
    <2>1. bytes' = bytes - (buckets[b].policy + buckets[b].document)
                      + (r.policy + r.document)
      BY <1>1, <1>3, <1>4
    <2> QED
      BY <1>2, <1>4, <2>1
  <1>5. ASSUME NEW b \in Buckets, CreateBucket(b) PROVE BytesBalance
    <2> DEFINE r == [buckets[b] EXCEPT !.used = TRUE]
    <2>1. r \in Bucket /\ r.policy = buckets[b].policy
          /\ r.document = buckets[b].document
      BY <1>3 DEF Bucket
    <2>2. buckets' = [buckets EXCEPT ![b] = r] /\ UNCHANGED <<objects, bytes>>
      BY <1>5 DEF CreateBucket
    <2> HIDE DEF r
    <2> QED
      BY <1>4, <2>1, <2>2
  <1>6. ASSUME NEW b \in Buckets, DeleteBucket(b) PROVE BytesBalance
    <2>1. /\ NewBucket \in Bucket
          /\ NewBucket.policy = 0 /\ NewBucket.document = 0
      BY DEF NewBucket, Bucket, Statuses, MFAStates
    <2>2. /\ buckets' = [buckets EXCEPT ![b] = NewBucket]
          /\ bytes' = bytes - buckets[b].policy - buckets[b].document
          /\ UNCHANGED objects
      BY <1>6 DEF DeleteBucket
    <2>3. bytes' = bytes - (buckets[b].policy + buckets[b].document)
                      + (NewBucket.policy + NewBucket.document)
      BY <1>1, <1>3, <2>1, <2>2
    <2> QED
      BY <1>2, <2>1, <2>2, <2>3
  <1>7. ASSUME NEW b \in Buckets, NEW s \in Statuses, NEW f \in MFAStates,
               NEW v \in Attestations, PutBucketVersioning(b, s, f, v)
        PROVE  BytesBalance
    <2> DEFINE r == [buckets[b] EXCEPT !.versioning = Merged(@, s),
                                       !.mfa = Merged(@, f)]
    <2>1. r \in Bucket /\ r.policy = buckets[b].policy
          /\ r.document = buckets[b].document
      BY <1>3 DEF Bucket, Merged, Statuses, MFAStates
    <2>2. buckets' = [buckets EXCEPT ![b] = r] /\ UNCHANGED <<objects, bytes>>
      BY <1>7 DEF PutBucketVersioning
    <2> HIDE DEF r
    <2> QED
      BY <1>4, <2>1, <2>2
  <1>8. ASSUME NEW b \in Buckets, EnableBucketObjectLock(b) PROVE BytesBalance
    <2> DEFINE r == [buckets[b] EXCEPT !.lock = TRUE]
    <2>1. r \in Bucket /\ r.policy = buckets[b].policy
          /\ r.document = buckets[b].document
      BY <1>3 DEF Bucket
    <2>2. buckets' = [buckets EXCEPT ![b] = r] /\ UNCHANGED <<objects, bytes>>
      BY <1>8 DEF EnableBucketObjectLock
    <2> HIDE DEF r
    <2> QED
      BY <1>4, <2>1, <2>2
  <1>9. ASSUME NEW b \in Buckets, NEW n \in Nat,
               buckets' = [buckets EXCEPT ![b].policy = n], UNCHANGED objects,
               bytes' = bytes - buckets[b].policy + n
        PROVE  BytesBalance
    <2> DEFINE r == [buckets[b] EXCEPT !.policy = n]
    <2>1. r \in Bucket /\ r.policy = n /\ r.document = buckets[b].document
      BY <1>3 DEF Bucket
    <2>2. buckets' = [buckets EXCEPT ![b] = r]
      BY <1>9
    <2> HIDE DEF r
    <2>3. bytes' = bytes - (buckets[b].policy + buckets[b].document)
                      + (r.policy + r.document)
      BY <1>1, <1>3, <1>9, <2>1
    <2> QED
      BY <1>2, <1>9, <2>1, <2>2, <2>3
  <1>10. ASSUME NEW b \in Buckets, NEW n \in Nat,
                buckets' = [buckets EXCEPT ![b].document = n],
                UNCHANGED objects,
                bytes' = bytes - buckets[b].document + n
         PROVE  BytesBalance
    <2> DEFINE r == [buckets[b] EXCEPT !.document = n]
    <2>1. r \in Bucket /\ r.policy = buckets[b].policy /\ r.document = n
      BY <1>3 DEF Bucket
    <2>2. buckets' = [buckets EXCEPT ![b] = r]
      BY <1>10
    <2> HIDE DEF r
    <2>3. bytes' = bytes - (buckets[b].policy + buckets[b].document)
                      + (r.policy + r.document)
      BY <1>1, <1>3, <1>10, <2>1
    <2> QED
      BY <1>2, <1>10, <2>1, <2>2, <2>3
  <1>11. ASSUME NEW b \in Buckets, NEW n \in DocumentSizes,
                PutBucketPolicy(b, n) \/ PutBucketDocument(b, n)
         PROVE  BytesBalance
    BY <1>9, <1>10, <1>11, SizesAssumption
    DEF PutBucketPolicy, PutBucketDocument
  <1>12. ASSUME NEW b \in Buckets, DeleteBucketPolicy(b) PROVE BytesBalance
    <2>1. bytes' = bytes - buckets[b].policy + 0
      BY <1>1, <1>3, <1>12 DEF DeleteBucketPolicy
    <2> QED
      BY <1>9, <1>12, <2>1 DEF DeleteBucketPolicy
  <1>13. ASSUME NEW b \in Buckets, DeleteBucketDocument(b) PROVE BytesBalance
    <2>1. bytes' = bytes - buckets[b].document + 0
      BY <1>1, <1>3, <1>13 DEF DeleteBucketDocument
    <2> QED
      BY <1>10, <1>13, <2>1 DEF DeleteBucketDocument
  <1> QED
    BY <1>5, <1>6, <1>7, <1>8, <1>11, <1>12, <1>13 DEF BucketNext

LEMMA ObjectsBalance ==
  ASSUME VersionInv, IsFiniteSet(objects), ObjectNext
  PROVE  BytesBalance
  <1>1. /\ Catalog \in Catalogs
        /\ HistoryOK(Catalog.objects, Catalog.order)
        /\ Catalog.objects = objects /\ Catalog.order = order
        /\ Catalog.bytes = bytes
        /\ objects \in SUBSET Generation /\ bytes \in Int
    BY DEF VersionInv, BudgetInv, TypeInv, TypeOK, Catalog, Catalogs
  <1>2. /\ StoredBytes(objects) \in Nat
        /\ buckets \in [Buckets -> Bucket]
    BY <1>1, StoredNat DEF VersionInv, BudgetInv, TypeInv, TypeOK
  <1>3. DocumentBytes \in Nat
    BY <1>2, DocumentsNat
  <1>4. ASSUME NEW st \in Catalogs, Becomes(st), UNCHANGED buckets,
               IsFiniteSet(st.objects),
               st.bytes - StoredBytes(st.objects)
                    = bytes - StoredBytes(objects)
        PROVE  BytesBalance
    <2>1. /\ objects' = st.objects /\ bytes' = st.bytes
          /\ st.objects \in SUBSET Generation /\ st.bytes \in Int
      BY <1>4 DEF Becomes, Catalogs
    <2>2. StoredBytes(objects)' = StoredBytes(st.objects)
      BY <2>1 DEF StoredBytes
    <2>3. StoredBytes(st.objects) \in Nat
      BY <1>4, <2>1, StoredNat
    <2>4. DocumentBytes' = DocumentBytes
      BY <1>4 DEF DocumentBytes, Documents
    <2> QED
      BY <1>1, <1>2, <1>3, <1>4, <2>1, <2>2, <2>3, <2>4 DEF BytesBalance
  <1>5. ASSUME NEW b \in Buckets, NEW validated \in DeleteAttestations,
               NEW modified \in Readings, NEW e \in Entry,
               DeleteObject(b, e, validated, modified)
        PROVE  BytesBalance
    <2> DEFINE st == DeleteEntry(Catalog, b, e, validated, modified)
    <2>1. Becomes(st) /\ UNCHANGED buckets
      BY <1>5 DEF DeleteObject
    <2>2. /\ IsFiniteSet(st.objects)
          /\ st.bytes - StoredBytes(st.objects) = bytes - StoredBytes(objects)
      BY <1>1, DeleteEntryBalance
    <2>3. st \in Catalogs
      BY <1>1, DeleteEntryType
    <2> HIDE DEF st
    <2> QED
      BY <1>4, <2>1, <2>2, <2>3
  <1>6. ASSUME NEW b \in Buckets, NEW validated \in DeleteAttestations,
               NEW modified \in Readings, NEW e1 \in Entry,
               NEW e2 \in Entry, NEW unversioned \in BOOLEAN,
               DeleteObjects(b, e1, e2, validated, modified, unversioned)
        PROVE  BytesBalance
    <2> DEFINE first == DeleteEntry(Catalog, b, e1, validated, modified)
               st == DeleteEntry(first, b, e2, validated, modified)
    <2>1. Becomes(st) /\ UNCHANGED buckets /\ buckets[b].used
      BY <1>6 DEF DeleteObjects
    <2>2. first \in Catalogs /\ HistoryOK(first.objects, first.order)
      BY <1>1, <2>1, DeleteEntryType, DeleteEntryHistory
    <2>3. /\ IsFiniteSet(first.objects)
          /\ first.bytes - StoredBytes(first.objects)
                = bytes - StoredBytes(objects)
      BY <1>1, DeleteEntryBalance
    <2> HIDE DEF first
    <2>4. /\ IsFiniteSet(st.objects)
          /\ st.bytes - StoredBytes(st.objects)
                = first.bytes - StoredBytes(first.objects)
      BY <2>2, <2>3, DeleteEntryBalance
    <2>5. st \in Catalogs
      BY <2>2, DeleteEntryType
    <2> HIDE DEF st
    <2> QED
      BY <1>4, <2>1, <2>3, <2>4, <2>5
  <1> QED
    BY <1>5, <1>6 DEF ObjectNext

(* Rewriting a generation moves what its size changes by. *)
LEMMA RewriteBytes ==
  ASSUME VersionInv, IsFiniteSet(objects), UNCHANGED buckets,
         NEW g \in objects, NEW h \in Generation, h.order = g.order,
         Rewrite(g, h), bytes' = bytes - Resident(g) + Resident(h)
  PROVE  BytesBalance
  <1>1. /\ StoredBytes(objects) \in Nat /\ g \in Generation
        /\ buckets \in [Buckets -> Bucket] /\ bytes \in Int
    BY StoredNat DEF VersionInv, BudgetInv, TypeInv, TypeOK
  <1>2. Resident(g) \in Nat /\ Resident(h) \in Nat /\ DocumentBytes \in Nat
    BY <1>1, ResidentNat, DocumentsNat
  <1>3. DocumentBytes' = DocumentBytes
    BY DEF DocumentBytes, Documents
  <1>4. /\ IsFiniteSet(objects')
        /\ StoredBytes(objects')
               = StoredBytes(objects) - Resident(g) + Resident(h)
    BY RewriteBalance
  <1>5. StoredBytes(objects)' = StoredBytes(objects')
    BY DEF StoredBytes
  <1> QED
    BY <1>1, <1>2, <1>3, <1>4, <1>5 DEF BytesBalance

LEMMA LocksBalance ==
  ASSUME VersionInv, IsFiniteSet(objects), LockNext
  PROVE  BytesBalance
  <1>1. objects \subseteq Generation /\ bytes \in Int
    BY DEF VersionInv, BudgetInv, TypeInv, TypeOK
  <1>2. ASSUME NEW b \in Buckets, NEW k \in Keys, NEW sel \in Selectors,
               NEW hold \in BOOLEAN, PutObjectLegalHold(b, k, sel, hold)
        PROVE  BytesBalance
    <2>1. PICK g \in objects : Rewrite(g, [g EXCEPT !.hold = hold])
      BY <1>2 DEF PutObjectLegalHold, Visible, Selected
    <2> DEFINE h == [g EXCEPT !.hold = hold]
    <2>2. /\ h \in Generation /\ h.order = g.order
          /\ Resident(h) = Resident(g) /\ g \in Generation
      BY <1>1 DEF Generation, Resident
    <2>3. UNCHANGED buckets /\ bytes' = bytes - Resident(g) + Resident(g)
      BY <1>1, <1>2, <2>2, ResidentNat DEF PutObjectLegalHold
    <2> HIDE DEF h
    <2> QED
      BY <2>1, <2>2, <2>3, RewriteBytes DEF h
  <1>3. ASSUME NEW b \in Buckets, NEW k \in Keys, NEW sel \in Selectors,
               NEW mode \in Modes, NEW until \in 0..UnixTime(MaxTick),
               NEW modified \in Readings,
               PutObjectRetention(b, k, sel, mode, until, modified)
        PROVE  BytesBalance
    <2>1. PICK g \in objects :
                Rewrite(g, [g EXCEPT !.mode = mode, !.until = until])
      BY <1>3 DEF PutObjectRetention, Visible, Selected
    <2> DEFINE h == [g EXCEPT !.mode = mode, !.until = until]
    <2>2. until \in Nat
      BY UnixTimeNat, SizesAssumption
    <2>3. /\ h \in Generation /\ h.order = g.order
          /\ Resident(h) = Resident(g) /\ g \in Generation
      BY <1>1, <2>2 DEF Generation, Resident
    <2>4. UNCHANGED buckets /\ bytes' = bytes - Resident(g) + Resident(g)
      BY <1>1, <1>3, <2>3, ResidentNat DEF PutObjectRetention
    <2> HIDE DEF h
    <2> QED
      BY <2>1, <2>3, <2>4, RewriteBytes DEF h
  <1>4. ASSUME NEW b \in Buckets, NEW k \in Keys, NEW sel \in Selectors,
               NEW cond \in DeleteConditions,
               DeleteObjectAnnotation(b, k, sel, cond)
        PROVE  BytesBalance
    <2>1. PICK g \in objects :
                /\ Rewrite(g, [g EXCEPT !.notes = 0, !.noteLen = 0])
                /\ bytes' = bytes - g.notes
      BY <1>4 DEF DeleteObjectAnnotation, Visible, Selected
    <2> DEFINE h == [g EXCEPT !.notes = 0, !.noteLen = 0]
    <2>2. /\ h \in Generation /\ h.order = g.order
          /\ h.cap = g.cap /\ h.notes = 0
          /\ g.cap \in Nat /\ g.notes \in Nat
      BY <1>1 DEF Generation
    <2> HIDE DEF h
    <2>3. bytes' = bytes - Resident(g) + Resident(h)
      BY <1>1, <2>1, <2>2 DEF Resident
    <2>4. UNCHANGED buckets
      BY <1>4 DEF DeleteObjectAnnotation
    <2> QED
      BY <2>1, <2>2, <2>3, <2>4, RewriteBytes DEF h
  <1> QED
    BY <1>2, <1>3, <1>4 DEF LockNext

(* What a call publishes is charged where the slot it takes is returned.   *)
(* What a publication stores, in the slot that it overwrites if any. *)
LEMMA StoredPublication ==
  ASSUME VersionInv, IsFiniteSet(objects), NEW b \in Buckets, NEW k,
         NEW p \in Generation, p.order = order + 1,
         objects' = (objects \ Replaced(b, k)) \cup {p}
  PROVE  /\ IsFiniteSet(objects')
         /\ StoredBytes(objects') = StoredBytes(objects)
                - SpaceOf(Replaced(b, k)) + Resident(p)
         /\ StoredBytes(objects) \in Nat /\ SpaceOf(Replaced(b, k)) \in Nat
         /\ Resident(p) \in Nat
  <1> DEFINE gs == Replaced(b, k)
  <1>1. /\ StoredBytes(objects) \in Nat /\ objects \in SUBSET Generation
        /\ buckets \in [Buckets -> Bucket] /\ order \in Nat
    BY StoredNat, SizesAssumption DEF VersionInv, BudgetInv, TypeInv, TypeOK
  <1>2. gs \in SUBSET objects /\ \A g, h \in gs : g = h
    <2>1. buckets[b].versioning \in Statuses
      BY <1>1 DEF Bucket
    <2>2. \/ gs = {} \/ gs = Visible(objects, b, k, Current)
          \/ gs = Selected(objects, b, k, Null)
      BY <2>1 DEF Replaced, NullSlot, Statuses
    <2>3. HistoryOK(objects, order)
      BY DEF VersionInv
    <2> HIDE DEF gs
    <2> QED
      BY <1>1, <2>2, <2>3, SelectedUnique
  <1>3. p \notin objects \ gs
    BY <1>1 DEF VersionInv, HistoryOK
  <1>4. SpaceOf(gs) \in Nat
    BY <1>1, <1>2, SpaceNat
  <1>5. objects' = (objects \ gs) \cup {p}
    OBVIOUS
  <1> HIDE DEF gs
  <1>6. /\ IsFiniteSet((objects \ gs) \cup {p})
        /\ StoredBytes((objects \ gs) \cup {p})
                = StoredBytes(objects) - SpaceOf(gs) + Resident(p)
    BY <1>1, <1>2, <1>3, StoredReplace
  <1> QED
    BY <1>1, <1>4, <1>5, <1>6, ResidentNat DEF gs

LEMMA PublicationBalance ==
  ASSUME VersionInv, IsFiniteSet(objects), UNCHANGED buckets,
         NEW b \in Buckets, NEW k,
         NEW p \in Generation, p.order = order + 1,
         objects' = (objects \ Replaced(b, k)) \cup {p},
         bytes' = bytes - SpaceOf(Replaced(b, k)) + Resident(p)
  PROVE  BytesBalance
  <1> DEFINE space == SpaceOf(Replaced(b, k))
             stored == StoredBytes(objects)
             documents == DocumentBytes
  <1>1. /\ IsFiniteSet(objects)'
        /\ StoredBytes(objects)' = stored - space + Resident(p)
        /\ stored \in Nat /\ space \in Nat /\ Resident(p) \in Nat
    BY StoredPublication DEF StoredBytes
  <1>2. DocumentBytes' = documents
    BY DEF DocumentBytes, Documents
  <1>3. bytes \in Int /\ documents \in Nat
    BY DocumentsNat DEF VersionInv, BudgetInv, TypeInv, TypeOK
  <1>4. bytes' = bytes - space + Resident(p)
    OBVIOUS
  <1> HIDE DEF space, stored, documents
  <1>5. bytes' - StoredBytes(objects)' - DocumentBytes'
            = bytes - stored - documents
    BY <1>1, <1>2, <1>3, <1>4
  <1> QED
    BY <1>1, <1>5 DEF BytesBalance, stored, documents

LEMMA CallsBalance ==
  ASSUME VersionInv, IsFiniteSet(objects),
         NEW c \in Clients, Begin(c) \/ Advance(c) \/ Interrupt(c)
  PROVE  BytesBalance
  <1> DEFINE r == call[c]
  <1>1. /\ objects \subseteq Generation /\ r \in Call /\ TypeOK
        /\ bytes \in Int /\ buckets \in [Buckets -> Bucket]
    BY DEF VersionInv, BudgetInv, TypeInv, TypeOK
  <1>2. CASE UNCHANGED <<buckets, objects, bytes>>
    BY <1>2, BytesAlone
  <1>3. CASE Commit(c)
    <2> DEFINE replaced == Replaced(r.bucket, r.key)
               p == Published(r, replaced)
    <2>1. CASE CanCommit(r)
      <3>1. r.bucket \in Buckets /\ r.key \in Keys
        BY <1>3 DEF VersionInv, BudgetInv, TypeInv, CallsNamed, Named, Commit
      <3>2. /\ objects' = (objects \ replaced) \cup {p}
            /\ bytes' = bytes - SpaceOf(replaced) + r.buf + r.notes
            /\ UNCHANGED buckets
        BY <1>3, <2>1 DEF Commit
      <3>3. replaced \in SUBSET objects
        BY <1>1, <3>1, ReplacedStored
      <3>4. p \in Generation
        BY <1>1, <3>1, <3>3, PublishedType
      <3>5. p.order = order + 1 /\ p.cap = r.buf /\ p.notes = r.notes
        BY DEF Published, NextOrder
      <3>6. SpaceOf(replaced) \in Nat /\ r.buf \in Nat /\ r.notes \in Nat
        BY <1>1, <3>3, SpaceNat DEF Call
      <3> HIDE DEF p, r
      <3>7. bytes' = bytes - SpaceOf(replaced) + Resident(p)
        BY <1>1, <3>2, <3>5, <3>6 DEF Resident
      <3> QED
        BY <3>1, <3>2, <3>4, <3>5, <3>7, PublicationBalance
    <2>2. CASE ~CanCommit(r)
      BY <1>2, <1>3, <2>2 DEF Commit
    <2> QED
      BY <2>1, <2>2
  <1>4. CASE CommitAnnotation(c)
    <2> DEFINE able == {g \in Visible(objects, r.bucket, r.key, r.sel) :
                          CanAnnotate(r, g)}
    <2>1. CASE able = {}
      BY <1>2, <1>4, <2>1 DEF CommitAnnotation
    <2>2. CASE able # {}
      <3>1. PICK g \in able :
                  /\ Rewrite(g, [g EXCEPT !.notes = r.buf, !.noteLen = r.len])
                  /\ bytes' = bytes - g.notes + r.buf
        BY <1>4, <2>2 DEF CommitAnnotation
      <3> DEFINE h == [g EXCEPT !.notes = r.buf, !.noteLen = r.len]
      <3>2. g \in objects /\ g \in Generation
        BY <1>1 DEF Visible, Selected
      <3>3. r.buf \in Nat /\ r.len \in Nat
        BY <1>1 DEF Call
      <3>4. /\ h \in Generation /\ h.order = g.order
        BY <3>2, <3>3, AnnotationFields
      <3>5. h.cap = g.cap /\ h.notes = r.buf /\ g.cap \in Nat /\ g.notes \in Nat
        BY <3>2 DEF Generation
      <3>6. UNCHANGED buckets
        BY <1>4, <2>2 DEF CommitAnnotation
      <3>7. Rewrite(g, h) /\ bytes' = bytes - g.notes + r.buf
        BY <3>1
      <3> HIDE DEF h, r, able
      <3>8. bytes' = bytes - Resident(g) + Resident(h)
        BY <1>1, <3>3, <3>5, <3>7 DEF Resident
      <3> QED
        BY <3>2, <3>4, <3>6, <3>7, <3>8, RewriteBytes
    <2> QED
      BY <2>1, <2>2
  <1>5. Begin(c) => UNCHANGED <<buckets, objects, bytes>>
    <2>1. ASSUME NEW b, NEW k, NEW v, NEW d, NEW cond,
                 PutObject(c, b, k, v, d, cond)
          PROVE  UNCHANGED <<buckets, objects, bytes>>
      BY <2>1 DEF PutObject
    <2>2. ASSUME NEW b, NEW k, NEW sel, NEW v, NEW d, NEW cond,
                 PutObjectAnnotation(c, b, k, sel, v, d, cond)
          PROVE  UNCHANGED <<buckets, objects, bytes>>
      BY <2>2 DEF PutObjectAnnotation
    <2>3. ASSUME NEW b, NEW k, NEW sel, GetObject(c, b, k, sel)
          PROVE  UNCHANGED <<buckets, objects, bytes>>
      BY <2>3 DEF GetObject
    <2>4. ASSUME NEW b, NEW k, NEW sel, NEW toBucket, NEW toKey, NEW cond,
                 CopyObject(c, b, k, sel, toBucket, toKey, cond)
          PROVE  UNCHANGED <<buckets, objects, bytes>>
      BY <2>4 DEF CopyObject
    <2> QED
      BY <2>1, <2>2, <2>3, <2>4 DEF Begin
  <1>6. Interrupt(c) => UNCHANGED <<buckets, objects, bytes>>
    BY DEF Interrupt, ExcludeAnnotations, AllocationFails, Abandon
  <1>7. Advance(c) => \/ UNCHANGED <<buckets, objects, bytes>>
                      \/ Commit(c) \/ CommitAnnotation(c)
    BY DEF Advance, StartBody, Read, RetryExact, ReleaseOld, ReleaseBuffer,
           ReleaseNotes, ReleaseSnapshot
  <1> QED
    BY <1>2, <1>3, <1>4, <1>5, <1>6, <1>7

LEMMA BalanceStep ==
  ASSUME VersionInv, IsFiniteSet(objects), [Next]_vars
  PROVE  BytesBalance
  <1>1. Tick \/ UNCHANGED vars => UNCHANGED <<buckets, objects, bytes>>
    BY DEF Tick, vars
  <1>2. ASSUME NEW c \in Clients, Begin(c) \/ Advance(c) \/ Interrupt(c)
        PROVE  BytesBalance
    BY <1>2, CallsBalance
  <1> QED
    BY <1>1, <1>2, BytesAlone, BucketsBalance, ObjectsBalance, LocksBalance
    DEF Next, StoreNext

-----------------------------------------------------------------------------
(* The reservation is what the calls hold. *)

LEMMA ChargeNat ==
  ASSUME NEW r \in Call
  PROVE  /\ Charge(r) \in Nat /\ Charge(r) = r.buf + r.old + r.snap + r.notes
         /\ r.buf \in Nat /\ r.old \in Nat /\ r.snap \in Nat /\ r.notes \in Nat
  BY DEF Charge, Call

(* Ending, or unwinding, keeps what the call holds. *)
LEMMA SettleCharge ==
  ASSUME NEW r \in Call, r.op = "annotate" => r.snap = 0 /\ r.notes = 0
  PROVE  Charge(Settle(r)) = Charge(r) /\ HeldWell(Settle(r))
  <1>1. CASE Charge(r) = 0
    <2>1. Settle(r) = Idle /\ Charge(Idle) = 0 /\ Idle.pc = "idle"
          /\ Idle.op = "none"
      BY <1>1 DEF Settle, Idle, Charge
    <2> QED
      BY <1>1, <2>1 DEF HeldWell
  <1>2. CASE Charge(r) # 0
    <2> DEFINE q == [r EXCEPT !.pc = "unwind"]
    <2>1. /\ q.pc = "unwind" /\ q.op = r.op /\ q.buf = r.buf /\ q.old = r.old
          /\ q.snap = r.snap /\ q.notes = r.notes
      BY DEF Call
    <2>2. Settle(r) = q
      BY <1>2 DEF Settle
    <2> HIDE DEF q
    <2> QED
      BY <2>1, <2>2 DEF HeldWell, Charge
  <1> QED
    BY <1>1, <1>2

ChargesOf(cs) == [c \in Clients |-> Charge(cs[c])]

LEMMA ChargesChange ==
  ASSUME NEW cs \in [Clients -> Call], NEW c \in Clients, NEW r \in Call
  PROVE  /\ SumFunction(ChargesOf([cs EXCEPT ![c] = r]))
                = SumFunction(ChargesOf(cs)) - Charge(cs[c]) + Charge(r)
         /\ SumFunction(ChargesOf(cs)) \in Nat
         /\ Charge(cs[c]) <= SumFunction(ChargesOf(cs))
  <1> DEFINE w == ChargesOf(cs)
             v == ChargesOf([cs EXCEPT ![c] = r])
  <1>1. w \in [Clients -> Nat] /\ v \in [Clients -> Nat]
    BY ChargeNat DEF ChargesOf
  <1>2. \A d \in Clients \ {c} : v[d] = w[d]
    BY DEF ChargesOf
  <1>3. w[c] = Charge(cs[c]) /\ v[c] = Charge(r)
    BY DEF ChargesOf
  <1> HIDE DEF w, v
  <1>4. SumFunction(v) = SumFunction(w) - w[c] + v[c]
        /\ w[c] <= SumFunction(w)
    BY <1>1, <1>2, FiniteAssumption, SumChange
  <1>5. SumFunction(w) \in Nat
    BY <1>1, FiniteAssumption, SumNat
  <1> QED
    BY <1>3, <1>4, <1>5 DEF w, v

(* The release of what a call holds never underflows. *)
LEMMA FreedExact ==
  ASSUME TypeOK, PromisesKept, NEW c \in Clients
  PROVE  \A n \in Nat : n <= Charge(call[c]) => Freed(n) = reserved - n
  <1>1. call \in [Clients -> Call] /\ reserved = SumFunction(ChargesOf(call))
    BY DEF TypeOK, PromisesKept, PromisedBytes, ChargesOf
  <1>2. Charge(call[c]) <= reserved /\ reserved \in Nat
    BY <1>1, ChargesChange
  <1>3. Charge(call[c]) \in Nat
    BY <1>1, ChargeNat
  <1> QED
    BY <1>2, <1>3 DEF Freed

(* A call that moves, and reserves or releases what it gains or loses.     *)
LEMMA PromisesMove ==
  ASSUME TypeOK, PromisesKept, NEW c \in Clients, NEW r \in Call, Moves(c, r),
         HeldWell(r), reserved' = reserved - Charge(call[c]) + Charge(r)
  PROVE  PromisesKept'
  <1>1. call \in [Clients -> Call] /\ call' = [call EXCEPT ![c] = r]
    BY DEF TypeOK, Moves
  <1>2. /\ PromisedBytes = SumFunction(ChargesOf(call))
        /\ PromisedBytes' = SumFunction(ChargesOf(call'))
    BY DEF PromisedBytes, ChargesOf
  <1>3. reserved' = PromisedBytes'
    BY <1>1, <1>2, ChargesChange DEF PromisesKept
  <1>4. \A d \in Clients : HeldWell(call'[d])
    BY <1>1 DEF PromisesKept
  <1> QED
    BY <1>3, <1>4 DEF PromisesKept

(* A call that ends with what it holds, or gives part of it back first.    *)
LEMMA PromisesSettle ==
  ASSUME TypeOK, PromisesKept, NEW c \in Clients, NEW r \in Call,
         r.op = "annotate" => r.snap = 0 /\ r.notes = 0,
         Moves(c, Settle(r)), Settle(r) \in Call,
         \/ Charge(r) = Charge(call[c]) /\ reserved' = reserved
         \/ reserved' = reserved - Charge(call[c]) + Charge(r)
  PROVE  PromisesKept'
  <1>1. reserved \in Nat /\ Charge(call[c]) \in Nat /\ Charge(r) \in Nat
    BY ChargeNat DEF TypeOK
  <1>2. reserved' = reserved - Charge(call[c]) + Charge(Settle(r))
    BY <1>1, SettleCharge
  <1> QED
    BY <1>2, SettleCharge, PromisesMove

LEMMA PromisesAlone ==
  ASSUME PromisesKept, UNCHANGED <<reserved, call>>
  PROVE  PromisesKept'
  BY DEF PromisesKept, PromisedBytes, HeldWell, Charge

(* The first reservation of a body, before which it has no buffer.         *)
LEMMA PromisesStart ==
  ASSUME TypeOK, PromisesKept, NEW c \in Clients, NEW r \in Call, Named(r),
         r.buf = 0, r.old = 0, Charge(r) = Charge(call[c]),
         r.op = "annotate" => r.snap = 0 /\ r.notes = 0,
         Start(c, r)
  PROVE  PromisesKept'
  <1> DEFINE n == Larger(r.declared, 0)
             q == [r EXCEPT !.pc = "read", !.buf = n]
  <1>1. n \in Nat
    BY DEF Larger, Call
  <1>2. /\ q \in Call /\ q.pc = "read" /\ q.op = r.op /\ q.buf = n
        /\ q.old = r.old /\ q.snap = r.snap /\ q.notes = r.notes
    BY <1>1 DEF Call
  <1>3. \/ Moves(c, q) /\ reserved' = reserved + n
        \/ Moves(c, Settle(r)) /\ reserved' = reserved
    BY DEF Start
  <1>4. reserved \in Nat /\ Charge(call[c]) \in Nat
    BY ChargeNat DEF TypeOK
  <1> HIDE DEF n, q
  <1>5. HeldWell(q) /\ Charge(q) = Charge(r) + n
    BY <1>1, <1>2, ChargeNat DEF HeldWell
  <1>6. CASE Moves(c, q) /\ reserved' = reserved + n
    <2>1. reserved' = reserved - Charge(call[c]) + Charge(q)
      BY <1>1, <1>4, <1>5, <1>6
    <2> QED
      BY <1>2, <1>5, <1>6, <2>1, PromisesMove
  <1>7. CASE Moves(c, Settle(r)) /\ reserved' = reserved
    BY <1>7, SettleType, PromisesSettle
  <1> QED
    BY <1>3, <1>6, <1>7

(* A growth, where the last one is over. *)
LEMMA PromisesGrow ==
  ASSUME TypeOK, PromisesKept, NEW c \in Clients, NEW r \in Call,
         r.old = 0, Charge(r) = Charge(call[c]),
         r.op = "annotate" => r.snap = 0 /\ r.notes = 0,
         NEW target \in Nat, Grow(c, r, target)
  PROVE  PromisesKept'
  <1> DEFINE q == [r EXCEPT !.pc = "grown", !.old = r.buf, !.buf = target]
  <1>1. /\ q \in Call /\ q.pc = "grown" /\ q.op = r.op /\ q.buf = target
        /\ q.old = r.buf /\ q.snap = r.snap /\ q.notes = r.notes
    BY DEF Call
  <1>2. Moves(c, q) /\ reserved' = reserved + target
    BY DEF Grow
  <1>3. reserved \in Nat /\ Charge(call[c]) \in Nat
    BY ChargeNat DEF TypeOK
  <1> HIDE DEF q
  <1>4. HeldWell(q) /\ Charge(q) = Charge(r) + target
    BY <1>1, ChargeNat DEF HeldWell
  <1>5. reserved' = reserved - Charge(call[c]) + Charge(q)
    BY <1>2, <1>3, <1>4
  <1> QED
    BY <1>1, <1>2, <1>4, <1>5, PromisesMove

LEMMA PromisesBegin ==
  ASSUME TypeOK, PromisesKept, NEW c \in Clients, Begin(c)
  PROVE  PromisesKept'
  <1>1. ASSUME NEW v \in Contents, NEW d \in Declarations(Length[v])
        PROVE  d \in Nat \cup {-1} /\ Length[v] \in Nat
    BY SizesAssumption DEF Declarations, Unknown
  <1>2. call[c].pc = "idle" => Charge(call[c]) = 0
    BY DEF PromisesKept, HeldWell
  <1>3. Idle.buf = 0 /\ Idle.old = 0 /\ Idle.snap = 0 /\ Idle.notes = 0
    BY DEF Idle
  <1>4. ASSUME NEW b \in Buckets, NEW k \in Keys, NEW v \in Contents,
               NEW d \in Declarations(Length[v]), NEW cond \in WriteConditions,
               PutObject(c, b, k, v, d, cond)
        PROVE  PromisesKept'
    <2> DEFINE r == [Idle EXCEPT !.op = "put", !.bucket = b, !.key = k,
                        !.cond = cond, !.content = v, !.declared = d,
                        !.size = Length[v]]
    <2>1. r \in Call /\ Named(r) /\ r.op = "put"
      BY <1>1, IdleType DEF Call, Named, Bodies
    <2>2. r.buf = 0 /\ r.old = 0 /\ r.snap = 0 /\ r.notes = 0
      BY DEF Idle
    <2>3. Start(c, r) /\ call[c].pc = "idle"
      BY <1>4 DEF PutObject
    <2> HIDE DEF r
    <2>4. Charge(r) = Charge(call[c])
      BY <1>2, <2>2, <2>3 DEF Charge
    <2> QED
      BY <2>1, <2>2, <2>3, <2>4, PromisesStart
  <1>5. ASSUME NEW b \in Buckets, NEW k \in Keys, NEW v \in Contents,
               NEW d \in Declarations(Length[v]), NEW sel \in Selectors,
               NEW cond \in DeleteConditions,
               PutObjectAnnotation(c, b, k, sel, v, d, cond)
        PROVE  PromisesKept'
    <2> DEFINE r == [Idle EXCEPT !.op = "annotate", !.bucket = b, !.key = k,
                        !.sel = sel, !.cond = cond, !.content = v,
                        !.declared = d, !.size = Length[v]]
    <2>1. r \in Call /\ Named(r)
      BY <1>1, IdleType DEF Call, Named, Bodies
    <2>2. r.buf = 0 /\ r.old = 0 /\ r.snap = 0 /\ r.notes = 0
      BY DEF Idle
    <2>3. Start(c, r) /\ call[c].pc = "idle"
      BY <1>5 DEF PutObjectAnnotation
    <2> HIDE DEF r
    <2>4. Charge(r) = Charge(call[c])
      BY <1>2, <2>2, <2>3 DEF Charge
    <2> QED
      BY <2>1, <2>2, <2>3, <2>4, PromisesStart
  <1>6. ASSUME NEW b \in Buckets, NEW k \in Keys, NEW sel \in Selectors,
               GetObject(c, b, k, sel)
        PROVE  PromisesKept'
    <2>1. PICK g \in objects : \E n \in {g.len, g.noteLen} :
                /\ reserved' = reserved + n
                /\ Moves(c, Settle([Idle EXCEPT !.op = "get", !.snap = n]))
      BY <1>6 DEF GetObject, Visible, Selected
    <2>2. PICK n \in Nat :
                /\ reserved' = reserved + n
                /\ Moves(c, Settle([Idle EXCEPT !.op = "get", !.snap = n]))
      BY <2>1 DEF TypeOK, Generation
    <2> DEFINE r == [Idle EXCEPT !.op = "get", !.snap = n]
    <2>3. r \in Call /\ Named(r) /\ r.op = "get"
      BY IdleType DEF Call, Named
    <2>4. r.buf = 0 /\ r.old = 0 /\ r.snap = n /\ r.notes = 0
      BY DEF Idle
    <2>5. Moves(c, Settle(r)) /\ reserved' = reserved + n
      BY <2>2
    <2>6. call[c].pc = "idle" /\ reserved \in Nat
      BY <1>6 DEF GetObject, TypeOK
    <2> HIDE DEF r
    <2>7. reserved' = reserved - Charge(call[c]) + Charge(r)
      BY <1>2, <2>4, <2>5, <2>6 DEF Charge
    <2> QED
      BY <2>3, <2>5, <2>7, SettleType, PromisesSettle
  <1>7. ASSUME NEW b \in Buckets, NEW k \in Keys, NEW sel \in Selectors,
               NEW toBucket \in Buckets, NEW toKey \in Keys,
               NEW cond \in WriteConditions,
               CopyObject(c, b, k, sel, toBucket, toKey, cond)
        PROVE  PromisesKept'
    <2> DEFINE Copy(g) ==
                 [Idle EXCEPT !.op = "copy", !.pc = "fetched",
                    !.bucket = toBucket, !.key = toKey, !.cond = cond,
                    !.content = g.content, !.declared = g.len,
                    !.size = g.len, !.snap = g.len, !.notes = g.noteLen]
    <2>1. PICK g \in objects : /\ reserved' = reserved + g.len + g.noteLen
                               /\ Moves(c, Copy(g))
      BY <1>7 DEF CopyObject, Visible, Selected
    <2>2. g \in Generation /\ g.len \in Nat /\ g.noteLen \in Nat
      BY DEF TypeOK, Generation
    <2>3. Copy(g) \in Call
      BY <2>2, IdleType DEF Call, Generation
    <2>4. /\ Copy(g).pc = "fetched" /\ Copy(g).op = "copy"
          /\ Copy(g).buf = 0 /\ Copy(g).old = 0
          /\ Copy(g).snap = g.len /\ Copy(g).notes = g.noteLen
      BY DEF Idle
    <2>5. call[c].pc = "idle" /\ reserved \in Nat
      BY <1>7 DEF CopyObject, TypeOK
    <2> HIDE DEF Copy
    <2>6. reserved' = reserved - Charge(call[c]) + Charge(Copy(g))
      BY <1>2, <2>1, <2>2, <2>4, <2>5 DEF Charge
    <2>7. HeldWell(Copy(g))
      BY <2>4 DEF HeldWell
    <2> QED
      BY <2>1, <2>3, <2>6, <2>7, PromisesMove
  <1> QED
    BY <1>4, <1>5, <1>6, <1>7 DEF Begin

(* A release of part of what a call holds, on its way or at its end. *)
LEMMA PromisesFree ==
  ASSUME TypeOK, PromisesKept, NEW c \in Clients, NEW r \in Call, HeldWell(r),
         NEW n \in Nat, Charge(call[c]) = Charge(r) + n,
         reserved' = Freed(n), Moves(c, r)
  PROVE  PromisesKept'
  <1>1. /\ reserved \in Nat /\ Charge(call[c]) \in Nat /\ Charge(r) \in Nat
        /\ n <= Charge(call[c])
    BY ChargeNat DEF TypeOK
  <1>2. Freed(n) = reserved - n
    BY <1>1, FreedExact
  <1>3. reserved' = reserved - Charge(call[c]) + Charge(r)
    BY <1>1, <1>2
  <1> QED
    BY <1>3, PromisesMove

LEMMA PromisesUnwind ==
  ASSUME TypeOK, PromisesKept, NEW c \in Clients, NEW r \in Call, Named(r),
         r.op = "annotate" => r.snap = 0 /\ r.notes = 0,
         NEW n \in Nat, Charge(call[c]) = Charge(r) + n,
         reserved' = Freed(n), Moves(c, Settle(r))
  PROVE  PromisesKept'
  <1>1. Settle(r) \in Call
    BY SettleType
  <1>2. HeldWell(Settle(r)) /\ Charge(Settle(r)) = Charge(r)
    BY SettleCharge
  <1> QED
    BY <1>1, <1>2, PromisesFree

LEMMA PromisesInterrupt ==
  ASSUME TypeInv, PromisesKept, NEW c \in Clients, Interrupt(c)
  PROVE  PromisesKept'
  <1> DEFINE p == call[c]
  <1>1. /\ TypeOK /\ p \in Call /\ Named(p) /\ HeldWell(p)
        /\ p.buf \in Nat /\ p.old \in Nat /\ p.snap \in Nat /\ p.notes \in Nat
    BY DEF TypeInv, TypeOK, CallsNamed, PromisesKept, Call
  <1>2. CASE ExcludeAnnotations(c)
    <2> DEFINE r == [p EXCEPT !.notes = 0]
    <2>1. /\ r \in Call /\ Named(r) /\ r.pc = p.pc /\ r.op = p.op
          /\ r.buf = p.buf /\ r.old = p.old /\ r.snap = p.snap /\ r.notes = 0
      BY <1>1 DEF Call, Named
    <2>2. p.pc = "fetched" /\ reserved' = Freed(p.notes) /\ Moves(c, r)
      BY <1>2 DEF ExcludeAnnotations
    <2> HIDE DEF r, p
    <2>3. Charge(p) = Charge(r) + p.notes /\ HeldWell(r)
          /\ (r.op = "annotate" => r.snap = 0 /\ r.notes = 0)
      BY <1>1, <2>1, <2>2 DEF Charge, HeldWell
    <2>4. Charge(call[c]) = Charge(r) + p.notes
      BY <2>3 DEF p
    <2> QED
      BY <1>1, <2>1, <2>2, <2>3, <2>4, PromisesFree
  <1>3. CASE AllocationFails(c)
    <2> DEFINE r == [p EXCEPT !.buf = p.old, !.old = 0]
    <2>1. /\ r \in Call /\ Named(r) /\ r.op = p.op /\ r.buf = p.old
          /\ r.old = 0 /\ r.snap = p.snap /\ r.notes = p.notes
      BY <1>1 DEF Call, Named
    <2>2. reserved' = Freed(p.buf) /\ Moves(c, Settle(r))
      BY <1>3 DEF AllocationFails
    <2> HIDE DEF r, p
    <2>3. Charge(p) = Charge(r) + p.buf
          /\ (r.op = "annotate" => r.snap = 0 /\ r.notes = 0)
      BY <1>1, <2>1 DEF Charge, HeldWell
    <2>4. Charge(call[c]) = Charge(r) + p.buf
      BY <2>3 DEF p
    <2> QED
      BY <1>1, <2>1, <2>2, <2>3, <2>4, PromisesUnwind
  <1>4. CASE Abandon(c)
    <2>1. Moves(c, Settle(p)) /\ reserved' = reserved
      BY <1>4 DEF Abandon
    <2> QED
      BY <1>1, <2>1, SettleType, PromisesSettle DEF HeldWell
  <1> QED
    BY <1>2, <1>3, <1>4 DEF Interrupt

LEMMA PromisesCommit ==
  ASSUME TypeInv, PromisesKept, NEW c \in Clients, Commit(c)
  PROVE  PromisesKept'
  <1> DEFINE p == call[c]
             r == [p EXCEPT !.buf = 0, !.notes = 0]
  <1>1. /\ TypeOK /\ p \in Call /\ Named(p) /\ p.op \in {"put", "copy"}
        /\ p.buf \in Nat /\ p.old \in Nat /\ p.snap \in Nat /\ p.notes \in Nat
    BY DEF TypeInv, TypeOK, CallsNamed, Call, Commit
  <1>2. /\ r \in Call /\ Named(r) /\ r.op = p.op /\ r.buf = 0
        /\ r.old = p.old /\ r.snap = p.snap /\ r.notes = 0
    BY <1>1 DEF Call, Named
  <1>3. \/ Moves(c, Settle(p)) /\ reserved' = reserved
        \/ Moves(c, Settle(r)) /\ reserved' = reserved - (p.buf + p.notes)
    BY DEF Commit
  <1>4. reserved \in Nat
    BY <1>1 DEF TypeOK
  <1> HIDE DEF r, p
  <1>5. Charge(p) = Charge(r) + (p.buf + p.notes) /\ Charge(r) \in Nat
    BY <1>1, <1>2 DEF Charge
  <1>6. p.buf + p.notes \in Nat
    BY <1>1
  <1>7. \/ Moves(c, Settle(p)) /\ reserved' = reserved
        \/ Moves(c, Settle(r)) /\ reserved' = reserved - Charge(p) + Charge(r)
    BY <1>3, <1>4, <1>5, <1>6
  <1> QED
    BY <1>1, <1>2, <1>7, SettleType, PromisesSettle DEF p

LEMMA PromisesCommitAnnotation ==
  ASSUME TypeInv, PromisesKept, NEW c \in Clients, CommitAnnotation(c)
  PROVE  PromisesKept'
  <1> DEFINE p == call[c]
  <1>0. p.op = "annotate" /\ p.pc = "read"
    BY DEF CommitAnnotation, Delivered
  <1>1. /\ TypeOK /\ p \in Call /\ Named(p) /\ HeldWell(p)
        /\ p.buf \in Nat /\ p.old \in Nat /\ p.snap \in Nat /\ p.notes \in Nat
    BY DEF TypeInv, TypeOK, CallsNamed, PromisesKept, Call
  <1>2. \/ Moves(c, Settle(p)) /\ reserved' = reserved
        \/ Moves(c, Idle) /\ reserved' = reserved - p.buf
    <2> DEFINE able == {g \in Visible(objects, p.bucket, p.key, p.sel) :
                          CanAnnotate(p, g)}
    <2>1. CASE able # {}
      BY <2>1 DEF CommitAnnotation
    <2>2. CASE able = {}
      BY <2>2 DEF CommitAnnotation
    <2> QED
      BY <2>1, <2>2
  <1>3. reserved \in Nat
    BY <1>1 DEF TypeOK
  <1>4. Idle.pc = "idle" /\ Idle.op = "none" /\ Charge(Idle) = 0
    BY DEF Idle, Charge
  <1>5. HeldWell(Idle)
    BY <1>4 DEF HeldWell
  <1> HIDE DEF p
  <1>6. p.old = 0 /\ p.snap = 0 /\ p.notes = 0 /\ Charge(p) = p.buf
    BY <1>0, <1>1 DEF HeldWell, Charge
  <1>7. \/ Moves(c, Settle(p)) /\ reserved' = reserved
        \/ /\ Moves(c, Idle)
           /\ reserved' = reserved - Charge(p) + Charge(Idle)
    BY <1>1, <1>2, <1>3, <1>4, <1>6
  <1> QED
    BY <1>1, <1>5, <1>6, <1>7, IdleType, SettleType, PromisesSettle,
       PromisesMove DEF p

LEMMA PromisesAdvance ==
  ASSUME TypeInv, PromisesKept, NEW c \in Clients, Advance(c)
  PROVE  PromisesKept'
  <1> DEFINE p == call[c]
  <1>1. /\ TypeOK /\ p \in Call /\ Named(p) /\ HeldWell(p)
        /\ p.len \in Nat /\ p.size \in Nat
        /\ p.buf \in Nat /\ p.old \in Nat /\ p.snap \in Nat /\ p.notes \in Nat
    BY DEF TypeInv, TypeOK, CallsNamed, PromisesKept, Call
  <1>2. CASE StartBody(c)
    <2>1. p.buf = 0 /\ p.old = 0 /\ Start(c, p)
      BY <1>1, <1>2 DEF StartBody, HeldWell
    <2> QED
      BY <1>1, <2>1, PromisesStart DEF HeldWell
  <1>3. CASE Read(c)
    <2> DEFINE rest == p.size - p.len
               required == p.len + (IF rest < Chunk THEN rest ELSE Chunk)
               target == Growth(p.buf, required)
               r == [p EXCEPT !.len = required]
               q == [r EXCEPT !.pc = "exact"]
    <2>1. required \in Nat
      BY <1>1, <1>3, SizesAssumption DEF Read
    <2>2. target \in Nat
      BY <1>1, <2>1, SizesAssumption DEF Growth, Larger
    <2>3. \/ Moves(c, Settle(r)) /\ reserved' = reserved
          \/ Moves(c, r) /\ reserved' = reserved
          \/ Grow(c, r, target)
          \/ Moves(c, q) /\ reserved' = reserved
      BY <1>3 DEF Read
    <2> HIDE DEF target, required
    <2>4. /\ r \in Call /\ Named(r) /\ r.pc = p.pc /\ r.op = p.op
          /\ r.buf = p.buf /\ r.old = p.old /\ r.snap = p.snap
          /\ r.notes = p.notes
      BY <1>1, <2>1 DEF Call, Named
    <2> HIDE DEF r
    <2>5. /\ q \in Call /\ Named(q) /\ q.pc = "exact" /\ q.op = r.op
          /\ q.buf = r.buf /\ q.old = r.old /\ q.snap = r.snap
          /\ q.notes = r.notes
      BY <2>4 DEF Call, Named
    <2> HIDE DEF q
    <2>6. p.pc = "read" /\ p.old = 0
      BY <1>1, <1>3 DEF Read, HeldWell
    <2> HIDE DEF p
    <2>7. Charge(r) = Charge(p) /\ Charge(q) = Charge(p)
      BY <2>4, <2>5 DEF Charge
    <2>8. HeldWell(r) /\ HeldWell(q)
          /\ (r.op = "annotate" => r.snap = 0 /\ r.notes = 0)
      BY <1>1, <2>4, <2>5, <2>6 DEF HeldWell
    <2>9. /\ reserved \in Nat /\ Charge(p) \in Nat
      BY <1>1, ChargeNat DEF TypeOK
    <2>10. CASE Moves(c, Settle(r)) /\ reserved' = reserved
      BY <1>1, <2>4, <2>7, <2>8, <2>10, SettleType, PromisesSettle DEF p
    <2>11. CASE Moves(c, r) /\ reserved' = reserved
      <3>1. reserved' = reserved - Charge(p) + Charge(r)
        BY <2>7, <2>9, <2>11
      <3> QED
        BY <1>1, <2>4, <2>8, <2>11, <3>1, PromisesMove DEF p
    <2>12. CASE Grow(c, r, target)
      BY <1>1, <2>2, <2>4, <2>6, <2>7, <2>8, <2>12, PromisesGrow DEF p
    <2>13. CASE Moves(c, q) /\ reserved' = reserved
      <3>1. reserved' = reserved - Charge(p) + Charge(q)
        BY <2>7, <2>9, <2>13
      <3> QED
        BY <1>1, <2>5, <2>8, <2>13, <3>1, PromisesMove DEF p
    <2> QED
      BY <2>3, <2>10, <2>11, <2>12, <2>13
  <1>4. CASE RetryExact(c)
    <2>1. \/ Grow(c, p, p.len)
          \/ Moves(c, Settle(p)) /\ reserved' = reserved
      BY <1>4 DEF RetryExact
    <2>2. p.old = 0 /\ (p.op = "annotate" => p.snap = 0 /\ p.notes = 0)
      BY <1>1, <1>4 DEF RetryExact, HeldWell
    <2> QED
      BY <1>1, <2>1, <2>2, SettleType, PromisesSettle, PromisesGrow
  <1>5. CASE ReleaseOld(c)
    <2> DEFINE r == [p EXCEPT !.pc = "read", !.old = 0]
    <2>1. /\ r \in Call /\ Named(r) /\ r.pc = "read" /\ r.op = p.op
          /\ r.buf = p.buf /\ r.old = 0 /\ r.snap = p.snap
          /\ r.notes = p.notes
      BY <1>1 DEF Call, Named
    <2>2. reserved' = Freed(p.old) /\ Moves(c, r)
      BY <1>5 DEF ReleaseOld
    <2> HIDE DEF r, p
    <2>3. Charge(p) = Charge(r) + p.old /\ HeldWell(r)
          /\ (r.op = "annotate" => r.snap = 0 /\ r.notes = 0)
      BY <1>1, <2>1 DEF Charge, HeldWell
    <2>4. Charge(call[c]) = Charge(r) + p.old
      BY <2>3 DEF p
    <2> QED
      BY <1>1, <2>1, <2>2, <2>3, <2>4, PromisesFree
  <1>6. CASE Commit(c)
    BY <1>6, PromisesCommit
  <1>7. CASE CommitAnnotation(c)
    BY <1>7, PromisesCommitAnnotation
  <1>8. CASE ReleaseBuffer(c)
    <2> DEFINE r == [p EXCEPT !.buf = 0]
    <2>1. /\ r \in Call /\ Named(r) /\ r.op = p.op /\ r.buf = 0
          /\ r.old = p.old /\ r.snap = p.snap /\ r.notes = p.notes
      BY <1>1 DEF Call, Named
    <2>2. reserved' = Freed(p.buf) /\ Moves(c, Settle(r))
      BY <1>8 DEF ReleaseBuffer
    <2> HIDE DEF r, p
    <2>3. Charge(p) = Charge(r) + p.buf
          /\ (r.op = "annotate" => r.snap = 0 /\ r.notes = 0)
      BY <1>1, <2>1 DEF Charge, HeldWell
    <2>4. Charge(call[c]) = Charge(r) + p.buf
      BY <2>3 DEF p
    <2> QED
      BY <1>1, <2>1, <2>2, <2>3, <2>4, PromisesUnwind
  <1>9. CASE ReleaseNotes(c)
    <2> DEFINE r == [p EXCEPT !.notes = 0]
    <2>1. /\ r \in Call /\ Named(r) /\ r.op = p.op /\ r.buf = p.buf
          /\ r.old = p.old /\ r.snap = p.snap /\ r.notes = 0
      BY <1>1 DEF Call, Named
    <2>2. reserved' = Freed(p.notes) /\ Moves(c, Settle(r))
      BY <1>9 DEF ReleaseNotes
    <2> HIDE DEF r, p
    <2>3. Charge(p) = Charge(r) + p.notes
          /\ (r.op = "annotate" => r.snap = 0 /\ r.notes = 0)
      BY <1>1, <2>1 DEF Charge, HeldWell
    <2>4. Charge(call[c]) = Charge(r) + p.notes
      BY <2>3 DEF p
    <2> QED
      BY <1>1, <2>1, <2>2, <2>3, <2>4, PromisesUnwind
  <1>10. CASE ReleaseSnapshot(c)
    <2> DEFINE r == [p EXCEPT !.snap = 0]
    <2>1. /\ r \in Call /\ Named(r) /\ r.op = p.op /\ r.buf = p.buf
          /\ r.old = p.old /\ r.snap = 0 /\ r.notes = p.notes
      BY <1>1 DEF Call, Named
    <2>2. reserved' = Freed(p.snap) /\ Moves(c, Settle(r))
      BY <1>10 DEF ReleaseSnapshot
    <2> HIDE DEF r, p
    <2>3. Charge(p) = Charge(r) + p.snap
          /\ (r.op = "annotate" => r.snap = 0 /\ r.notes = 0)
      BY <1>1, <2>1 DEF Charge, HeldWell
    <2>4. Charge(call[c]) = Charge(r) + p.snap
      BY <2>3 DEF p
    <2> QED
      BY <1>1, <2>1, <2>2, <2>3, <2>4, PromisesUnwind
  <1> QED
    BY <1>2, <1>3, <1>4, <1>5, <1>6, <1>7, <1>8, <1>9, <1>10 DEF Advance

LEMMA PromisesStep ==
  ASSUME TypeInv, PromisesKept, [Next]_vars
  PROVE  PromisesKept'
  <1>1. CASE BucketNext \/ \E b \in Buckets : DeleteBucket(b)
    BY <1>1, PromisesAlone
    DEF BucketNext, CreateBucket, PutBucketVersioning,
        EnableBucketObjectLock, PutBucketPolicy, PutBucketDocument,
        DeleteBucketPolicy, DeleteBucketDocument, DeleteBucket
  <1>2. CASE ObjectNext
    BY <1>2, PromisesAlone DEF ObjectNext, DeleteObject, DeleteObjects
  <1>3. CASE LockNext
    <2>1. UNCHANGED <<reserved, call>>
      BY <1>3 DEF LockNext, PutObjectLegalHold, PutObjectRetention,
                  DeleteObjectAnnotation
    <2> QED
      BY <2>1, PromisesAlone
  <1>4. CASE Tick \/ UNCHANGED vars
    BY <1>4, PromisesAlone DEF Tick, vars
  <1>5. ASSUME NEW c \in Clients, Begin(c) \/ Advance(c) \/ Interrupt(c)
        PROVE  PromisesKept'
    BY <1>5, PromisesBegin, PromisesAdvance, PromisesInterrupt DEF TypeInv
  <1> QED
    BY <1>1, <1>2, <1>3, <1>4, <1>5 DEF Next, StoreNext

-----------------------------------------------------------------------------
(* The inductive invariant of the accounts. *)

AccountInv == VersionInv /\ IsFiniteSet(objects) /\ Accounting /\ PromisesKept

LEMMA AccountInit == Init => AccountInv
  <1> SUFFICES ASSUME Init
               PROVE  AccountInv
    OBVIOUS
  <1>1. VersionInv
    BY VersionInit
  <1>2. objects = {} /\ IsFiniteSet(objects)
    BY FS_EmptySet DEF Init
  <1>3. StoredBytes(objects) = 0
    BY <1>2, SumEmpty DEF StoredBytes
  <1>4. SumFunction([b \in Buckets |-> Documents(b)]) = 0
    <2>1. [b \in Buckets |-> Documents(b)] = [b \in Buckets |-> 0]
      BY DEF Init, Documents, NewBucket
    <2> QED
      BY <2>1, FiniteAssumption, SumZero
  <1>5. SumFunction([c \in Clients |-> Charge(call[c])]) = 0
    <2>1. [c \in Clients |-> Charge(call[c])] = [c \in Clients |-> 0]
      BY DEF Init, Charge, Idle
    <2> QED
      BY <2>1, FiniteAssumption, SumZero
  <1>6. PromisesKept
    BY <1>5 DEF Init, PromisesKept, PromisedBytes, HeldWell, Charge, Idle
  <1>7. Accounting
    BY <1>3, <1>4, <1>5 DEF Init, Accounting, StoredBytes
  <1> QED
    BY <1>1, <1>2, <1>6, <1>7 DEF AccountInv

LEMMA AccountStep == AccountInv /\ [Next]_vars => AccountInv'
  <1> SUFFICES ASSUME AccountInv, [Next]_vars
               PROVE  AccountInv'
    OBVIOUS
  <1>1. VersionInv /\ VersionInv' /\ TypeInv /\ TypeOK'
    BY VersionStep DEF AccountInv, VersionInv, BudgetInv, TypeInv
  <1>2. BytesBalance
    BY BalanceStep DEF AccountInv
  <1>3. PromisesKept'
    BY <1>1, PromisesStep DEF AccountInv
  <1>4. bytes = StoredBytes(objects) + DocumentBytes
    BY DEF AccountInv, Accounting, StoredBytes, DocumentBytes
  <1>5. /\ StoredBytes(objects) \in Nat /\ DocumentBytes \in Nat
        /\ bytes \in Int /\ bytes' \in Int
    BY <1>1, StoredNat, DocumentsNat DEF AccountInv, TypeInv, TypeOK
  <1>6. StoredBytes(objects)' \in Nat /\ DocumentBytes' \in Nat
    <2>1. StoredBytes(objects)' \in Nat
      BY <1>1, <1>2, StoredNat DEF BytesBalance, TypeOK
    <2> DEFINE w == [b \in Buckets |-> Documents(b)']
    <2>2. w \in [Buckets -> Nat]
      BY <1>1 DEF TypeOK, Bucket, Documents
    <2>3. DocumentBytes' = SumFunction(w)
      BY DEF DocumentBytes
    <2> HIDE DEF w
    <2> QED
      BY <2>1, <2>2, <2>3, FiniteAssumption, SumNat
  <1>7. bytes' = StoredBytes(objects)' + DocumentBytes'
    <2> DEFINE m == StoredBytes(objects)
               n == DocumentBytes
               p == StoredBytes(objects)'
               q == DocumentBytes'
               y == bytes'
    <2>1. /\ m \in Nat /\ n \in Nat /\ p \in Nat /\ q \in Nat /\ y \in Int
          /\ bytes = m + n /\ y - p - q = bytes - m - n
      BY <1>2, <1>4, <1>5, <1>6 DEF BytesBalance
    <2> HIDE DEF m, n, p, q, y
    <2>2. y = p + q
      BY <2>1
    <2> QED
      BY <2>2 DEF p, q, y
  <1>8. Accounting'
    BY <1>3, <1>7
    DEF PromisesKept, Accounting, StoredBytes, DocumentBytes, PromisedBytes
  <1> QED
    BY <1>1, <1>2, <1>3, <1>8 DEF AccountInv, BytesBalance

(* Every resident byte belongs to a generation or a document, and every    *)
(* reserved one to a call in progress, whatever the sizes, the number of   *)
(* clients and the way their calls end: Commit, Release_Transient and the  *)
(* exception handlers of the streaming procedures.                         *)
THEOREM EveryByteIsOwed == Spec => []Accounting
  <1>1. AccountInv => Accounting
    BY DEF AccountInv
  <1> QED
    BY <1>1, AccountInit, AccountStep, PTL DEF Spec

-----------------------------------------------------------------------------
(* Writers that ask for an absent key.  What the calls ask does not change *)
(* while they stream, and a key that shows nothing has no generation.      *)

Asks(r) == r.op \in {"put", "copy"} => r.cond = IfAbsent

OnceInv == /\ VersionInv
           /\ CreateOnce
           /\ \A g \in objects : ~g.marker
           /\ \A c \in Clients : Asks(call[c])

Once(objs) == /\ \A g, h \in objs : g.bucket = h.bucket /\ g.key = h.key => g = h
              /\ \A g \in objs : ~g.marker

(* A call keeps what it was asked until it ends. *)
SameCall(p, r) ==
    \/ r.op = "none"
    \/ /\ r.op = p.op /\ r.cond = p.cond /\ r.content = p.content
       /\ r.upload = p.upload /\ r.part = p.part

LEMMA SettleSame ==
  ASSUME NEW p, NEW r, SameCall(p, r), r \in Call
  PROVE  SameCall(p, Settle(r))
  BY DEF Settle, SameCall, Idle, Call

LEMMA CallsStay ==
  ASSUME TypeInv, NEW c \in Clients, Advance(c) \/ Interrupt(c)
  PROVE  \E r : Moves(c, r) /\ SameCall(call[c], r)
  <1> DEFINE p == call[c]
  <1>1. p \in Call /\ SameCall(p, p)
    BY DEF TypeInv, TypeOK, SameCall
  <1>2. SameCall(p, Idle)
    BY DEF SameCall, Idle
  <1>3. ASSUME NEW r, Start(c, r), r \in Call, SameCall(p, r)
        PROVE  \E q : Moves(c, q) /\ SameCall(p, q)
    <2> DEFINE q == [r EXCEPT !.pc = "read", !.buf = Larger(r.declared, 0)]
    <2>1. SameCall(p, q)
      BY <1>3 DEF SameCall, Call
    <2>2. Moves(c, q) \/ Moves(c, Settle(r))
      BY <1>3 DEF Start
    <2> HIDE DEF q
    <2> QED
      BY <1>3, <2>1, <2>2, SettleSame
  <1>4. ASSUME NEW r, NEW target, Grow(c, r, target), r \in Call, SameCall(p, r)
        PROVE  \E q : Moves(c, q) /\ SameCall(p, q)
    <2> DEFINE q == [r EXCEPT !.pc = "grown", !.old = r.buf, !.buf = target]
    <2>1. SameCall(p, q)
      BY <1>4 DEF SameCall, Call
    <2>2. Moves(c, q)
      BY <1>4 DEF Grow
    <2> QED
      BY <2>1, <2>2
  <1>5. CASE StartBody(c)
    BY <1>1, <1>3, <1>5 DEF StartBody
  <1>6. CASE Read(c)
    <2> DEFINE rest == p.size - p.len
               required == p.len + (IF rest < Chunk THEN rest ELSE Chunk)
               target == Growth(p.buf, required)
               r == [p EXCEPT !.len = required]
               q == [r EXCEPT !.pc = "exact"]
    <2>1. Moves(c, Settle(r)) \/ Moves(c, r) \/ Grow(c, r, target)
          \/ Moves(c, q)
      BY <1>6 DEF Read
    <2>2. required \in Nat
      BY <1>1, <1>6, SizesAssumption DEF Read, Call
    <2> HIDE DEF target, required
    <2>3. r \in Call /\ SameCall(p, r)
      BY <1>1, <2>2 DEF SameCall, Call
    <2>4. q \in Call /\ SameCall(p, q)
      BY <1>1, <2>2 DEF SameCall, Call
    <2> HIDE DEF r, q
    <2> QED
      BY <1>4, <2>1, <2>3, <2>4, SettleSame
  <1>7. CASE RetryExact(c)
    <2>1. Grow(c, p, p.len) \/ Moves(c, Settle(p))
      BY <1>7 DEF RetryExact
    <2> QED
      BY <1>1, <1>4, <2>1, SettleSame
  <1>8. CASE Commit(c) \/ Abandon(c)
    <2> DEFINE r == [p EXCEPT !.buf = 0, !.notes = 0]
    <2>1. Moves(c, Settle(p)) \/ Moves(c, Settle(r))
      BY <1>8 DEF Commit, Abandon
    <2>2. r \in Call /\ SameCall(p, r)
      BY <1>1 DEF SameCall, Call
    <2> HIDE DEF r
    <2> QED
      BY <1>1, <2>1, <2>2, SettleSame
  <1>9. CASE CommitAnnotation(c)
    <2>1. Moves(c, Settle(p)) \/ Moves(c, Idle)
      BY <1>9 DEF CommitAnnotation
    <2> QED
      BY <1>1, <1>2, <2>1, SettleSame
  <1>10. ASSUME NEW r, r \in Call, SameCall(p, r),
                Moves(c, Settle(r)) \/ Moves(c, r)
         PROVE  \E q : Moves(c, q) /\ SameCall(p, q)
    BY <1>10, SettleSame
  <1>11. CASE ReleaseOld(c)
    <2> DEFINE r == [p EXCEPT !.pc = "read", !.old = 0]
    <2>1. r \in Call /\ SameCall(p, r) /\ Moves(c, r)
      BY <1>1, <1>11 DEF ReleaseOld, SameCall, Call
    <2> QED
      BY <1>10, <2>1
  <1>12. CASE AllocationFails(c)
    <2> DEFINE r == [p EXCEPT !.buf = p.old, !.old = 0]
    <2>1. r \in Call /\ SameCall(p, r) /\ Moves(c, Settle(r))
      BY <1>1, <1>12 DEF AllocationFails, SameCall, Call
    <2> QED
      BY <1>10, <2>1
  <1>13. CASE ReleaseBuffer(c)
    <2> DEFINE r == [p EXCEPT !.buf = 0]
    <2>1. r \in Call /\ SameCall(p, r) /\ Moves(c, Settle(r))
      BY <1>1, <1>13 DEF ReleaseBuffer, SameCall, Call
    <2> QED
      BY <1>10, <2>1
  <1>14. CASE ReleaseNotes(c) \/ ExcludeAnnotations(c)
    <2> DEFINE r == [p EXCEPT !.notes = 0]
    <2>1. r \in Call /\ SameCall(p, r)
          /\ (Moves(c, Settle(r)) \/ Moves(c, r))
      BY <1>1, <1>14 DEF ReleaseNotes, ExcludeAnnotations, SameCall, Call
    <2> QED
      BY <1>10, <2>1
  <1>15. CASE ReleaseSnapshot(c)
    <2> DEFINE r == [p EXCEPT !.snap = 0]
    <2>1. r \in Call /\ SameCall(p, r) /\ Moves(c, Settle(r))
      BY <1>1, <1>15 DEF ReleaseSnapshot, SameCall, Call
    <2> QED
      BY <1>10, <2>1
  <1> QED
    BY <1>5, <1>6, <1>7, <1>8, <1>9, <1>11, <1>12, <1>13, <1>14, <1>15
    DEF Advance, Interrupt

(* A key with generations shows one of them, where no marker is. *)
LEMMA NewestShows ==
  ASSUME NEW objs \in SUBSET Generation, NEW last \in Nat,
         HistoryOK(objs, last), \A g \in objs : ~g.marker,
         NEW g \in objs
  PROVE  Visible(objs, g.bucket, g.key, Current) # {}
  <1> DEFINE named == {h \in objs : h.bucket = g.bucket /\ h.key = g.key}
             orders == {h.order : h \in named}
  <1>1. g.order \in orders
    OBVIOUS
  <1>2. orders \subseteq Nat /\ \A n \in orders : n <= last
    BY DEF Generation, HistoryOK
  <1>3. \A h \in named : h.order \in orders
    OBVIOUS
  <1>4. \A n \in orders : \E h \in named : n = h.order
    OBVIOUS
  <1> HIDE DEF orders
  <1>5. PICK n \in orders : \A m \in orders : m <= n
    BY <1>1, <1>2, GreatestNumber
  <1>6. PICK h \in named : n = h.order
    BY <1>4
  <1>7. \A e \in named : e.order <= h.order
    BY <1>3, <1>5, <1>6
  <1>8. named = {e \in objs : e.bucket = g.bucket /\ e.key = g.key
                                /\ Matches(e, Current)}
    BY DEF Matches
  <1>9. h \in Visible(objs, g.bucket, g.key, Current)
    BY <1>6, <1>7, <1>8 DEF Visible, Selected
  <1> QED
    BY <1>9

(* What names a generation, and what it holds. *)
Twins(g, h) ==
    /\ h.bucket = g.bucket /\ h.key = g.key /\ h.order = g.order
    /\ h.null = g.null /\ h.marker = g.marker /\ h.content = g.content

(* Locks and annotations rewrite at most one generation, into its twin. *)
LEMMA RewritesTwin ==
  ASSUME TypeOK, LockNext \/ \E c \in Clients : CommitAnnotation(c)
  PROVE  \/ objects' = objects
         \/ \E g \in objects : \E h : Rewrite(g, h) /\ Twins(g, h)
  <1>1. objects \subseteq Generation
    BY DEF TypeOK
  <1>2. ASSUME NEW b, NEW k, NEW sel, NEW hold,
               PutObjectLegalHold(b, k, sel, hold)
        PROVE  \E g \in objects : \E h : Rewrite(g, h) /\ Twins(g, h)
    <2>1. PICK g \in objects : Rewrite(g, [g EXCEPT !.hold = hold])
      BY <1>2 DEF PutObjectLegalHold, Visible, Selected
    <2>2. Twins(g, [g EXCEPT !.hold = hold])
      BY <1>1 DEF Generation, Twins
    <2> QED
      BY <2>1, <2>2
  <1>3. ASSUME NEW b, NEW k, NEW sel, NEW mode, NEW until, NEW modified,
               PutObjectRetention(b, k, sel, mode, until, modified)
        PROVE  \E g \in objects : \E h : Rewrite(g, h) /\ Twins(g, h)
    <2>1. PICK g \in objects :
                Rewrite(g, [g EXCEPT !.mode = mode, !.until = until])
      BY <1>3 DEF PutObjectRetention, Visible, Selected
    <2>2. Twins(g, [g EXCEPT !.mode = mode, !.until = until])
      BY <1>1 DEF Generation, Twins
    <2> QED
      BY <2>1, <2>2
  <1>4. ASSUME NEW g \in objects, NEW n, NEW m
        PROVE  Twins(g, [g EXCEPT !.notes = n, !.noteLen = m])
    BY <1>1 DEF Generation, Twins
  <1>5. ASSUME NEW b, NEW k, NEW sel, NEW cond,
               DeleteObjectAnnotation(b, k, sel, cond)
        PROVE  \E g \in objects : \E h : Rewrite(g, h) /\ Twins(g, h)
    <2>1. PICK g \in objects :
                Rewrite(g, [g EXCEPT !.notes = 0, !.noteLen = 0])
      BY <1>5 DEF DeleteObjectAnnotation, Visible, Selected
    <2> QED
      BY <1>4, <2>1
  <1>6. ASSUME NEW c \in Clients, CommitAnnotation(c)
        PROVE  \/ objects' = objects
               \/ \E g \in objects : \E h : Rewrite(g, h) /\ Twins(g, h)
    <2> DEFINE r == call[c]
               able == {g \in Visible(objects, r.bucket, r.key, r.sel) :
                          CanAnnotate(r, g)}
    <2>1. CASE able = {}
      BY <1>6, <2>1 DEF CommitAnnotation
    <2>2. CASE able # {}
      <3>1. PICK g \in able :
                  Rewrite(g, [g EXCEPT !.notes = r.buf, !.noteLen = r.len])
        BY <1>6, <2>2 DEF CommitAnnotation
      <3>2. g \in objects
        BY DEF Visible, Selected
      <3> QED
        BY <1>4, <3>1, <3>2
    <2> QED
      BY <2>1, <2>2
  <1> QED
    BY <1>2, <1>3, <1>5, <1>6 DEF LockNext

(* A rewritten generation is still the only one of its key. *)
LEMMA OnceRewritten ==
  ASSUME TypeOK, Once(objects),
         LockNext \/ \E c \in Clients : CommitAnnotation(c)
  PROVE  Once(objects')
  BY RewritesTwin DEF Once, Rewrite, Twins

LEMMA OnceCommits ==
  ASSUME VersionInv, Once(objects), NEW c \in Clients, Asks(call[c]), Commit(c)
  PROVE  Once(objects')
  <1> DEFINE r == call[c]
             replaced == Replaced(r.bucket, r.key)
             p == Published(r, replaced)
  <1>1. /\ TypeOK /\ objects \in SUBSET Generation /\ order \in Nat
        /\ r \in Call /\ r.bucket \in Buckets /\ r.key \in Keys
        /\ r.cond = IfAbsent /\ HistoryOK(objects, order)
    BY SizesAssumption
    DEF VersionInv, BudgetInv, TypeInv, TypeOK, CallsNamed, Named, Commit, Asks
  <1>2. CASE CanCommit(r)
    <2>1. objects' = (objects \ replaced) \cup {p}
      BY <1>2 DEF Commit
    <2>2. WriteAllowed(IfAbsent, Visible(objects, r.bucket, r.key, Current))
      BY <1>1, <1>2 DEF CanCommit
    <2>3. \A g \in objects : g.content # IfAbsent
      BY <1>1, ConditionsAssumption DEF Generation
    <2>4. Visible(objects, r.bucket, r.key, Current) = {}
      BY <2>2, <2>3, ConditionsAssumption
      DEF WriteAllowed, Visible, Selected
    <2>5. \A g \in objects : ~(g.bucket = r.bucket /\ g.key = r.key)
      BY <1>1, <2>4, NewestShows DEF Once
    <2>6. p.bucket = r.bucket /\ p.key = r.key /\ ~p.marker
      BY DEF Published
    <2> HIDE DEF p, replaced, r
    <2> QED
      BY <2>1, <2>5, <2>6 DEF Once
  <1>3. CASE ~CanCommit(r)
    BY <1>3 DEF Commit
  <1> QED
    BY <1>2, <1>3

LEMMA OnceCalls ==
  ASSUME VersionInv, Once(objects), NEW c \in Clients, Asks(call[c]),
         WriteConditions \subseteq {IfAbsent},
         Begin(c) \/ Advance(c) \/ Interrupt(c)
  PROVE  Once(objects') /\ \E r : Moves(c, r) /\ Asks(r)
  <1>1. /\ TypeInv /\ call[c] \in Call /\ objects \subseteq Generation
    BY DEF VersionInv, BudgetInv, TypeInv, TypeOK
  <1>2. CASE Begin(c)
    <2>1. ASSUME NEW b, NEW k, NEW v, NEW d, NEW cond \in WriteConditions,
                 PutObject(c, b, k, v, d, cond)
          PROVE  Once(objects') /\ \E r : Moves(c, r) /\ Asks(r)
      <3> DEFINE r == [Idle EXCEPT !.op = "put", !.bucket = b, !.key = k,
                          !.cond = cond, !.content = v, !.declared = d,
                          !.size = Length[v]]
                 q == [r EXCEPT !.pc = "read", !.buf = Larger(d, 0)]
      <3>1. cond = IfAbsent
        BY <2>1
      <3>2. Moves(c, q) \/ Moves(c, Settle(r))
        BY <2>1 DEF PutObject, Start, Idle
      <3>3. Asks(q) /\ Asks(Settle(r))
        BY <3>1 DEF Asks, Settle, Idle
      <3>4. objects' = objects
        BY <2>1 DEF PutObject
      <3> HIDE DEF q, r
      <3> QED
        BY <3>2, <3>3, <3>4
    <2>2. ASSUME NEW b, NEW k, NEW sel, NEW v, NEW d, NEW cond,
                 PutObjectAnnotation(c, b, k, sel, v, d, cond)
          PROVE  Once(objects') /\ \E r : Moves(c, r) /\ Asks(r)
      <3> DEFINE r == [Idle EXCEPT !.op = "annotate", !.bucket = b, !.key = k,
                          !.sel = sel, !.cond = cond, !.content = v,
                          !.declared = d, !.size = Length[v]]
                 q == [r EXCEPT !.pc = "read", !.buf = Larger(d, 0)]
      <3>1. Moves(c, q) \/ Moves(c, Settle(r))
        BY <2>2 DEF PutObjectAnnotation, Start, Idle
      <3>2. Asks(q) /\ Asks(Settle(r))
        BY DEF Asks, Settle, Idle
      <3>3. objects' = objects
        BY <2>2 DEF PutObjectAnnotation
      <3> HIDE DEF q, r
      <3> QED
        BY <3>1, <3>2, <3>3
    <2>3. ASSUME NEW b, NEW k, NEW sel, GetObject(c, b, k, sel)
          PROVE  Once(objects') /\ \E r : Moves(c, r) /\ Asks(r)
      <3>1. PICK n : Moves(c, Settle([Idle EXCEPT !.op = "get", !.snap = n]))
        BY <2>3 DEF GetObject
      <3>2. Asks(Settle([Idle EXCEPT !.op = "get", !.snap = n]))
        BY DEF Asks, Settle, Idle
      <3>3. objects' = objects
        BY <2>3 DEF GetObject
      <3> QED
        BY <3>1, <3>2, <3>3
    <2>4. ASSUME NEW b, NEW k, NEW sel, NEW toBucket, NEW toKey,
                 NEW cond \in WriteConditions,
                 CopyObject(c, b, k, sel, toBucket, toKey, cond)
          PROVE  Once(objects') /\ \E r : Moves(c, r) /\ Asks(r)
      <3> DEFINE Copy(g) ==
                   [Idle EXCEPT !.op = "copy", !.pc = "fetched",
                      !.bucket = toBucket, !.key = toKey, !.cond = cond,
                      !.content = g.content, !.declared = g.len,
                      !.size = g.len, !.snap = g.len, !.notes = g.noteLen]
      <3>1. cond = IfAbsent
        BY <2>4
      <3>2. PICK g : Moves(c, Copy(g))
        BY <2>4 DEF CopyObject
      <3>3. Asks(Copy(g))
        BY <3>1 DEF Asks, Idle
      <3>4. objects' = objects
        BY <2>4 DEF CopyObject
      <3> HIDE DEF Copy
      <3> QED
        BY <3>2, <3>3, <3>4
    <2> QED
      BY <1>2, <2>1, <2>2, <2>3, <2>4 DEF Begin
  <1>3. Advance(c) \/ Interrupt(c) => \E r : Moves(c, r) /\ Asks(r)
    BY <1>1, CallsStay DEF SameCall, Asks
  <1>4. CASE Commit(c)
    BY <1>3, <1>4, OnceCommits DEF Advance
  <1>5. CASE CommitAnnotation(c)
    BY <1>1, <1>3, <1>5, OnceRewritten DEF Advance, TypeInv
  <1> QED
    BY <1>2, <1>3, <1>4, <1>5, CallsObjects

(* Where every writer asks for an absent key, and nobody deletes, a key    *)
(* never gets a second generation, whatever its versioning and however     *)
(* long the writers stream: the condition is looked at where the           *)
(* generation is published (Commit, with the condition of the call).       *)
THEOREM OneWriterWins ==
  ASSUME WriteConditions \subseteq {IfAbsent},
         Calls \cap {"DeleteObject", "DeleteObjects"} = {}
  PROVE  Spec => []CreateOnce
  <1>1. OnceInv <=> VersionInv /\ Once(objects)
                        /\ \A c \in Clients : Asks(call[c])
    BY DEF OnceInv, Once, CreateOnce
  <1>2. Init => OnceInv
    BY VersionInit DEF Init, OnceInv, CreateOnce, Asks, Idle
  <1>3. OnceInv /\ [Next]_vars => OnceInv'
    <2> SUFFICES ASSUME OnceInv, [Next]_vars
                 PROVE  OnceInv'
      OBVIOUS
    <2>1. /\ VersionInv /\ VersionInv' /\ Once(objects)
          /\ \A c \in Clients : Asks(call[c])
          /\ TypeOK /\ call \in [Clients -> Call]
      BY <1>1, VersionStep DEF VersionInv, BudgetInv, TypeInv, TypeOK
    <2>2. CASE BucketNext \/ \E b \in Buckets : DeleteBucket(b)
      <3>1. UNCHANGED <<objects, call>>
        BY <2>2 DEF BucketNext, CreateBucket, PutBucketVersioning,
                    EnableBucketObjectLock, PutBucketPolicy,
                    PutBucketDocument, DeleteBucketPolicy,
                    DeleteBucketDocument, DeleteBucket
      <3> QED
        BY <2>1, <3>1 DEF OnceInv, Once, CreateOnce
    <2>3. ~ObjectNext
      BY DEF ObjectNext, DeleteObject, DeleteObjects
    <2>4. CASE LockNext
      <3>1. call' = call
        BY <2>4 DEF LockNext, PutObjectLegalHold, PutObjectRetention,
                    DeleteObjectAnnotation
      <3>2. Once(objects')
        BY <2>1, <2>4, OnceRewritten
      <3> QED
        BY <2>1, <3>1, <3>2 DEF OnceInv, Once, CreateOnce
    <2>5. CASE Tick \/ UNCHANGED vars
      <3>1. UNCHANGED <<objects, call>>
        BY <2>5 DEF Tick, vars
      <3> QED
        BY <2>1, <3>1 DEF OnceInv, Once, CreateOnce
    <2>6. ASSUME NEW c \in Clients, Begin(c) \/ Advance(c) \/ Interrupt(c)
          PROVE  OnceInv'
      <3>1. Once(objects') /\ \E r : Moves(c, r) /\ Asks(r)
        BY <2>1, <2>6, OnceCalls
      <3>2. \A d \in Clients : Asks(call'[d])
        BY <2>1, <3>1 DEF Moves
      <3> QED
        BY <2>1, <3>1, <3>2 DEF OnceInv, Once, CreateOnce
    <2> QED
      BY <2>2, <2>3, <2>4, <2>5, <2>6 DEF Next, StoreNext
  <1>4. OnceInv => CreateOnce
    BY DEF OnceInv
  <1> QED
    BY <1>2, <1>3, <1>4, PTL DEF Spec

-----------------------------------------------------------------------------
(* MFA Delete. *)

Attested(g) == buckets[g.bucket].mfa = "Enabled"
                 /\ buckets[g.bucket].versioning = "Enabled"

KeepsAttested == \A g \in objects : Attested(g) => Keeps(g)

(* An entry without an attestation removes nothing where one is needed.    *)
LEMMA DeleteEntryAttested ==
  ASSUME DeleteAttestations \subseteq {FALSE},
         NEW st \in Catalogs, NEW b \in Buckets, NEW e \in Entry,
         NEW validated \in DeleteAttestations, NEW modified,
         NEW g \in st.objects, Attested(g)
  PROVE  g \in DeleteEntry(st, b, e, validated, modified).objects
  <1> DEFINE after == DeleteEntry(st, b, e, validated, modified)
  <1>0. ~validated
    OBVIOUS
  <1>1. CASE g.bucket = b /\ e.sel # Current
    <2>1. AttestationNeeded(b, e.sel)
      BY <1>1 DEF AttestationNeeded, Attested
    <2>2. after = st
      BY <1>0, <2>1 DEF DeleteEntry
    <2> QED
      BY <2>2
  <1>2. CASE g.bucket = b /\ e.sel = Current
    <2>1. buckets[b].versioning = "Enabled"
      BY <1>2 DEF Attested
    <2>2. after = st \/ after = PublishMarker(st, b, e.key)
      BY <1>2, <2>1 DEF DeleteEntry
    <2>3. g \in PublishMarker(st, b, e.key).objects
      BY <2>1 DEF PublishMarker
    <2> QED
      BY <2>2, <2>3
  <1>3. CASE g.bucket # b
    <2>1. \A k, sel : g \notin Selected(st.objects, b, k, sel)
                      /\ g \notin Visible(st.objects, b, k, sel)
      BY <1>3 DEF Visible, Selected
    <2> DEFINE target == IF e.sel = Current
                         THEN Visible(st.objects, b, e.key, Current)
                         ELSE Selected(st.objects, b, e.key, e.sel)
               null == buckets[b].versioning = "Suspended"
               replaced == IF null
                           THEN Selected(st.objects, b, e.key, Null) ELSE {}
               m == Marker(b, e.key, null, st.order + 1)
    <2>2. g \notin target /\ g \notin replaced
      BY <2>1
    <2>3. CASE after = st
      BY <2>3
    <2>4. CASE after.objects = st.objects \ target
      BY <2>2, <2>4
    <2>5. CASE after.objects = (st.objects \ replaced) \cup {m}
      BY <2>2, <2>5
    <2> QED
      BY <2>3, <2>4, <2>5, DeleteEntryCases
  <1> QED
    BY <1>1, <1>2, <1>3

LEMMA AttestedObjects ==
  ASSUME TypeOK, DeleteAttestations \subseteq {FALSE}, ObjectNext
  PROVE  KeepsAttested
  <1>1. Catalog \in Catalogs /\ Catalog.objects = objects
    BY DEF TypeOK, Catalog, Catalogs
  <1>2. ASSUME NEW st, Becomes(st),
               \A g \in objects : Attested(g) => g \in st.objects
        PROVE  KeepsAttested
    BY <1>2 DEF Becomes, KeepsAttested, Keeps
  <1>3. ASSUME NEW b \in Buckets, NEW validated \in DeleteAttestations,
               NEW modified, NEW e \in Entry,
               DeleteObject(b, e, validated, modified)
        PROVE  KeepsAttested
    <2>1. Becomes(DeleteEntry(Catalog, b, e, validated, modified))
      BY <1>3 DEF DeleteObject
    <2> QED
      BY <1>1, <1>2, <2>1, DeleteEntryAttested
  <1>4. ASSUME NEW b \in Buckets, NEW validated \in DeleteAttestations,
               NEW modified, NEW e1 \in Entry,
               NEW e2 \in Entry, NEW unversioned,
               DeleteObjects(b, e1, e2, validated, modified, unversioned)
        PROVE  KeepsAttested
    <2> DEFINE first == DeleteEntry(Catalog, b, e1, validated, modified)
    <2>1. Becomes(DeleteEntry(first, b, e2, validated, modified))
          /\ buckets[b].used
      BY <1>4 DEF DeleteObjects
    <2>2. first \in Catalogs
      BY <1>1, DeleteEntryType
    <2>3. \A g \in objects : Attested(g) => g \in first.objects
      BY <1>1, DeleteEntryAttested
    <2> HIDE DEF first
    <2> QED
      BY <1>2, <2>1, <2>2, <2>3, DeleteEntryAttested
  <1> QED
    BY <1>3, <1>4 DEF ObjectNext

LEMMA AttestedCommit ==
  ASSUME TypeInv, NEW c \in Clients, Commit(c)
  PROVE  KeepsAttested
  <1> DEFINE r == call[c]
             replaced == Replaced(r.bucket, r.key)
  <1>1. \/ objects' = objects
        \/ objects' = (objects \ replaced) \cup {Published(r, replaced)}
    BY DEF Commit
  <1>2. r.bucket \in Buckets /\ buckets[r.bucket].versioning \in Statuses
    BY DEF TypeInv, TypeOK, CallsNamed, Named, Commit, Bucket
  <1>3. \A g \in replaced : ~Attested(g)
    BY <1>2 DEF Replaced, NullSlot, Visible, Selected, Attested, Statuses
  <1> QED
    BY <1>1, <1>3 DEF KeepsAttested, Keeps

(* Where no deletion carries an attestation, a bucket with MFA Delete and  *)
(* versioning enabled loses no generation: the check of Delete_Version and *)
(* of the batch, and the publication that overwrites no enabled history.   *)
THEOREM AttestationIsNeeded ==
  ASSUME DeleteAttestations \subseteq {FALSE}
  PROVE  Spec => MFADeleteKeepsHistory
  <1>1. ASSUME BudgetInv, [Next]_vars
        PROVE  KeepsAttested
    <2>1. TypeOK /\ TypeInv
      BY <1>1 DEF BudgetInv, TypeInv
    <2>2. objects' = objects => KeepsAttested
      BY DEF KeepsAttested, Keeps
    <2>3. CASE BucketNext \/ \E b \in Buckets : DeleteBucket(b)
      <3>1. objects' = objects
        BY <2>3 DEF BucketNext, CreateBucket, PutBucketVersioning,
                    EnableBucketObjectLock, PutBucketPolicy,
                    PutBucketDocument, DeleteBucketPolicy,
                    DeleteBucketDocument, DeleteBucket
      <3> QED
        BY <2>2, <3>1
    <2>4. CASE ObjectNext
      BY <2>1, <2>4, AttestedObjects
    <2>5. CASE LockNext \/ \E c \in Clients : CommitAnnotation(c)
      BY <2>1, <2>2, <2>5, RewritesTwin
      DEF KeepsAttested, Keeps, Rewrite, Twins
    <2>6. CASE \E c \in Clients : Commit(c)
      BY <2>1, <2>6, AttestedCommit
    <2>7. CASE Tick \/ UNCHANGED vars
      BY <2>2, <2>7 DEF Tick, vars
    <2>8. ASSUME NEW c \in Clients, Begin(c) \/ Advance(c) \/ Interrupt(c)
          PROVE  objects' = objects \/ Commit(c) \/ CommitAnnotation(c)
      BY <2>8, CallsObjects
    <2> QED
      BY <1>1, <2>2, <2>3, <2>4, <2>5, <2>6, <2>7, <2>8 DEF Next, StoreNext
  <1>2. KeepsAttested
          <=> \A g \in objects :
                (buckets[g.bucket].mfa = "Enabled"
                   /\ buckets[g.bucket].versioning = "Enabled") => Keeps(g)
    BY DEF KeepsAttested, Attested
  <1> QED
    BY <1>1, <1>2, BudgetInit, BudgetStep, PTL DEF Spec, MFADeleteKeepsHistory
===============================================================================

------------------------------ MODULE SqliteStore ------------------------------
(***************************************************************************)
(* The SQLite backend, seen through one key of one bucket: the rows of the *)
(* catalogue, the payload files that they name, and the calls of clients   *)
(* that first make a payload durable, then commit its name, then unlink    *)
(* the payloads that the commit retired.  The catalogue gate makes each    *)
(* transaction, and each reference check with its unlink, one step; the    *)
(* steps between belong to several clients at once, and a crash or an      *)
(* error may come before any of them.                                      *)
(*                                                                         *)
(* SQLite is external: a transaction commits and is on the device, or      *)
(* reports an error and has no effect.                                     *)
(***************************************************************************)
EXTENDS Integers, FiniteSets, SequencesExt

CONSTANTS
    Clients,    \* tasks that call the store
    Operations, \* which calls they make, a subset of AllOperations
    Faults,     \* bound: the sequences of faults that may strike, each of
                \* "process", "power", "device", "catalog" and "busy"
    MaxFiles,   \* bound: payload files created
    MaxRows,    \* bound: rows published
    MaxCalls    \* bound: calls made

\* A bare copy leaves the annotations of its source out; a purge is a batch.
AllOperations == {"put", "create", "copy", "bare", "delete", "purge",
                  "annotate", "unannotate", "status"}
FaultKinds == {"process", "power", "device", "catalog", "busy"}

ASSUME SqliteAssumption ==
    /\ Operations \subseteq AllOperations
    /\ Faults \subseteq Seq(FaultKinds)
    /\ {MaxFiles, MaxRows, MaxCalls} \subseteq Nat

VARIABLES
    rows,     \* object_versions with object_annotations: the generations
    sequence, \* sqlite_sequence: the last publication order given out
    status,   \* buckets.versioning_status
    leases,   \* annotation_copy_leases: references of each payload, in memory
    objects,  \* objects/: payload files now, and those a power loss may leave
    staging,  \* staging/: files that have no payload name yet
    flushed,  \* files whose bytes are on the device
    calls,    \* the call of each client
    created,  \* number of files created so far
    called,   \* number of calls made so far
    open,     \* the store is open
    faults    \* the faults so far

catalog == <<rows, sequence, status, leases>>
files == <<objects, staging, flushed>>
vars == <<catalog, files, calls, created, called, open, faults>>

(***************************************************************************)
(* Rows.  A generation is known by its publication order, the null one by  *)
(* 0; payload and note name files, 0 none.                                 *)
(***************************************************************************)
NoRow == [id |-> 0, order |-> 0, marker |-> TRUE, payload |-> 0, note |-> 0]

Row(id, payload, note) ==
    [id |-> id, order |-> sequence + 1, marker |-> FALSE,
     payload |-> payload, note |-> note]

CurrentVersion == -1
NullVersion == 0
Selectors == CurrentVersion..MaxRows

NullRows == {r \in rows : r.id = NullVersion}
NewestRows == {r \in rows : \A s \in rows : s.order <= r.order}

Selected(selector) ==
    IF selector = CurrentVersion THEN NewestRows
    ELSE {r \in rows : r.id = selector}

SelectedData(selector) == {r \in Selected(selector) : ~r.marker}

\* The files the named rows hold, as a sequence without repetitions.
PayloadsOf(set) ==
    SetToSeq(({r.payload : r \in set} \union {r.note : r \in set}) \ {0})

NotesOf(set) == SetToSeq({r.note : r \in set} \ {0})

Leased == {p \in 1..MaxFiles : leases[p] > 0}

\* Mutant: the check looks at the rows and not at the leases.
RowsOnly(p) == p \in UNION {{r.payload, r.note} : r \in rows}

\* The reference check of Delete_Payload_If_Unreferenced and of Open.
Referenced(p) ==
    p \in Leased \union UNION {{r.payload, r.note} : r \in rows}

(***************************************************************************)
(* Calls                                                                   *)
(***************************************************************************)
NoCall == [kind |-> "none", phase |-> "idle", file |-> 0, note |-> 0,
           retire |-> <<>>, checked |-> TRUE, committed |-> FALSE, ok |-> TRUE]

In(c, phase) == open /\ calls[c].phase = phase

Goto(c, phase) == calls' = [calls EXCEPT ![c].phase = phase]

\* The call will answer with an error, or raise an exception.
Fail(c, phase) ==
    calls' = [calls EXCEPT ![c].phase = phase, ![c].ok = FALSE]

Fault(kind) ==
    /\ \E f \in Faults : IsPrefix(Append(faults, kind), f)
    /\ faults' = Append(faults, kind)

PowerMayFail ==
    \E f \in Faults : \E i \in Len(faults) + 1..Len(f) :
        IsPrefix(faults, f) /\ f[i] = "power"

Change(d, v) ==
    [now |-> v, old |-> IF PowerMayFail THEN d.old \union {d.now} ELSE {}]

Outcomes(d) == {d.now} \union d.old

Synced(d) == [now |-> d.now, old |-> {}]

Begin(c, call) ==
    /\ open /\ calls[c] = NoCall
    /\ called < MaxCalls
    /\ called' = called + 1
    /\ calls' = [calls EXCEPT ![c] = call]

\* The call of a client that will write a file.
Writing(kind, note) ==
    [NoCall EXCEPT !.kind = kind, !.phase = "stage", !.file = created + 1,
                   !.note = note]

BeginWriting(c, kind, note) ==
    /\ created < MaxFiles
    /\ created' = created + 1
    /\ Begin(c, Writing(kind, note))

(***************************************************************************)
(* Put_Object, Copy_Object and Put_Object_Annotation up to the commit      *)
(***************************************************************************)
BeginWrite(c, kind) ==
    /\ kind \in {"put", "create", "annotate"} \intersect Operations
    /\ BeginWriting(c, kind, 0)
    /\ UNCHANGED <<catalog, files, open, faults>>

\* Find_Selected_Object: under one gate the source is chosen, a lease is taken
\* on its annotation, also for a bare copy, and its payload is opened.
Lease(r) ==
    leases' = [p \in DOMAIN leases |->
                 leases[p] + IF p = r.note THEN 1 ELSE 0]

BeginCopy(c, kind, selector) ==
    /\ kind \in {"copy", "bare"} \intersect Operations
    /\ \E r \in SelectedData(selector) :
        /\ r.payload \in objects.now
        /\ BeginWriting(c, kind, r.note)
        /\ Lease(r)
    /\ UNCHANGED <<rows, sequence, status, files, open, faults>>

\* A source too large, or one that the copy's conditions refuse, is released
\* again.
RefuseCopy(c, selector) ==
    /\ "copy" \in Operations
    /\ \E r \in SelectedData(selector) :
        /\ r.payload \in objects.now
        /\ Begin(c, [NoCall EXCEPT !.kind = "copy", !.phase = "retire",
                                   !.note = r.note, !.ok = FALSE])
        /\ Lease(r)
    /\ UNCHANGED <<rows, sequence, status, files, created, open, faults>>

Stage(c) ==
    /\ In(c, "stage")
    /\ staging' = staging \union {calls[c].file}
    /\ Goto(c, "flush")
    /\ UNCHANGED <<catalog, objects, flushed, created, called, open, faults>>

Flush(c) ==
    /\ In(c, "flush")
    /\ flushed' = flushed \union {calls[c].file}
    /\ Goto(c, "rename")
    /\ UNCHANGED <<catalog, objects, staging, created, called, open, faults>>

\* A source that fails, a cancellation or a deadline before the rename.
Abandon(c) ==
    /\ In(c, "flush") \/ In(c, "rename")
    /\ staging' = staging \ {calls[c].file}
    /\ Fail(c, "retire")
    /\ UNCHANGED <<catalog, objects, flushed, created, called, open, faults>>

Rename(c) ==
    /\ In(c, "rename")
    /\ objects' = Change(objects, objects.now \union {calls[c].file})
    /\ staging' = staging \ {calls[c].file}
    /\ Goto(c, "sync")
    /\ UNCHANGED <<catalog, flushed, created, called, open, faults>>

SyncName(c) ==
    /\ In(c, "sync")
    /\ objects' = Synced(objects)
    /\ Goto(c, "commit")
    /\ UNCHANGED <<catalog, staging, flushed, created, called, open, faults>>

(***************************************************************************)
(* Transactions                                                            *)
(***************************************************************************)
\* The rows a put replaces: all of an unconfigured bucket's, the null one of
\* a suspended bucket's.
ReplacedRows == CASE status = "Unconfigured" -> rows
                  [] status = "Enabled"      -> {}
                  [] status = "Suspended"    -> NullRows

\* Mutant: a suspended put retires what is current, not what is null.
CurrentPayload ==
    IF status = "Enabled" THEN {} ELSE {r.payload : r \in NewestRows} \ {0}

PreviousPayload == {r.payload : r \in ReplacedRows} \ {0}

\* Mutant: the annotations of the replaced generation are forgotten.
PayloadsOnly == SetToSeq(PreviousPayload)

\* What a put unlinks after its commit: the replaced payload first.
RetiredByPut ==
    SetToSeq(PreviousPayload) \o NotesOf(ReplacedRows)

NewId == IF status = "Enabled" THEN sequence + 1 ELSE NullVersion

Committed(c, retired, checked) ==
    calls' = [calls EXCEPT ![c].phase = "retire", ![c].retire = retired,
                           ![c].checked = checked, ![c].committed = TRUE]

\* The annotation the new row names.
PublishedNote(call) == IF call.kind = "bare" THEN 0 ELSE call.note

\* The transaction of a put or a copy; create is a put conditioned on the
\* absence of a current object.
CommitPut(c) ==
    /\ In(c, "commit")
    /\ calls[c].kind \in {"put", "create", "copy", "bare"}
    /\ calls[c].kind = "create" => SelectedData(CurrentVersion) = {}
    /\ sequence < MaxRows
    /\ rows' = (rows \ ReplacedRows)
                 \union {Row(NewId, calls[c].file, PublishedNote(calls[c]))}
    /\ sequence' = sequence + 1
    /\ Committed(c, RetiredByPut, PreviousPayload = {})
    /\ UNCHANGED <<status, leases, files, created, called, open, faults>>

CommitAnnotation(c, selector) ==
    /\ In(c, "commit")
    /\ calls[c].kind = "annotate"
    /\ \E r \in SelectedData(selector) :
        /\ rows' = (rows \ {r}) \union {[r EXCEPT !.note = calls[c].file]}
        /\ Committed(c, NotesOf({r}), TRUE)
    /\ UNCHANGED <<sequence, status, leases, files, created, called, open,
                   faults>>

\* The condition fails, or there is nothing to annotate: the transaction is
\* rolled back and the payload is deleted.
Refuse(c) ==
    /\ In(c, "commit")
    /\ CASE calls[c].kind = "create"   -> SelectedData(CurrentVersion) # {}
         [] calls[c].kind = "annotate" ->
              \E s \in Selectors : SelectedData(s) = {}
         [] OTHER -> FALSE
    /\ objects' = Change(objects, objects.now \ {calls[c].file})
    /\ Fail(c, "refused")
    /\ UNCHANGED <<catalog, staging, flushed, created, called, open, faults>>

SyncRefused(c) ==
    /\ In(c, "refused")
    /\ objects' = Synced(objects)
    /\ Goto(c, "retire")
    /\ UNCHANGED <<catalog, staging, flushed, created, called, open, faults>>

\* Delete_Selected_Object, and Delete_Objects of one entry, which differs in
\* what it does after the commit.
Delete(c, kind, selector) ==
    /\ kind \in {"delete", "purge"} \intersect Operations
    /\ LET marker  == /\ selector = CurrentVersion
                      /\ status # "Unconfigured"
           removed == IF marker THEN ReplacedRows ELSE Selected(selector)
       IN  /\ marker => sequence < MaxRows
           /\ rows' = (rows \ removed) \union
                IF marker THEN {[Row(NewId, 0, 0) EXCEPT !.marker = TRUE]}
                ELSE {}
           /\ sequence' = IF marker THEN sequence + 1 ELSE sequence
           /\ Begin(c, [NoCall EXCEPT !.kind = kind, !.phase = "retire",
                          !.retire = PayloadsOf(removed), !.committed = TRUE])
    /\ UNCHANGED <<status, leases, files, created, open, faults>>

Unannotate(c, selector) ==
    /\ "unannotate" \in Operations
    /\ \E r \in SelectedData(selector) :
        /\ rows' = (rows \ {r}) \union {[r EXCEPT !.note = 0]}
        /\ Begin(c, [NoCall EXCEPT !.kind = "unannotate", !.phase = "retire",
                       !.retire = NotesOf({r}), !.committed = TRUE])
    /\ UNCHANGED <<sequence, status, leases, files, created, open, faults>>

\* Put_Bucket_Versioning: once set, the status never returns to Unconfigured.
PutStatus(new) ==
    /\ open /\ "status" \in Operations
    /\ called < MaxCalls
    /\ called' = called + 1
    /\ new \in {"Enabled", "Suspended"}
    /\ status' = new
    /\ UNCHANGED <<rows, sequence, leases, files, calls, created, open, faults>>

(***************************************************************************)
(* After the commit                                                        *)
(***************************************************************************)
\* What follows the removal of a call's next retired file.  The barriers of a
\* replaced payload and of annotation calls are best effort, the last barrier
\* of a put or of a deletion is not; a batch and a released copy have none.
AfterUnlink(call) ==
    IF call.kind \in {"purge", "released"} THEN "retire"
    ELSE IF ~call.checked \/ call.kind \in {"annotate", "unannotate"} THEN "forgiven"
    ELSE IF Len(call.retire) = 1 THEN "settle"
    ELSE "retire"

\* One retired file is unlinked if nothing refers to it; the payload a put
\* replaces is unlinked without asking.  An unlink that fails, because the
\* file is in use, is ignored.
Retire(c) ==
    /\ In(c, "retire")
    /\ calls[c].retire # <<>>
    /\ LET p == Head(calls[c].retire)
       IN  \/ /\ objects' = IF calls[c].checked /\ Referenced(p) THEN objects
                            ELSE Change(objects, objects.now \ {p})
              /\ UNCHANGED faults
           \/ Fault("busy") /\ UNCHANGED objects
    /\ calls' = [calls EXCEPT ![c].phase = AfterUnlink(calls[c]),
                              ![c].checked = TRUE,
                              ![c].retire = Tail(@)]
    /\ UNCHANGED <<catalog, staging, flushed, created, called, open>>

\* The reference check itself fails: a batch ends with an error, the other
\* calls leave the file to the next start.
CheckFails(c) ==
    /\ In(c, "retire")
    /\ calls[c].retire # <<>> /\ calls[c].checked
    /\ Fault("catalog")
    /\ IF calls[c].kind = "purge"
       THEN calls' = [calls EXCEPT ![c].retire = <<>>, ![c].ok = FALSE]
       ELSE calls' = [calls EXCEPT ![c].phase = AfterUnlink(calls[c]),
                                   ![c].retire = Tail(@)]
    /\ UNCHANGED <<catalog, files, created, called, open>>

SyncRetired(c) ==
    /\ In(c, "settle") \/ In(c, "forgiven")
    /\ objects' = Synced(objects)
    /\ Goto(c, "retire")
    /\ UNCHANGED <<catalog, staging, flushed, created, called, open, faults>>

Retired(c) == In(c, "retire") /\ calls[c].retire = <<>>

\* Release_Annotations.  A lease is a row of a table that admits no count of
\* zero, so the last one cannot be given back: the statement fails, the
\* handler tries again, and when that fails too the exception leaves
\* Copy_Object.
Release(c) ==
    /\ Retired(c) \/ In(c, "again")
    /\ calls[c].note # 0
    /\ LET p == calls[c].note
       IN  IF leases[p] > 1
           THEN /\ leases' = [leases EXCEPT ![p] = @ - 1]
                /\ calls' = [calls EXCEPT ![c].phase = "retire",
                                          ![c].kind = "released",
                                          ![c].retire = <<p>>, ![c].note = 0]
           ELSE /\ UNCHANGED leases
                /\ IF calls[c].phase = "retire" THEN Fail(c, "again")
                   ELSE calls' = [calls EXCEPT ![c].phase = "retire",
                                               ![c].note = 0]
    /\ UNCHANGED <<rows, sequence, status, files, created, called, open, faults>>

Return(c) ==
    /\ Retired(c)
    /\ calls[c].note = 0
    /\ calls' = [calls EXCEPT ![c] = NoCall]
    /\ UNCHANGED <<catalog, files, created, called, open, faults>>

(***************************************************************************)
(* Faults                                                                  *)
(***************************************************************************)
\* A barrier reports an error.  Before the commit the handler deletes the
\* file; after it the committed rows stay, whatever is answered.
SyncFails(c) ==
    /\ Fault("device")
    /\ \/ /\ In(c, "flush") \/ In(c, "sync")
          /\ staging' = staging \ {calls[c].file}
          /\ objects' = Change(objects, objects.now \ {calls[c].file})
          /\ Fail(c, "retire")
       \/ /\ In(c, "refused") \/ In(c, "settle")
          /\ Fail(c, "retire")
          /\ UNCHANGED <<objects, staging>>
       \/ /\ In(c, "forgiven")
          /\ Goto(c, "retire")
          /\ UNCHANGED <<objects, staging>>
    /\ UNCHANGED <<catalog, flushed, created, called, open>>

\* A statement or the commit reports an error: the transaction is rolled back
\* and the handler deletes the payload.
CommitFails(c) ==
    /\ In(c, "commit")
    /\ Fault("catalog")
    /\ objects' = Change(objects, objects.now \ {calls[c].file})
    /\ Fail(c, "retire")
    /\ UNCHANGED <<catalog, staging, flushed, created, called, open>>

Stopped ==
    /\ open' = FALSE
    /\ calls' = [c \in Clients |-> NoCall]
    /\ leases' = [p \in 1..MaxFiles |-> 0]

\* The process dies: the leases, a temporary table, die with it.
Crash ==
    /\ Fault("process")
    /\ Stopped
    /\ UNCHANGED <<rows, sequence, status, files, created, called>>

\* The machine dies: the committed rows stay, the directory falls back.
PowerLoss ==
    /\ Fault("power")
    /\ Stopped
    /\ \E x \in Outcomes(objects) : objects' = [now |-> x, old |-> {}]
    /\ UNCHANGED <<rows, sequence, status, staging, flushed, created, called>>

(***************************************************************************)
(* Open: staging/ is emptied, then every file that no row names is         *)
(* deleted, one by one.                                                    *)
(***************************************************************************)
CleanStaging(f) ==
    /\ ~open
    /\ f \in staging
    /\ staging' = staging \ {f}
    /\ UNCHANGED <<catalog, objects, flushed, calls, created, called, open,
                   faults>>

\* Mutant: a file whose bytes are known is kept.
KeepFlushed(p) == p \in flushed \/ Referenced(p)

Kept(p) == Referenced(p)

CleanObjects(f) ==
    /\ ~open /\ staging = {}
    /\ f \in objects.now /\ ~Kept(f)
    /\ objects' = Change(objects, objects.now \ {f})
    /\ UNCHANGED <<catalog, staging, flushed, calls, created, called, open,
                   faults>>

Open ==
    /\ ~open /\ staging = {}
    /\ \A f \in objects.now : Kept(f)
    /\ objects' = Synced(objects)
    /\ open' = TRUE
    /\ UNCHANGED <<catalog, staging, flushed, calls, created, called, faults>>

(***************************************************************************)
(* Specification                                                           *)
(***************************************************************************)
Init ==
    /\ rows = {} /\ sequence = 0 /\ status = "Unconfigured"
    /\ leases = [p \in 1..MaxFiles |-> 0]
    /\ objects = [now |-> {}, old |-> {}]
    /\ staging = {} /\ flushed = {}
    /\ calls = [c \in Clients |-> NoCall]
    /\ created = 0 /\ called = 0
    /\ open = TRUE
    /\ faults = <<>>

Call(c) ==
    \/ \E kind \in {"put", "create", "annotate"} : BeginWrite(c, kind)
    \/ \E selector \in Selectors :
        \/ RefuseCopy(c, selector)
        \/ \E kind \in {"copy", "bare"} : BeginCopy(c, kind, selector)
        \/ \E kind \in {"delete", "purge"} : Delete(c, kind, selector)
        \/ Unannotate(c, selector)

Step(c) ==
    \/ Stage(c) \/ Flush(c) \/ Abandon(c) \/ Rename(c) \/ SyncName(c)
    \/ CommitPut(c) \/ Refuse(c) \/ SyncRefused(c)
    \/ \E selector \in Selectors : CommitAnnotation(c, selector)
    \/ Retire(c) \/ SyncRetired(c) \/ Release(c) \/ Return(c)

Failure(c) == SyncFails(c) \/ CommitFails(c) \/ CheckFails(c)

Next ==
    \/ \E c \in Clients : Call(c) \/ Step(c) \/ Failure(c)
    \/ \E new \in {"Enabled", "Suspended"} : PutStatus(new)
    \/ Crash \/ PowerLoss
    \/ \E f \in 1..MaxFiles : CleanStaging(f) \/ CleanObjects(f)
    \/ Open

Spec == Init /\ [][Next]_vars

(***************************************************************************)
(* Properties                                                              *)
(***************************************************************************)
Held == (UNION {{r.payload, r.note} : r \in rows}) \ {0}

\* Whatever the clients do at once, and whatever fails, every file that a
\* committed row names is there, complete and on the device: in the running
\* store and after a power loss.
RowsReadable ==
    \A o \in Outcomes(objects) : Held \subseteq o \intersect flushed

\* When Open is done, after however many interrupted starts, the directory
\* holds the files of the rows and no other, and staging is empty.
StartReclaims ==
    [][~open /\ open' => objects'.now = Held' /\ staging' = {}]_vars

\* A file no row names and no copy holds is the work of a call in progress,
\* or something failed: nothing leaks.
NothingLeaks ==
    open /\ faults = <<>> =>
        LET busy == {calls[c].file : c \in Clients} \union
                    UNION {Range(calls[c].retire) : c \in Clients}
        IN  (objects.now \union staging) \ (Held \union Leased) \subseteq busy

(***************************************************************************)
(* The promise of DurableVersions, which FilesStore keeps as well          *)
(***************************************************************************)
None == [kind |-> "none"]
Unreadable == [kind |-> "unreadable"]

Value(r) ==
    IF {r.payload, r.note} \ {0} \subseteq objects.now \intersect flushed
    THEN [body |-> r.payload, marker |-> r.marker,
          tag |-> IF r.note = 0 THEN 0 ELSE 1, order |-> r.order]
    ELSE Unreadable

Table ==
    [k \in 0..MaxRows |->
        LET found == {r \in rows : r.id = k}
        IN  IF found = {} THEN None ELSE Value(CHOOSE r \in found : TRUE)]

Promise == INSTANCE DurableVersions WITH
    Identities <- 1..MaxRows, Absent <- None,
    Values <- [body : 0..MaxFiles, marker : BOOLEAN, tag : {0, 1},
               order : 1..MaxRows],
    table <- Table, fallback <- [k \in 0..MaxRows |-> {}]

\* A step changes at most one version, and only to what one operation makes
\* of it, and a crash changes none: not even the unlinking of a file that
\* another call still publishes makes a version unreadable.
OldOrNew == Promise!Spec

=============================================================================

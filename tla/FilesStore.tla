------------------------------ MODULE FilesStore ------------------------------
(***************************************************************************)
(* The pure-files backend, seen through one key of one bucket: the record  *)
(* at the object path, the generation files beside it, the annotation      *)
(* sidecars and the versioning configuration, with every rename, unlink    *)
(* and directory synchronisation a step of its own, a crash of the process *)
(* or of the machine between any two of them, and the recovery at Open.    *)
(*                                                                         *)
(* A directory is a record: "now" is what the running system sees, "old"   *)
(* the contents a power loss may bring back, which are those since the     *)
(* last synchronisation.  A directory loses a suffix of its changes; two   *)
(* directories lose theirs independently.                                  *)
(***************************************************************************)
EXTENDS Integers, FiniteSets, SequencesExt

CONSTANTS
    Commit,          \* "Power_Loss_Durable" or "Process_Crash_Atomic"
    Operations,      \* which mutations clients send, a subset of AllOperations
    Faults,          \* bound: the sequences of faults that may strike, each
                     \* of "process", "power" and "device"
    MaxBodies,       \* bound: records written
    MaxPublications, \* bound: publication numbers in use
    MaxOperations    \* bound: operations admitted by the gate

AllOperations == {"put", "copy", "complete", "delete", "retag", "annotate",
                  "unannotate", "status"}

ASSUME FilesAssumption ==
    /\ Commit \in {"Power_Loss_Durable", "Process_Crash_Atomic"}
    /\ Operations \subseteq AllOperations
    /\ Faults \subseteq Seq({"process", "power", "device"})
    /\ {MaxBodies, MaxPublications, MaxOperations} \subseteq Nat

VARIABLES
    objects,       \* objects/: the record at the object path, or None
    versions,      \* versions/<key>.versions/: the set of generation files
    notes,         \* annotations/: identities of the generations with sidecars
    configuration, \* configuration/versioning.fos: the versioning status
    staged,        \* bodies staged under tmp/ by tasks that wait for the gate
    op,            \* the operation that holds the publication gate, or None
    open,          \* the store is open
    written,       \* number of bodies written so far
    admitted,      \* number of operations admitted so far
    faults,        \* the faults so far
    noted,         \* history: bodies whose annotation was acknowledged
    everNoted      \* history: bodies an annotation was ever written for

directories == <<objects, versions, notes, configuration>>
history == <<noted, everNoted>>
vars == <<directories, staged, op, open, written, admitted, faults, history>>

None == [kind |-> "none"]

(***************************************************************************)
(* Directories                                                             *)
(***************************************************************************)
Fresh(v) == [now |-> v, old |-> {}]

PowerMayFail ==
    /\ Commit = "Power_Loss_Durable"
    /\ \E f \in Faults : \E i \in Len(faults) + 1..Len(f) :
           IsPrefix(faults, f) /\ f[i] = "power"

\* Nothing comes back where no power loss can follow.
Outcomes(d) == {d.now} \union (IF PowerMayFail THEN d.old ELSE {})

Change(d, v) ==
    [now |-> v, old |-> IF PowerMayFail THEN d.old \union {d.now} ELSE {}]

\* Mutant: the barrier returns before the device has the changes.
Unsynced(d) == d

\* The barrier itself: the directory's changes reach the device.
SyncPath(d) == Fresh(d.now)

\* Sync_Directory does nothing unless the store is Power_Loss_Durable.
Synced(d) == IF Commit = "Power_Loss_Durable" THEN SyncPath(d) ELSE d

(***************************************************************************)
(* Generation files and their selection                                    *)
(***************************************************************************)
\* File codes: O object, M delete marker, N null object, D null delete
\* marker, T null tombstone; L is the record at the object path.
NullKinds == {"N", "D", "T"}
MarkerKinds == {"M", "D"}

Record(pub, kind, body, id) ==
    [pub |-> pub, kind |-> kind, body |-> body, tag |-> 0, notesId |-> id,
     flushed |-> FALSE]

\* Mutant: the record is renamed without a barrier of its own.
Unflushed(record) == record

\* Sync_File, before the record gets its name.
SyncFile(record) ==
    [record EXCEPT !.flushed = (Commit = "Power_Loss_Durable")]

\* Mutant: the records of a key share one annotation identity.
SharedId(body) == <<"written", 0>>

\* The annotation identity a record stores, or the one derived from its path.
WrittenId(body) == <<"written", body>>
PathId(pub, kind) == <<"path", pub, kind>>

Newest(files) == CHOOSE f \in files : \A g \in files : g.pub <= f.pub

NullFiles(files) == {f \in files : f.kind \in NullKinds}
OpaqueFiles(files) == files \ NullFiles(files)

\* Select_Generation for the null selector.
SelectNull(legacy, files) ==
    IF NullFiles(files) = {} THEN legacy
    ELSE LET latest == Newest(NullFiles(files))
         IN  IF latest.kind = "T" THEN None ELSE latest

SelectCurrent(legacy, files) ==
    LET candidates == ({SelectNull(legacy, files)} \ {None})
                        \union OpaqueFiles(files)
    IN  IF candidates = {} THEN None ELSE Newest(candidates)

\* A selector is a publication number, which an exact identifier is a digest
\* of, or one of these.
CurrentVersion == -1
NullVersion == 0

SelectExact(files, id) ==
    LET found == {f \in OpaqueFiles(files) : f.pub = id}
    IN  IF found = {} THEN None ELSE Newest(found)

Select(selector) ==
    CASE selector = CurrentVersion -> SelectCurrent(objects.now, versions.now)
      [] selector = NullVersion -> SelectNull(objects.now, versions.now)
      [] OTHER                -> SelectExact(versions.now, selector)

Current == Select(CurrentVersion)

IsObject(file) == file # None /\ file.kind \notin MarkerKinds

\* Mutant: generations are counted, not numbered after the newest.
CountedPublication == Cardinality(versions.now) + 1

NextPublication ==
    IF versions.now = {} THEN 1 ELSE Newest(versions.now).pub + 1

Status == configuration.now

(***************************************************************************)
(* The publication gate                                                    *)
(***************************************************************************)
NoOp == [kind |-> "none", phase |-> "finish", syncs |-> <<>>, body |-> 0,
         file |-> None, retire |-> <<>>, keep |-> 0, entries |-> <<>>]

\* A task takes the gate for an operation; the caller's own staging is done.
\* An entry of a batch, and any other operation, uses one publication number.
Acquire(operation) ==
    /\ open /\ op = None
    /\ admitted < MaxOperations
    /\ NextPublication + Len(operation.entries)
         <= IF operation.kind = "delete" THEN MaxPublications + 1
            ELSE MaxPublications
    /\ admitted' = admitted + 1
    /\ op' = operation

InPhase(phase) == op # None /\ op.phase = phase /\ op.syncs = <<>>

Continue(phase, syncs) == op' = [op EXCEPT !.phase = phase, !.syncs = syncs]

\* The directory barrier the operation waits at.
SyncDirectory ==
    /\ op # None /\ op.syncs # <<>>
    /\ LET d == Head(op.syncs)
       IN  /\ objects' = IF d = "objects" THEN Synced(objects) ELSE objects
           /\ versions' = IF d = "versions" THEN Synced(versions) ELSE versions
           /\ notes' = IF d = "notes" THEN Synced(notes) ELSE notes
           /\ configuration' = IF d = "configuration"
                               THEN Synced(configuration) ELSE configuration
    /\ op' = [op EXCEPT !.syncs = Tail(@)]
    /\ UNCHANGED <<staged, open, written, admitted, faults, history>>

\* The operation returns Success and releases the gate; the end of recovery
\* opens the store.
Finish ==
    /\ InPhase("finish")
    /\ op' = None
    /\ open' = TRUE
    /\ noted' = IF op.kind \in {"annotate", "copy"}
                THEN noted \union {op.body} ELSE noted
    /\ UNCHANGED <<directories, staged, written, admitted, faults, everNoted>>

(***************************************************************************)
(* Put_Object, Copy_Object and Complete_Multipart_Upload                   *)
(***************************************************************************)
\* A body is written to its temporary record and synchronised before the
\* gate is asked for.
Stage ==
    /\ open /\ Operations \intersect {"put", "copy"} # {}
    /\ written < MaxBodies
    /\ written' = written + 1
    /\ staged' = staged \union {written + 1}
    /\ UNCHANGED <<directories, op, open, admitted, faults, history>>

\* Cancellation, a deadline or an unmet condition: the record is deleted.
Unstage(b) ==
    /\ open /\ b \in staged
    /\ staged' = staged \ {b}
    /\ UNCHANGED <<directories, op, open, written, admitted, faults, history>>

\* create is a put conditioned on the absence of a current object.
BeginPut(b, kind) ==
    /\ b \in staged
    /\ CASE kind = "put"    -> "put" \in Operations
         [] kind = "create" -> "put" \in Operations /\ ~IsObject(Current)
         [] kind = "copy"   -> "copy" \in Operations
    /\ Acquire([NoOp EXCEPT !.kind = kind, !.body = b,
                    !.phase = IF kind = "copy" THEN "copyNotes" ELSE "publish"])
    /\ staged' = staged \ {b}
    /\ UNCHANGED <<directories, open, written, faults, history>>

\* Completion assembles its record under the gate.
BeginComplete ==
    /\ "complete" \in Operations
    /\ written < MaxBodies
    /\ written' = written + 1
    /\ Acquire([NoOp EXCEPT !.kind = "complete", !.body = written + 1,
                            !.phase = "publish"])
    /\ UNCHANGED <<directories, staged, open, faults, history>>

\* The source's annotations are written under the new record's identity
\* before the record is published.
CopyNotes ==
    /\ InPhase("copyNotes")
    /\ notes' = Change(notes, notes.now \union {WrittenId(op.body)})
    /\ everNoted' = everNoted \union {op.body}
    /\ Continue("publish", <<"notes">>)
    /\ UNCHANGED <<objects, versions, configuration, staged, open, written,
                   admitted, faults, noted>>

\* The kind of generation a new object is under each versioning status.
ObjectKind == CASE Status = "Unconfigured" -> "L"
                [] Status = "Enabled"      -> "O"
                [] Status = "Suspended"    -> "N"

NewRecord ==
    LET pub == IF Status = "Unconfigured" THEN 0 ELSE NextPublication
        id  == IF op.kind = "complete" THEN PathId(pub, ObjectKind)
               ELSE WrittenId(op.body)
    IN  SyncFile(Record(pub, ObjectKind, op.body, id))

\* The annotations a put retires at once: those of the generation it replaces.
RetiredNotes ==
    IF /\ op.kind # "complete"
       /\ IsObject(Current)
       /\ \/ Status = "Unconfigured"
          \/ Status = "Suspended" /\ Current.kind \in NullKinds \union {"L"}
    THEN Current.notesId ELSE <<>>

\* The rename that publishes the record.
Publish ==
    /\ InPhase("publish")
    /\ IF Status = "Unconfigured"
       THEN objects' = Change(objects, NewRecord) /\ UNCHANGED versions
       ELSE /\ versions' = Change(versions, versions.now \union {NewRecord})
            /\ UNCHANGED objects
    /\ op' = [op EXCEPT !.phase = "retire", !.retire = RetiredNotes,
                        !.file = NewRecord, !.keep = NewRecord.pub]
    /\ UNCHANGED <<notes, configuration, staged, open, written, admitted,
                   faults, history>>

RetireNotes ==
    /\ InPhase("retire")
    /\ LET target == IF op.file.kind = "L" THEN <<"objects">> ELSE <<"versions">>
           next   == IF op.file.kind = "N" THEN "supersede" ELSE "finish"
       IN  IF op.retire \in notes.now
           THEN /\ notes' = Change(notes, notes.now \ {op.retire})
                /\ Continue(next, <<"notes">> \o target)
           ELSE Continue(next, target) /\ UNCHANGED notes
    /\ UNCHANGED <<objects, versions, configuration, staged, open, written,
                   admitted, faults, history>>

(***************************************************************************)
(* Remove_Superseded_Null_Generations: every null file but the kept one,   *)
(* each after its annotations, then the record at the object path, then    *)
(* the barrier of the generation directory.                                *)
(***************************************************************************)
Superseded == {f \in NullFiles(versions.now) : op # None /\ f.pub # op.keep}

RemoveSuperseded(f) ==
    /\ InPhase("supersede")
    /\ f \in Superseded
    /\ IF f.notesId \in notes.now
       THEN /\ notes' = Change(notes, notes.now \ {f.notesId})
            /\ Continue("supersede", <<"notes">>)
            /\ UNCHANGED versions
       ELSE /\ versions' = Change(versions, versions.now \ {f})
            /\ UNCHANGED <<notes, op>>
    /\ UNCHANGED <<objects, configuration, staged, open, written, admitted,
                   faults, history>>

\* What follows the removals of an operation.
Afterwards == IF op.kind = "delete" THEN "entry" ELSE "finish"
\* Mutant: the tombstone stays.
Unentombed == Afterwards

AfterSuperseded == IF op.file.kind = "T" THEN "entomb" ELSE Afterwards

RemoveLegacy ==
    /\ InPhase("supersede")
    /\ Superseded = {}
    /\ IF objects.now = None
       THEN Continue(AfterSuperseded, <<"versions">>) /\ UNCHANGED <<objects, notes>>
       ELSE IF objects.now.notesId \in notes.now
       THEN /\ notes' = Change(notes, notes.now \ {objects.now.notesId})
            /\ Continue("supersede", <<"notes">>)
            /\ UNCHANGED objects
       ELSE /\ objects' = Change(objects, None)
            /\ Continue(AfterSuperseded, <<"objects", "versions">>)
            /\ UNCHANGED notes
    /\ UNCHANGED <<versions, configuration, staged, open, written, admitted,
                   faults, history>>

\* The tombstone has done its work and is unlinked in turn.
Entomb ==
    /\ InPhase("entomb")
    /\ versions' = Change(versions,
                          {f \in versions.now : f.pub # op.keep})
    /\ Continue(Afterwards, <<"versions">>)
    /\ UNCHANGED <<objects, notes, configuration, staged, open, written,
                   admitted, faults, history>>

(***************************************************************************)
(* Delete_Objects                                                          *)
(***************************************************************************)
\* An entry is a selector and whether its ETag condition matches nothing.
Selectors == CurrentVersion..MaxPublications
Entries == [selector : Selectors, stale : BOOLEAN]
Batches == {<<e>> : e \in Entries} \union (Entries \X Entries)

BeginDelete(entries) ==
    /\ "delete" \in Operations
    /\ Acquire([NoOp EXCEPT !.kind = "delete", !.phase = "entry",
                            !.entries = entries])
    /\ UNCHANGED <<directories, staged, open, written, faults, history>>

\* Mutant: a null generation is unlinked without a tombstone.
EffectWithoutTombstone(entry) ==
    LET file  == Select(entry.selector)
        marks == entry.selector = CurrentVersion /\ Status # "Unconfigured"
    IN  IF entry.stale THEN "none"
        ELSE IF marks THEN IF Status = "Enabled" THEN "M" ELSE "D"
        ELSE IF file = None \/ (entry.selector = CurrentVersion /\ ~IsObject(file))
        THEN "none"
        ELSE "unlink"

\* What an entry does to the selected generation.
EntryEffect(entry) ==
    LET file   == Select(entry.selector)
        exists == IF entry.selector = CurrentVersion THEN IsObject(file)
                  ELSE file # None
        marks  == entry.selector = CurrentVersion /\ Status # "Unconfigured"
    IN  IF entry.stale THEN "none"
        ELSE IF marks THEN IF Status = "Enabled" THEN "M" ELSE "D"
        ELSE IF ~exists THEN "none"
        ELSE IF entry.selector = NullVersion /\ file.kind # "L" THEN "T"
        ELSE "unlink"

NextEntry(phase, file) ==
    [op EXCEPT !.phase = phase, !.file = file, !.entries = Tail(@)]

\* An entry that fails its condition or selects nothing changes nothing.
DeleteNothing ==
    /\ InPhase("entry") /\ op.entries # <<>>
    /\ EntryEffect(Head(op.entries)) = "none"
    /\ op' = NextEntry("entry", op.file)
    /\ UNCHANGED <<directories, staged, open, written, admitted, faults,
                   history>>

\* Publish_Generation of a delete marker or of a null tombstone.
PublishMarker ==
    /\ InPhase("entry") /\ op.entries # <<>>
    /\ LET kind   == EntryEffect(Head(op.entries))
           marker == SyncFile(Record(NextPublication, kind, 0,
                                     PathId(NextPublication, kind)))
       IN  /\ kind \in {"M", "D", "T"}
           /\ versions' = Change(versions, versions.now \union {marker})
           /\ op' = [NextEntry(IF kind = "M" THEN "entry" ELSE "supersede",
                               marker)
                     EXCEPT !.keep = marker.pub, !.syncs = <<"versions">>]
    /\ UNCHANGED <<objects, notes, configuration, staged, open, written,
                   admitted, faults, history>>

\* The physical removal of one generation starts with its annotations.
RemoveNotes ==
    /\ InPhase("entry") /\ op.entries # <<>>
    /\ EntryEffect(Head(op.entries)) = "unlink"
    /\ LET file == Select(Head(op.entries).selector)
       IN  IF file.kind # "M" /\ file.notesId \in notes.now
           THEN /\ notes' = Change(notes, notes.now \ {file.notesId})
                /\ op' = [NextEntry("unlink", file) EXCEPT !.syncs = <<"notes">>]
           ELSE op' = NextEntry("unlink", file) /\ UNCHANGED notes
    /\ UNCHANGED <<objects, versions, configuration, staged, open, written,
                   admitted, faults, history>>

Unlink ==
    /\ InPhase("unlink")
    /\ IF op.file.kind = "L"
       THEN /\ objects' = Change(objects, None)
            /\ Continue("entry", <<"objects">>)
            /\ UNCHANGED versions
       ELSE /\ versions' = Change(versions, versions.now \ {op.file})
            /\ Continue("entry", <<"versions">>)
            /\ UNCHANGED objects
    /\ UNCHANGED <<notes, configuration, staged, open, written, admitted,
                   faults, history>>

\* The batch is over, or its caller's token or deadline ends it between two
\* entries.
EndBatch ==
    /\ InPhase("entry")
    /\ op' = None
    /\ UNCHANGED <<directories, staged, open, written, admitted, faults,
                   history>>

(***************************************************************************)
(* Operations that replace one record, one sidecar or the configuration    *)
(***************************************************************************)
BeginUpdate(kind, selector) ==
    /\ kind \in {"retag", "annotate", "unannotate"} \intersect Operations
    /\ LET file == Select(selector)
       IN  /\ IsObject(file)
           /\ Acquire([NoOp EXCEPT !.kind = kind, !.phase = kind,
                                   !.body = file.body, !.file = file])
    /\ noted' = IF kind = "unannotate"
                THEN noted \ {Select(selector).body} ELSE noted
    /\ UNCHANGED <<directories, staged, open, written, faults, everNoted>>

\* Tags, the legal hold and the retention live in the record: it is written
\* anew, with the annotation identity it had, and renamed over the old one.
Retag ==
    /\ InPhase("retag")
    /\ LET new == SyncFile([op.file EXCEPT !.tag = 1 - @, !.flushed = FALSE])
       IN  IF op.file.kind = "L"
           THEN /\ objects' = Change(objects, new)
                /\ Continue("finish", <<"objects">>)
                /\ UNCHANGED versions
           ELSE /\ versions' = Change(versions,
                                      (versions.now \ {op.file}) \union {new})
                /\ Continue("finish", <<"versions">>)
                /\ UNCHANGED objects
    /\ UNCHANGED <<notes, configuration, staged, open, written, admitted,
                   faults, history>>

Annotate ==
    /\ InPhase("annotate")
    /\ notes' = Change(notes, notes.now \union {op.file.notesId})
    /\ everNoted' = everNoted \union {op.body}
    /\ Continue("finish", <<"notes">>)
    /\ UNCHANGED <<objects, versions, configuration, staged, open, written,
                   admitted, faults, noted>>

Unannotate ==
    /\ InPhase("unannotate")
    /\ IF op.file.notesId \in notes.now
       THEN /\ notes' = Change(notes, notes.now \ {op.file.notesId})
            /\ Continue("finish", <<"notes">>)
       ELSE Continue("finish", <<>>) /\ UNCHANGED notes
    /\ UNCHANGED <<objects, versions, configuration, staged, open, written,
                   admitted, faults, history>>

\* Put_Bucket_Versioning: once set, the status never returns to Unconfigured.
PutStatus(status) ==
    /\ "status" \in Operations
    /\ status \in {"Enabled", "Suspended"}
    /\ Acquire([NoOp EXCEPT !.kind = "status", !.syncs = <<"configuration">>])
    /\ configuration' = Change(configuration, status)
    /\ UNCHANGED <<objects, versions, notes, staged, open, written, faults,
                   history>>

(***************************************************************************)
(* Faults                                                                  *)
(***************************************************************************)
Fault(kind) ==
    /\ \E f \in Faults : IsPrefix(Append(faults, kind), f)
    /\ faults' = Append(faults, kind)

\* Mutant: the handler forgets the gate.
SyncFailsHolding ==
    /\ Commit = "Power_Loss_Durable"
    /\ op # None /\ op.syncs # <<>>
    /\ Fault("device")
    /\ Continue("failed", <<>>)
    /\ UNCHANGED <<directories, staged, open, written, admitted, history>>

\* A barrier reports an error.  The operation releases the gate and answers
\* Backend_Unavailable; nothing it published is taken back.  A copy that has
\* not published its record removes the annotations it staged, which no other
\* operation knows of, and the barrier of that removal may fail as well.  Open
\* answers Configuration_Error when it meets an error during recovery.
SyncFails ==
    /\ Commit = "Power_Loss_Durable"
    /\ op # None /\ op.syncs # <<>>
    /\ Fault("device")
    /\ op' = None
    /\ IF op.kind = "copy" /\ op.phase = "publish"
       THEN LET removed == Change(notes, notes.now \ {WrittenId(op.body)})
            IN  notes' \in {removed, Synced(removed)}
       ELSE UNCHANGED notes
    /\ UNCHANGED <<objects, versions, configuration, staged, open, written,
                   admitted, history>>

\* The process dies.  The system keeps every change; Open deletes tmp/.
Crash ==
    /\ Fault("process")
    /\ open' = FALSE
    /\ op' = None
    /\ staged' = {}
    /\ UNCHANGED <<directories, written, admitted, history>>

\* The machine dies: each directory falls back to one of its outcomes.
PowerLoss ==
    /\ Commit = "Power_Loss_Durable"
    /\ Fault("power")
    /\ \E x \in Outcomes(objects) : objects' = Fresh(x)
    /\ \E x \in Outcomes(versions) : versions' = Fresh(x)
    /\ \E x \in Outcomes(notes) : notes' = Fresh(x)
    /\ \E x \in Outcomes(configuration) : configuration' = Fresh(x)
    /\ open' = FALSE
    /\ op' = None
    /\ staged' = {}
    /\ UNCHANGED <<written, admitted, history>>

\* Open with Recover_Null_Tombstones: only a tombstone that is the latest
\* null generation has work left.
Reopen ==
    /\ ~open /\ op = None
    /\ LET nulls  == NullFiles(versions.now)
           latest == Newest(nulls)
       IN  IF nulls # {} /\ latest.kind = "T"
           THEN /\ op' = [NoOp EXCEPT !.kind = "recover", !.phase = "supersede",
                                      !.file = latest, !.keep = latest.pub]
                /\ UNCHANGED open
           ELSE open' = TRUE /\ UNCHANGED op
    /\ UNCHANGED <<directories, staged, written, admitted, faults, history>>

(***************************************************************************)
(* Specification                                                           *)
(***************************************************************************)
Init ==
    /\ objects = Fresh(None)
    /\ versions = Fresh({})
    /\ notes = Fresh({})
    /\ configuration = Fresh("Unconfigured")
    /\ staged = {}
    /\ op = None
    /\ open = TRUE
    /\ written = 0
    /\ admitted = 0
    /\ faults = <<>>
    /\ noted = {} /\ everNoted = {}

Begin ==
    \/ \E b \in staged, kind \in {"put", "create", "copy"} : BeginPut(b, kind)
    \/ BeginComplete
    \/ \E entries \in Batches : BeginDelete(entries)
    \/ \E kind \in {"retag", "annotate", "unannotate"},
          selector \in Selectors : BeginUpdate(kind, selector)
    \/ \E status \in {"Enabled", "Suspended"} : PutStatus(status)

\* A step of the operation that holds the gate.
Proceed ==
    \/ SyncDirectory \/ Finish
    \/ CopyNotes \/ Publish \/ RetireNotes
    \/ (\E f \in Superseded : RemoveSuperseded(f)) \/ RemoveLegacy \/ Entomb
    \/ DeleteNothing \/ PublishMarker \/ RemoveNotes \/ Unlink \/ EndBatch
    \/ Retag \/ Annotate \/ Unannotate

Next ==
    \/ Stage \/ (\E b \in staged : Unstage(b))
    \/ Begin
    \/ Proceed
    \/ SyncFails \/ Crash \/ PowerLoss
    \/ Reopen

\* The task that holds the gate runs, and a process that died is started
\* again; nobody has to send a request or to fail.
Fairness == WF_vars(Proceed) /\ WF_vars(Reopen)

Spec == Init /\ [][Next]_vars /\ Fairness

(***************************************************************************)
(* The promise of DurableVersions                                          *)
(***************************************************************************)
Value(file) ==
    IF file = None THEN None
    ELSE [body |-> file.body, marker |-> file.kind \in MarkerKinds,
          tag |-> file.tag, order |-> file.pub]

VersionIn(k, legacy, files) ==
    Value(IF k = 0 THEN SelectNull(legacy, files) ELSE SelectExact(files, k))

\* What version k is, and what a power loss may make of it.
Version(k) == VersionIn(k, objects.now, versions.now)

Possible(k) ==
    IF k = 0
    THEN {VersionIn(0, o, g) : o \in Outcomes(objects), g \in Outcomes(versions)}
    ELSE {VersionIn(k, None, g) : g \in Outcomes(versions)}

Returning(k) == Possible(k) \ {Version(k)}

VersionKeys == 0..MaxPublications

Table == [k \in VersionKeys |-> Version(k)]
Fallback == [k \in VersionKeys |-> Returning(k)]

FileValues == [body : Nat, marker : BOOLEAN, tag : {0, 1}, order : Nat]

Promise == INSTANCE DurableVersions WITH
    Identities <- 1..MaxPublications, Values <- FileValues, Absent <- None,
    table <- Table, fallback <- Fallback

\* Every rename, unlink, barrier, crash and recovery step changes at most one
\* version, and only to what one operation makes of it: a reader, or the
\* store reopened after any crash, finds each version old or new.
OldOrNew == Promise!Spec

(***************************************************************************)
(* Properties                                                              *)
(***************************************************************************)
\* No crash leaves two generation files with one publication number, which
\* Select_Generation and Open answer with Data_Error for good.
OnePublicationOneFile ==
    \A g \in Outcomes(versions) : \A x, y \in g : x.pub = y.pub => x = y

\* A record gets its name only after its bytes: no power loss finds a named
\* record whose contents are not on the device.
NoTornRecord ==
    Commit = "Power_Loss_Durable" =>
        /\ \A o \in Outcomes(objects) : o # None => o.flushed
        /\ \A g \in Outcomes(versions) : \A x \in g : x.flushed

\* The machine died at most: what an error of the device, or a death of the
\* process alone, left unsynchronised no later operation has to synchronise.
Undamaged == \A i \in DOMAIN faults : faults[i] = "power"

Success ==
    /\ op # None /\ op' = None
    /\ (InPhase("finish") \/ (InPhase("entry") /\ op.entries = <<>>))

\* An operation answers Success only when no power loss can undo it.
SuccessIsDurable ==
    [][(Undamaged /\ Success /\ op.file # None /\ faults' = faults)
        => Returning(IF op.file.kind \in {"O", "M"} THEN op.file.pub ELSE 0) = {}]_vars

VisibleFiles ==
    {f \in OpaqueFiles(versions.now) : f.kind = "O"} \union
    {f \in {SelectNull(objects.now, versions.now)} : IsObject(f)}

\* Between operations, a visible generation whose annotation was acknowledged
\* and not deleted since still has it, and none has an annotation that was
\* never written for it.
NotesFollow ==
    open /\ op = None =>
        \A f \in VisibleFiles :
            /\ f.body \in noted => f.notesId \in notes.now
            /\ f.notesId \in notes.now => f.body \in everNoted

\* When Open is done no tombstone stands for the null version, and nothing
\* of what it covered is left.
RecoveryCompletes ==
    [][~open /\ open' =>
        LET nulls == NullFiles(versions'.now)
        IN  /\ nulls # {} => Newest(nulls).kind # "T"
            /\ op # None => nulls = {} /\ objects'.now = None]_vars

=============================================================================

--------------------------- MODULE FilesStoreProofs ---------------------------
(***************************************************************************)
(* For every sequence of faults and every number of records, publications  *)
(* and operations: no crash leaves two files with one publication number,  *)
(* no power loss finds a record whose bytes were not on the device, Open   *)
(* leaves no tombstone, and Success is final.  Where power losses come     *)
(* before other faults, the files keep the promise of DurableVersions.     *)
(* While nothing has failed, annotations follow their generations.         *)
(*                                                                         *)
(* The first two speak of every directory a power loss may bring back.     *)
(* Each of those was the running one at some time, so it is enough that    *)
(* every change of a directory makes a good one out of a good one.         *)
(***************************************************************************)
EXTENDS FilesStore, ArithmeticFacts

Statuses == {"Unconfigured", "Enabled", "Suspended"}
FileKinds == {"L", "O", "M", "N", "D", "T"}

Ids == ({"written"} \X Nat) \union ({"path"} \X Nat \X FileKinds)

Files == [pub : Nat, kind : FileKinds, body : Nat, tag : {0, 1},
          notesId : Ids, flushed : BOOLEAN]

OnDevice(file) == Commit = "Power_Loss_Durable" => file.flushed

\* What the object path may hold.
Legacies == {o \in Files : o.kind = "L" /\ OnDevice(o)} \union {None}

\* What the generation directory may hold: its files are numbered, each
\* number is used once, and their bytes are on the device.
Numbered(files) == \E m \in Nat : \A f \in files : f.pub <= m

Unique(files) == \A x, y \in files : x.pub = y.pub => x = y

Generations ==
    {files \in SUBSET Files :
        /\ Numbered(files) /\ Unique(files)
        /\ \A f \in files : OnDevice(f) /\ f.kind # "L"}

\* A directory, and what a power loss may bring back of it.
Directory(contents) == [now : contents, old : SUBSET contents]

OperationKinds == AllOperations \union {"none", "create", "recover"}

Phases == {"finish", "copyNotes", "publish", "retire", "supersede", "entomb",
           "entry", "unlink", "retag", "annotate", "unannotate"}

Barriers == {"objects", "versions", "notes", "configuration"}

Operation ==
    [kind : OperationKinds, phase : Phases, syncs : Seq(Barriers), body : Nat,
     file : Files \union {None}, retire : Ids \union {<<>>}, keep : Nat,
     entries : Seq(Entries)]

DirectoriesGood ==
    /\ objects \in Directory(Legacies)
    /\ versions \in Directory(Generations)
    /\ configuration \in Directory(Statuses)

\* The operation that holds the gate; what a task read under the gate is
\* still there when it replaces it.
OperationGood ==
    /\ staged \subseteq Nat /\ written \in Nat
    /\ op # None =>
        /\ op \in Operation
        /\ op.phase = "retag" =>
              /\ op.file # None
              /\ op.file.kind # "L" => op.file \in versions.now

\* Recovery removes what the tombstone covers, then the tombstone; nothing
\* else runs until the store is open.
RecoveryGood ==
    /\ ~open => op = None \/ op.kind = "recover"
    /\ op # None /\ op.kind = "recover" =>
        /\ op.file # None /\ op.file.kind = "T"
        /\ op.phase \in {"supersede", "entomb", "finish"}
        /\ op.phase = "entomb" =>
              /\ objects.now = None
              /\ \A f \in NullFiles(versions.now) : f.pub = op.keep
        /\ op.phase = "finish" =>
              objects.now = None /\ NullFiles(versions.now) = {}

FilesInv == DirectoriesGood /\ OperationGood /\ RecoveryGood

(***************************************************************************)
(* Directories                                                             *)
(***************************************************************************)
LEMMA ChangedDirectory ==
    ASSUME NEW contents, NEW d \in Directory(contents), NEW v \in contents
    PROVE  Change(d, v) \in Directory(contents) /\ Change(d, v).now = v
BY DEF Change, Directory

LEMMA FreshDirectory ==
    ASSUME NEW contents, NEW d \in Directory(contents), NEW v \in Outcomes(d)
    PROVE  Fresh(v) \in Directory(contents)
BY DEF Fresh, Outcomes, Directory

LEMMA SyncedDirectory ==
    ASSUME NEW contents, NEW d \in Directory(contents)
    PROVE  Synced(d) \in Directory(contents) /\ Synced(d).now = d.now
BY DEF Synced, SyncPath, Fresh, Directory

(***************************************************************************)
(* Publication numbers                                                     *)
(***************************************************************************)
LEMMA NewestIsLast ==
    ASSUME NEW files \in SUBSET Files, Numbered(files), files # {}
    PROVE  /\ Newest(files) \in files
           /\ \A g \in files : g.pub <= Newest(files).pub
<1>1. PICK m \in Nat : \A f \in files : f.pub <= m
  BY DEF Numbered
<1>2. \A f \in files : f.pub \in Nat
  BY DEF Files
<1> DEFINE S == {f.pub : f \in files}
<1>3. S \subseteq Nat /\ S # {} /\ \A x \in S : x <= m
  BY <1>1, <1>2
<1>4. PICK x \in S : \A y \in S : y <= x
  <2> HIDE DEF S
  <2> QED
    BY <1>3, GreatestNumber
<1>5. PICK f \in files : x = f.pub
  OBVIOUS
<1>6. \A g \in files : g.pub <= f.pub
  BY <1>4, <1>5
<1> QED
  BY <1>5, <1>6 DEF Newest

LEMMA NextIsNew ==
    ASSUME FilesInv
    PROVE  /\ NextPublication \in Nat
           /\ \A f \in versions.now : f.pub < NextPublication
<1>1. versions.now \in SUBSET Files /\ Numbered(versions.now)
  BY DEF FilesInv, DirectoriesGood, Directory, Generations
<1>2. CASE versions.now = {}
  BY <1>2 DEF NextPublication
<1>3. CASE versions.now # {}
  <2>1. /\ Newest(versions.now) \in versions.now
        /\ \A g \in versions.now : g.pub <= Newest(versions.now).pub
    BY <1>1, <1>3, NewestIsLast
  <2>2. \A f \in versions.now : f.pub \in Nat
    BY <1>1 DEF Files
  <2> QED
    BY <1>3, <2>1, <2>2 DEF NextPublication
<1> QED
  BY <1>2, <1>3

\* Fewer files, one more with the next number, or one replaced by another
\* with its number are good generations again.
LEMMA FewerFiles ==
    ASSUME NEW files \in Generations, NEW g, g \subseteq files
    PROVE  g \in Generations
BY DEF Generations, Numbered, Unique

LEMMA OneMoreFile ==
    ASSUME FilesInv, NEW f \in Files, f.pub = NextPublication,
           OnDevice(f), f.kind # "L"
    PROVE  versions.now \union {f} \in Generations
<1>1. versions.now \in Generations
  BY DEF FilesInv, DirectoriesGood, Directory
<1>2. NextPublication \in Nat /\ \A g \in versions.now : g.pub < NextPublication
  BY NextIsNew
<1>3. \A g \in versions.now : g.pub \in Nat
  BY <1>1 DEF Generations, Files
<1>4. Numbered(versions.now \union {f})
  BY <1>2, <1>3 DEF Numbered
<1>5. Unique(versions.now \union {f})
  BY <1>1, <1>2, <1>3 DEF Unique, Generations
<1> QED
  BY <1>1, <1>4, <1>5 DEF Generations

LEMMA OtherFile ==
    ASSUME NEW files \in Generations, NEW old \in files, NEW f \in Files,
           f.pub = old.pub, OnDevice(f), f.kind # "L"
    PROVE  (files \ {old}) \union {f} \in Generations
<1> DEFINE g == (files \ {old}) \union {f}
<1>1. Numbered(g)
  BY DEF Generations, Numbered
<1>2. Unique(g)
  BY DEF Generations, Unique
<1> QED
  BY <1>1, <1>2 DEF Generations

(***************************************************************************)
(* Selections and operations                                               *)
(***************************************************************************)
LEMMA NoneIsNoFile == None \notin Files /\ None \notin Operation
BY DEF None, Files, Operation, FileKinds

LEMMA Contents ==
    ASSUME FilesInv
    PROVE  /\ objects.now \in Legacies
           /\ versions.now \in Generations
           /\ versions.now \in SUBSET Files /\ Numbered(versions.now)
           /\ configuration.now \in Statuses
BY DEF FilesInv, DirectoriesGood, Directory, Generations

LEMMA NullSelected ==
    ASSUME FilesInv
    PROVE  LET file == SelectNull(objects.now, versions.now)
           IN  file = None \/ file = objects.now \/ file \in versions.now
<1> DEFINE nulls == NullFiles(versions.now)
<1>1. nulls \in SUBSET Files /\ Numbered(nulls) /\ nulls \subseteq versions.now
  BY Contents DEF NullFiles, Numbered
<1>2. CASE nulls = {}
  BY <1>2 DEF SelectNull
<1>3. CASE nulls # {}
  <2>1. Newest(nulls) \in versions.now
    <3> HIDE DEF nulls
    <3> QED
      BY <1>1, <1>3, NewestIsLast
  <2> QED
    BY <1>3, <2>1 DEF SelectNull
<1> QED
  BY <1>2, <1>3

LEMMA CurrentSelected ==
    ASSUME FilesInv
    PROVE  LET file == SelectCurrent(objects.now, versions.now)
           IN  \/ file = None \/ file = SelectNull(objects.now, versions.now)
               \/ file \in OpaqueFiles(versions.now)
<1> DEFINE null == SelectNull(objects.now, versions.now)
           candidates == ({null} \ {None}) \union OpaqueFiles(versions.now)
<1>1. null = None \/ null = objects.now \/ null \in versions.now
  BY NullSelected
<1>2. candidates \subseteq ({objects.now} \ {None}) \union versions.now
  BY <1>1 DEF OpaqueFiles
<1>3. objects.now \in Files \union {None}
  BY Contents DEF Legacies
<1>4. candidates \in SUBSET Files
  BY <1>2, <1>3, Contents
<1>5. Numbered(candidates)
  <2>1. PICK m \in Nat : \A f \in versions.now : f.pub <= m
    BY Contents DEF Numbered
  <2>2. CASE objects.now = None
    BY <1>2, <2>1, <2>2 DEF Numbered
  <2>3. CASE objects.now \in Files
    <3> DEFINE bound == IF objects.now.pub <= m THEN m ELSE objects.now.pub
    <3>1. bound \in Nat /\ objects.now.pub <= bound /\ m <= bound
      BY <2>3 DEF Files
    <3>2. \A f \in versions.now : f.pub \in Nat
      BY Contents DEF Files
    <3>3. \A f \in candidates : f.pub <= bound
      <4> HIDE DEF bound, candidates
      <4> QED
        BY <1>2, <2>1, <3>1, <3>2
    <3> QED
      BY <3>1, <3>3 DEF Numbered
  <2> QED
    BY <1>3, <2>2, <2>3
<1>6. candidates # {} => Newest(candidates) \in candidates
  <2> HIDE DEF candidates
  <2> QED
    BY <1>4, <1>5, NewestIsLast
<1> QED
  BY <1>6 DEF SelectCurrent

LEMMA ExactSelected ==
    ASSUME FilesInv, NEW id
    PROVE  LET file == SelectExact(versions.now, id)
           IN  file = None \/ file \in versions.now
<1> DEFINE found == {f \in OpaqueFiles(versions.now) : f.pub = id}
<1>1. found \subseteq versions.now
  BY DEF OpaqueFiles
<1>2. found \in SUBSET Files /\ Numbered(found)
  BY <1>1, Contents DEF Numbered
<1>3. found # {} => Newest(found) \in found
  <2> HIDE DEF found
  <2> QED
    BY <1>2, NewestIsLast
<1> QED
  BY <1>1, <1>3 DEF SelectExact

\* What a selector finds is the record at the object path or a generation.
LEMMA Selected ==
    ASSUME FilesInv, NEW selector
    PROVE  /\ Select(selector) \in Files \union {None}
           /\ Select(selector) # None /\ Select(selector).kind # "L" =>
                 Select(selector) \in versions.now
<1>1. \/ Select(selector) = None
      \/ Select(selector) = objects.now
      \/ Select(selector) \in versions.now
  BY NullSelected, CurrentSelected, ExactSelected DEF Select, OpaqueFiles
<1> QED
  BY <1>1, Contents DEF Legacies

LEMMA ContinuedOperation ==
    ASSUME NEW o \in Operation, NEW phase \in Phases, NEW syncs \in Seq(Barriers)
    PROVE  LET n == [o EXCEPT !.phase = phase, !.syncs = syncs]
           IN  /\ n \in Operation /\ n # None
               /\ n.kind = o.kind /\ n.file = o.file /\ n.keep = o.keep
               /\ n.phase = phase
<1> DEFINE n == [o EXCEPT !.phase = phase, !.syncs = syncs]
<1>1. n \in Operation
  BY DEF Operation
<1>2. /\ n.kind = o.kind /\ n.file = o.file /\ n.keep = o.keep
      /\ n.phase = phase
  BY DEF Operation
<1> QED
  BY <1>1, <1>2, NoneIsNoFile

LEMMA Continued ==
    ASSUME op \in Operation, NEW phase \in Phases, NEW syncs \in Seq(Barriers),
           Continue(phase, syncs)
    PROVE  /\ op' \in Operation /\ op' # None
           /\ op'.kind = op.kind /\ op'.file = op.file /\ op'.keep = op.keep
           /\ op'.phase = phase
<1> DEFINE n == [op EXCEPT !.phase = phase, !.syncs = syncs]
<1>1. op' = n
  BY DEF Continue
<1>2. /\ n \in Operation /\ n # None
      /\ n.kind = op.kind /\ n.file = op.file /\ n.keep = op.keep
      /\ n.phase = phase
  BY ContinuedOperation
<1> HIDE DEF n
<1> QED
  BY <1>1, <1>2

LEMMA BarrierSequences ==
    /\ <<>> \in Seq(Barriers)
    /\ \A a \in Barriers : <<a>> \in Seq(Barriers)
    /\ \A a, b \in Barriers : /\ <<a, b>> \in Seq(Barriers)
                             /\ <<a>> \o <<b>> \in Seq(Barriers)
<1>1. <<>> \in Seq(Barriers)
  OBVIOUS
<1>2. \A a \in Barriers : <<a>> \in Seq(Barriers)
  OBVIOUS
<1>3. \A a, b \in Barriers : <<a, b>> \in Seq(Barriers)
  OBVIOUS
<1>4. \A x, y \in Seq(Barriers) : x \o y \in Seq(Barriers)
  <2> HIDE DEF Barriers
  <2> QED
    OBVIOUS
<1> QED
  <2> HIDE DEF Barriers
  <2> QED
    BY <1>1, <1>2, <1>3, <1>4

LEMMA NextEntryOperation ==
    ASSUME op \in Operation, op.entries # <<>>,
           NEW phase \in Phases, NEW file \in Files \union {None}
    PROVE  LET n == NextEntry(phase, file)
           IN  /\ n \in Operation /\ n # None
               /\ n.kind = op.kind /\ n.file = file /\ n.phase = phase
<1> DEFINE n == NextEntry(phase, file)
<1>1. Tail(op.entries) \in Seq(Entries)
  BY DEF Operation
<1>2. n \in Operation
  BY <1>1 DEF Operation, NextEntry
<1>3. n.kind = op.kind /\ n.file = file /\ n.phase = phase
  BY DEF Operation, NextEntry
<1> QED
  BY <1>2, <1>3, NoneIsNoFile

LEMMA OperationRecord ==
    ASSUME NEW kind \in OperationKinds, NEW phase \in Phases,
           NEW syncs \in Seq(Barriers),
           NEW body \in Nat, NEW file \in Files \union {None},
           NEW retire \in Ids \union {<<>>}, NEW keep \in Nat,
           NEW entries \in Seq(Entries)
    PROVE  [kind |-> kind, phase |-> phase, syncs |-> syncs, body |-> body,
            file |-> file, retire |-> retire, keep |-> keep,
            entries |-> entries] \in Operation
BY DEF Operation

LEMMA NoOpIsOperation == NoOp \in Operation
<1>1. <<>> \in Seq(Entries) /\ <<>> \in Seq(Barriers)
  OBVIOUS
<1>2. <<>> \in Ids \union {<<>>} /\ None \in Files \union {None}
  OBVIOUS
<1>3. "none" \in OperationKinds /\ "finish" \in Phases
  BY DEF OperationKinds, Phases
<1> QED
  BY <1>1, <1>2, <1>3, OperationRecord, Zenon DEF NoOp

LEMMA RecordIsFile ==
    ASSUME NEW pub \in Nat, NEW kind \in FileKinds, NEW body \in Nat, NEW id \in Ids
    PROVE  LET file == SyncFile(Record(pub, kind, body, id))
           IN  /\ file \in Files /\ OnDevice(file)
               /\ file.pub = pub /\ file.kind = kind
<1> DEFINE record == Record(pub, kind, body, id)  file == SyncFile(record)
<1>1. record \in Files /\ record.pub = pub /\ record.kind = kind
  BY DEF Record, Files
<1>2. file \in Files
  BY <1>1 DEF SyncFile, Files
<1>3. /\ file.pub = record.pub /\ file.kind = record.kind
      /\ file.flushed = (Commit = "Power_Loss_Durable")
  BY <1>1 DEF SyncFile, Files
<1> QED
  BY <1>1, <1>2, <1>3 DEF OnDevice

LEMMA UpdatedFile ==
    ASSUME NEW file \in Files
    PROVE  LET new == SyncFile([file EXCEPT !.tag = 1 - @, !.flushed = FALSE])
           IN  /\ new \in Files /\ OnDevice(new)
               /\ new.pub = file.pub /\ new.kind = file.kind
<1> DEFINE changed == [file EXCEPT !.tag = 1 - @, !.flushed = FALSE]
           new == SyncFile(changed)
<1>1. changed \in Files
  <2>1. 1 - file.tag \in {0, 1}
    BY DEF Files
  <2> QED
    BY <2>1 DEF Files
<1>2. changed.pub = file.pub /\ changed.kind = file.kind
  BY DEF Files
<1>3. new \in Files
  BY <1>1 DEF SyncFile, Files
<1>4. /\ new.pub = changed.pub /\ new.kind = changed.kind
      /\ new.flushed = (Commit = "Power_Loss_Durable")
  BY <1>1 DEF SyncFile, Files
<1> QED
  BY <1>2, <1>3, <1>4 DEF OnDevice

(***************************************************************************)
(* What every step has in common                                           *)
(***************************************************************************)
LEMMA SameDirectories ==
    ASSUME FilesInv, UNCHANGED <<objects, versions, configuration>>
    PROVE  DirectoriesGood'
BY DEF FilesInv, DirectoriesGood

LEMMA ChangedObjects ==
    ASSUME FilesInv, UNCHANGED <<versions, configuration>>,
           NEW v \in Legacies, objects' = Change(objects, v)
    PROVE  DirectoriesGood' /\ objects'.now = v
BY ChangedDirectory DEF FilesInv, DirectoriesGood

LEMMA ChangedVersions ==
    ASSUME FilesInv, UNCHANGED <<objects, configuration>>,
           NEW v \in Generations, versions' = Change(versions, v)
    PROVE  DirectoriesGood' /\ versions'.now = v
BY ChangedDirectory DEF FilesInv, DirectoriesGood

\* The gate is free, and stays free or is released.
LEMMA IdleKeeps ==
    ASSUME DirectoriesGood', op' = None, staged' \subseteq Nat, written' \in Nat
    PROVE  FilesInv'
BY DEF FilesInv, OperationGood, RecoveryGood

\* A client's operation begins, or goes on.
LEMMA ClientKeeps ==
    ASSUME DirectoriesGood', staged' \subseteq Nat, written' \in Nat, open',
           op' \in Operation, op'.kind # "recover", op'.phase # "retag"
    PROVE  FilesInv'
BY DEF FilesInv, OperationGood, RecoveryGood

LEMMA ClientHolds ==
    ASSUME FilesInv, op # None,
           op.phase \notin {"supersede", "entomb", "finish"}
    PROVE  open /\ op.kind # "recover" /\ op \in Operation
BY DEF FilesInv, RecoveryGood, OperationGood

(***************************************************************************)
(* The operation that holds the gate                                       *)
(***************************************************************************)
LEMMA SyncDirectoryKeeps ==
    ASSUME FilesInv, SyncDirectory
    PROVE  FilesInv'
<1>1. op \in Operation /\ op.syncs # <<>> /\ op # None
  BY DEF SyncDirectory, FilesInv, OperationGood
<1>2. Tail(op.syncs) \in Seq(Barriers)
  BY <1>1 DEF Operation
<1>3. /\ op' \in Operation /\ op'.kind = op.kind /\ op'.phase = op.phase
      /\ op'.file = op.file /\ op'.keep = op.keep
  BY <1>1, <1>2 DEF SyncDirectory, Operation
<1>4. DirectoriesGood' /\ objects'.now = objects.now /\ versions'.now = versions.now
  BY SyncedDirectory DEF SyncDirectory, FilesInv, DirectoriesGood
<1>5. UNCHANGED <<staged, written, open>>
  BY DEF SyncDirectory
<1>6. OperationGood'
  BY <1>1, <1>3, <1>4, <1>5 DEF FilesInv, OperationGood
<1>7. RecoveryGood'
  BY <1>1, <1>3, <1>4, <1>5 DEF FilesInv, RecoveryGood, NullFiles
<1> QED
  BY <1>4, <1>6, <1>7 DEF FilesInv

LEMMA FinishKeeps ==
    ASSUME FilesInv, Finish
    PROVE  FilesInv'
BY SameDirectories, IdleKeeps DEF Finish, directories, FilesInv, OperationGood

LEMMA CopyNotesKeeps ==
    ASSUME FilesInv, CopyNotes
    PROVE  FilesInv'
<1>1. /\ open /\ op.kind # "recover" /\ op \in Operation
      /\ UNCHANGED <<objects, versions, configuration, staged, open, written>>
      /\ Continue("publish", <<"notes">>)
  BY ClientHolds DEF CopyNotes, InPhase
<1>2. "publish" \in Phases /\ <<"notes">> \in Seq(Barriers)
  BY BarrierSequences DEF Phases, Barriers
<1>3. op' \in Operation /\ op'.kind = op.kind /\ op'.phase = "publish"
  BY <1>1, <1>2, Continued
<1> QED
  BY <1>1, <1>3, SameDirectories, ClientKeeps DEF FilesInv, OperationGood

LEMMA NewRecordIsFile ==
    ASSUME FilesInv, op \in Operation
    PROVE  /\ NewRecord \in Files /\ OnDevice(NewRecord)
           /\ Status = "Unconfigured" => NewRecord.kind = "L" /\ NewRecord.pub = 0
           /\ Status # "Unconfigured" =>
                 NewRecord.kind \in {"O", "N"} /\ NewRecord.pub = NextPublication
<1> DEFINE pub == IF Status = "Unconfigured" THEN 0 ELSE NextPublication
           id == IF op.kind = "complete" THEN PathId(pub, ObjectKind)
                 ELSE WrittenId(op.body)
<1>1. Status \in Statuses
  BY Contents DEF Status
<1>2. /\ ObjectKind \in FileKinds
      /\ Status = "Unconfigured" => ObjectKind = "L"
      /\ Status # "Unconfigured" => ObjectKind \in {"O", "N"}
  BY <1>1 DEF ObjectKind, Statuses, FileKinds
<1>3. pub \in Nat /\ op.body \in Nat
  BY NextIsNew DEF Operation
<1>4. id \in Ids
  BY <1>2, <1>3 DEF Ids, PathId, WrittenId
<1>5. NewRecord = SyncFile(Record(pub, ObjectKind, op.body, id))
  BY DEF NewRecord
<1> HIDE DEF id
<1>6. /\ NewRecord \in Files /\ OnDevice(NewRecord)
      /\ NewRecord.pub = pub /\ NewRecord.kind = ObjectKind
  BY <1>2, <1>3, <1>4, <1>5, RecordIsFile
<1> QED
  BY <1>2, <1>6

LEMMA PublishKeeps ==
    ASSUME FilesInv, Publish
    PROVE  FilesInv'
<1>1. /\ open /\ op.kind # "recover" /\ op \in Operation
      /\ UNCHANGED <<configuration, staged, open, written>>
  BY ClientHolds DEF Publish, InPhase
<1>2. /\ NewRecord \in Files /\ OnDevice(NewRecord)
      /\ Status = "Unconfigured" => NewRecord.kind = "L"
      /\ Status # "Unconfigured" =>
            NewRecord.kind # "L" /\ NewRecord.pub = NextPublication
  BY <1>1, NewRecordIsFile
<1>3. RetiredNotes \in Ids \union {<<>>}
  BY Selected DEF RetiredNotes, IsObject, Current, Files
<1>4. op' \in Operation /\ op'.kind = op.kind /\ op'.phase = "retire"
  <2>1. NewRecord.pub \in Nat /\ "retire" \in Phases
    BY <1>2 DEF Files, Phases
  <2> QED
    BY <1>1, <1>2, <1>3, <2>1 DEF Publish, Operation
<1>5. DirectoriesGood'
  <2>1. CASE Status = "Unconfigured"
    <3>1. NewRecord \in Legacies
      BY <1>2, <2>1 DEF Legacies
    <3> QED
      BY <1>1, <2>1, <3>1, ChangedObjects DEF Publish
  <2>2. CASE Status # "Unconfigured"
    <3>1. versions.now \union {NewRecord} \in Generations
      BY <1>2, <2>2, OneMoreFile
    <3> QED
      BY <1>1, <2>2, <3>1, ChangedVersions DEF Publish
  <2> QED
    BY <2>1, <2>2
<1> QED
  BY <1>1, <1>4, <1>5, ClientKeeps DEF FilesInv, OperationGood

LEMMA RetireNotesKeeps ==
    ASSUME FilesInv, RetireNotes
    PROVE  FilesInv'
<1> DEFINE target == IF op.file.kind = "L" THEN <<"objects">> ELSE <<"versions">>
           next == IF op.file.kind = "N" THEN "supersede" ELSE "finish"
<1>1. /\ open /\ op.kind # "recover" /\ op \in Operation
      /\ UNCHANGED <<objects, versions, configuration, staged, open, written>>
  BY ClientHolds DEF RetireNotes, InPhase
<1>2. /\ target \in Seq(Barriers) /\ <<"notes">> \o target \in Seq(Barriers)
      /\ next \in Phases /\ next # "retag"
  BY BarrierSequences DEF Barriers, Phases
<1>3. Continue(next, <<"notes">> \o target) \/ Continue(next, target)
  BY DEF RetireNotes
<1>4. op' \in Operation /\ op'.kind = op.kind /\ op'.phase = next
  <2> HIDE DEF next, target
  <2> QED
    BY <1>1, <1>2, <1>3, Continued
<1> QED
  BY <1>1, <1>2, <1>4, SameDirectories, ClientKeeps DEF FilesInv, OperationGood

\* In the removal of superseded generations the holder may be a client or
\* recovery; either way it is still there, and does not replace a record.
LEMMA HolderKeeps ==
    ASSUME FilesInv, op # None, DirectoriesGood',
           UNCHANGED <<staged, written, open>>,
           op' \in Operation, op' # None, op'.kind = op.kind,
           op'.file = op.file, op'.keep = op.keep, op'.phase # "retag",
           op.kind = "recover" =>
              \/ op'.phase = "supersede"
              \/ /\ op'.phase = "entomb" /\ objects'.now = None
                 /\ \A f \in NullFiles(versions'.now) : f.pub = op.keep
              \/ /\ op'.phase = "finish" /\ objects'.now = None
                 /\ NullFiles(versions'.now) = {}
    PROVE  FilesInv'
<1>1. OperationGood'
  BY DEF FilesInv, OperationGood
<1>2. RecoveryGood'
  BY DEF FilesInv, RecoveryGood
<1> QED
  BY <1>1, <1>2 DEF FilesInv

LEMMA RemoveSupersededKeeps ==
    ASSUME FilesInv, NEW f \in Superseded, RemoveSuperseded(f)
    PROVE  FilesInv'
<1>1. /\ op # None /\ op \in Operation /\ op.phase = "supersede"
      /\ UNCHANGED <<objects, configuration, staged, open, written>>
  BY DEF RemoveSuperseded, InPhase, FilesInv, OperationGood
<1>2. "supersede" \in Phases /\ <<"notes">> \in Seq(Barriers)
  BY BarrierSequences DEF Phases, Barriers
<1>3. /\ op' \in Operation /\ op' # None
      /\ op'.kind = op.kind /\ op'.file = op.file /\ op'.keep = op.keep
      /\ op'.phase = "supersede"
  <2>1. CASE Continue("supersede", <<"notes">>)
    BY <1>1, <1>2, <2>1, Continued
  <2> QED
    BY <1>1, <2>1 DEF RemoveSuperseded
<1>4. DirectoriesGood'
  <2>1. CASE UNCHANGED versions
    BY <1>1, <2>1, SameDirectories
  <2>2. CASE versions' = Change(versions, versions.now \ {f})
    <3>1. versions.now \ {f} \in Generations
      BY Contents, FewerFiles
    <3> QED
      BY <1>1, <2>2, <3>1, ChangedVersions
  <2> QED
    BY <2>1, <2>2 DEF RemoveSuperseded
<1> QED
  BY <1>1, <1>3, <1>4, HolderKeeps

LEMMA RemoveLegacyKeeps ==
    ASSUME FilesInv, RemoveLegacy
    PROVE  FilesInv'
<1>1. /\ op # None /\ op \in Operation
      /\ UNCHANGED <<versions, configuration, staged, open, written>>
  BY DEF RemoveLegacy, InPhase, FilesInv, OperationGood
<1>2. /\ {"supersede", AfterSuperseded} \subseteq Phases \ {"retag"}
      /\ op.kind = "recover" => AfterSuperseded = "entomb"
  BY <1>1 DEF AfterSuperseded, Afterwards, Phases, FilesInv, RecoveryGood
<1>3. /\ <<"versions">> \in Seq(Barriers) /\ <<"notes">> \in Seq(Barriers)
      /\ <<"objects", "versions">> \in Seq(Barriers)
  BY BarrierSequences DEF Barriers
<1>4. \A f \in NullFiles(versions'.now) : f.pub = op.keep
  BY <1>1 DEF RemoveLegacy, Superseded
<1>5. CASE /\ objects.now = None /\ UNCHANGED objects
           /\ Continue(AfterSuperseded, <<"versions">>)
  <2>1. /\ op' \in Operation /\ op' # None
        /\ op'.kind = op.kind /\ op'.file = op.file /\ op'.keep = op.keep
        /\ op'.phase = AfterSuperseded
    BY <1>1, <1>2, <1>3, <1>5, Continued
  <2> QED
    BY <1>1, <1>2, <1>4, <1>5, <2>1, SameDirectories, HolderKeeps
<1>6. CASE UNCHANGED objects /\ Continue("supersede", <<"notes">>)
  <2>1. /\ op' \in Operation /\ op' # None
        /\ op'.kind = op.kind /\ op'.file = op.file /\ op'.keep = op.keep
        /\ op'.phase = "supersede"
    BY <1>1, <1>2, <1>3, <1>6, Continued
  <2> QED
    BY <1>1, <1>6, <2>1, SameDirectories, HolderKeeps
<1>7. CASE /\ objects' = Change(objects, None)
           /\ Continue(AfterSuperseded, <<"objects", "versions">>)
  <2>1. /\ op' \in Operation /\ op' # None
        /\ op'.kind = op.kind /\ op'.file = op.file /\ op'.keep = op.keep
        /\ op'.phase = AfterSuperseded
    BY <1>1, <1>2, <1>3, <1>7, Continued
  <2>2. DirectoriesGood' /\ objects'.now = None
    BY <1>1, <1>7, ChangedObjects DEF Legacies
  <2> QED
    BY <1>1, <1>2, <1>4, <2>1, <2>2, HolderKeeps
<1> QED
  BY <1>5, <1>6, <1>7 DEF RemoveLegacy

LEMMA EntombKeeps ==
    ASSUME FilesInv, Entomb
    PROVE  FilesInv'
<1> DEFINE left == {f \in versions.now : f.pub # op.keep}
<1>1. /\ op # None /\ op \in Operation /\ op.phase = "entomb"
      /\ UNCHANGED <<objects, configuration, staged, open, written>>
  BY DEF Entomb, InPhase, FilesInv, OperationGood
<1>2. /\ Afterwards \in Phases \ {"retag"}
      /\ op.kind = "recover" => Afterwards = "finish"
      /\ <<"versions">> \in Seq(Barriers)
  BY BarrierSequences DEF Afterwards, Phases, Barriers
<1>3. /\ op' \in Operation /\ op' # None
      /\ op'.kind = op.kind /\ op'.file = op.file /\ op'.keep = op.keep
      /\ op'.phase = Afterwards
  BY <1>1, <1>2, Continued DEF Entomb
<1>4. left \in Generations
  BY Contents, FewerFiles
<1>5. versions' = Change(versions, left)
  BY DEF Entomb
<1>6. DirectoriesGood' /\ versions'.now = left
  <2> HIDE DEF left
  <2> QED
    BY <1>1, <1>4, <1>5, ChangedVersions
<1>7. op.kind = "recover" => objects'.now = None /\ NullFiles(versions'.now) = {}
  BY <1>1, <1>6 DEF FilesInv, RecoveryGood, NullFiles
<1> QED
  BY <1>1, <1>2, <1>3, <1>6, <1>7, HolderKeeps

LEMMA DeleteNothingKeeps ==
    ASSUME FilesInv, DeleteNothing
    PROVE  FilesInv'
<1>1. /\ open /\ op.kind # "recover" /\ op \in Operation /\ op.entries # <<>>
      /\ UNCHANGED <<objects, versions, configuration, staged, open, written>>
      /\ op' = NextEntry("entry", op.file)
  BY ClientHolds DEF DeleteNothing, InPhase, directories
<1>2. op' \in Operation /\ op'.kind = op.kind /\ op'.phase = "entry"
  <2>1. "entry" \in Phases /\ op.file \in Files \union {None}
    BY <1>1 DEF Phases, Operation
  <2> QED
    BY <1>1, <2>1, NextEntryOperation
<1> QED
  BY <1>1, <1>2, SameDirectories, ClientKeeps DEF FilesInv, OperationGood

LEMMA PublishMarkerKeeps ==
    ASSUME FilesInv, PublishMarker
    PROVE  FilesInv'
<1> DEFINE kind == EntryEffect(Head(op.entries))
           marker == SyncFile(Record(NextPublication, kind, 0,
                                     PathId(NextPublication, kind)))
           phase == IF kind = "M" THEN "entry" ELSE "supersede"
           next == NextEntry(phase, marker)
<1>1. /\ open /\ op.kind # "recover" /\ op \in Operation /\ op.entries # <<>>
      /\ UNCHANGED <<objects, configuration, staged, open, written>>
      /\ kind \in {"M", "D", "T"}
      /\ versions' = Change(versions, versions.now \union {marker})
      /\ op' = [next EXCEPT !.keep = marker.pub, !.syncs = <<"versions">>]
  BY ClientHolds DEF PublishMarker, InPhase
<1> HIDE DEF kind
<1>2. NextPublication \in Nat /\ kind \in FileKinds
  BY <1>1, NextIsNew DEF FileKinds
<1>3. PathId(NextPublication, kind) \in Ids
  BY <1>2 DEF PathId, Ids
<1>4. /\ marker \in Files /\ OnDevice(marker)
      /\ marker.pub = NextPublication /\ marker.kind = kind
  BY <1>2, <1>3, RecordIsFile
<1> HIDE DEF marker
<1>5. phase \in Phases \ {"retag"}
  BY DEF Phases
<1>6. next \in Operation /\ next.kind = op.kind /\ next.phase = phase
  BY <1>1, <1>4, <1>5, NextEntryOperation
<1> HIDE DEF next, phase
<1>7. op' \in Operation /\ op'.kind = op.kind /\ op'.phase = phase
  <2>1. <<"versions">> \in Seq(Barriers) /\ marker.pub \in Nat
    BY <1>2, <1>4, BarrierSequences DEF Barriers
  <2> QED
    BY <1>1, <1>6, <2>1 DEF Operation
<1>8. versions.now \union {marker} \in Generations
  BY <1>1, <1>4, OneMoreFile
<1>9. DirectoriesGood'
  BY <1>1, <1>8, ChangedVersions
<1> QED
  BY <1>1, <1>5, <1>7, <1>9, ClientKeeps DEF FilesInv, OperationGood

LEMMA RemoveNotesKeeps ==
    ASSUME FilesInv, RemoveNotes
    PROVE  FilesInv'
<1> DEFINE file == Select(Head(op.entries).selector)
           next == NextEntry("unlink", file)
<1>1. /\ open /\ op.kind # "recover" /\ op \in Operation /\ op.entries # <<>>
      /\ UNCHANGED <<objects, versions, configuration, staged, open, written>>
      /\ op' = next \/ op' = [next EXCEPT !.syncs = <<"notes">>]
  BY ClientHolds DEF RemoveNotes, InPhase
<1>2. file \in Files \union {None} /\ "unlink" \in Phases
  BY Selected DEF Phases
<1> HIDE DEF file
<1>3. next \in Operation /\ next.kind = op.kind /\ next.phase = "unlink"
  BY <1>1, <1>2, NextEntryOperation
<1> HIDE DEF next
<1>4. op' \in Operation /\ op'.kind = op.kind /\ op'.phase = "unlink"
  <2>1. <<"notes">> \in Seq(Barriers)
    BY BarrierSequences DEF Barriers
  <2> QED
    BY <1>1, <1>3, <2>1 DEF Operation
<1> QED
  BY <1>1, <1>4, SameDirectories, ClientKeeps DEF FilesInv, OperationGood

LEMMA UnlinkKeeps ==
    ASSUME FilesInv, Unlink
    PROVE  FilesInv'
<1>1. /\ open /\ op.kind # "recover" /\ op \in Operation
      /\ UNCHANGED <<configuration, staged, open, written>>
  BY ClientHolds DEF Unlink, InPhase
<1>2. /\ <<"objects">> \in Seq(Barriers) /\ <<"versions">> \in Seq(Barriers)
      /\ "entry" \in Phases
  BY BarrierSequences DEF Barriers, Phases
<1>3. op' \in Operation /\ op'.kind = op.kind /\ op'.phase = "entry"
  BY <1>1, <1>2, Continued DEF Unlink
<1>4. DirectoriesGood'
  <2>1. None \in Legacies /\ versions.now \ {op.file} \in Generations
    BY Contents, FewerFiles DEF Legacies
  <2> QED
    BY <1>1, <2>1, ChangedObjects, ChangedVersions DEF Unlink
<1> QED
  BY <1>1, <1>3, <1>4, ClientKeeps DEF FilesInv, OperationGood

LEMMA EndBatchKeeps ==
    ASSUME FilesInv, EndBatch
    PROVE  FilesInv'
BY SameDirectories, IdleKeeps DEF EndBatch, directories, FilesInv, OperationGood

LEMMA RetagKeeps ==
    ASSUME FilesInv, Retag
    PROVE  FilesInv'
<1> DEFINE new == SyncFile([op.file EXCEPT !.tag = 1 - @, !.flushed = FALSE])
<1>1. /\ open /\ op.kind # "recover" /\ op \in Operation
      /\ op # None /\ op.phase = "retag"
      /\ UNCHANGED <<configuration, staged, open, written>>
  BY ClientHolds DEF Retag, InPhase
<1>2. /\ op.file \in Files
      /\ op.file.kind # "L" => op.file \in versions.now
  BY <1>1 DEF FilesInv, OperationGood, Operation
<1>3. /\ new \in Files /\ OnDevice(new)
      /\ new.pub = op.file.pub /\ new.kind = op.file.kind
  BY <1>2, UpdatedFile
<1>4. \/ /\ op.file.kind = "L" /\ objects' = Change(objects, new)
         /\ Continue("finish", <<"objects">>) /\ UNCHANGED versions
      \/ /\ op.file.kind # "L"
         /\ versions' = Change(versions, (versions.now \ {op.file}) \union {new})
         /\ Continue("finish", <<"versions">>) /\ UNCHANGED objects
  BY DEF Retag
<1> HIDE DEF new
<1>5. /\ <<"objects">> \in Seq(Barriers) /\ <<"versions">> \in Seq(Barriers)
      /\ "finish" \in Phases
  BY BarrierSequences DEF Barriers, Phases
<1>6. op' \in Operation /\ op'.kind = op.kind /\ op'.phase = "finish"
  BY <1>1, <1>4, <1>5, Continued
<1>7. DirectoriesGood'
  <2>1. CASE op.file.kind = "L" /\ objects' = Change(objects, new)
                                /\ UNCHANGED versions
    <3>1. new \in Legacies
      BY <1>3, <2>1 DEF Legacies
    <3> QED
      BY <1>1, <2>1, <3>1, ChangedObjects
  <2>2. CASE /\ op.file.kind # "L" /\ UNCHANGED objects
             /\ versions' = Change(versions,
                                   (versions.now \ {op.file}) \union {new})
    <3>1. (versions.now \ {op.file}) \union {new} \in Generations
      BY <1>2, <1>3, <2>2, Contents, OtherFile
    <3> QED
      BY <1>1, <2>2, <3>1, ChangedVersions
  <2> QED
    BY <1>4, <2>1, <2>2
<1> QED
  BY <1>1, <1>6, <1>7, ClientKeeps DEF FilesInv, OperationGood

LEMMA AnnotateKeeps ==
    ASSUME FilesInv, Annotate \/ Unannotate
    PROVE  FilesInv'
<1>1. /\ open /\ op.kind # "recover" /\ op \in Operation
      /\ UNCHANGED <<objects, versions, configuration, staged, open, written>>
      /\ Continue("finish", <<"notes">>) \/ Continue("finish", <<>>)
  BY ClientHolds DEF Annotate, Unannotate, InPhase
<1>2. /\ <<"notes">> \in Seq(Barriers) /\ <<>> \in Seq(Barriers)
      /\ "finish" \in Phases
  BY BarrierSequences DEF Barriers, Phases
<1>3. op' \in Operation /\ op'.kind = op.kind /\ op'.phase = "finish"
  <2>1. CASE Continue("finish", <<"notes">>)
    BY <1>1, <1>2, <2>1, Continued
  <2>2. CASE Continue("finish", <<>>)
    BY <1>1, <1>2, <2>2, Continued
  <2> QED
    BY <1>1, <2>1, <2>2
<1> QED
  BY <1>1, <1>3, SameDirectories, ClientKeeps DEF FilesInv, OperationGood

(***************************************************************************)
(* Clients                                                                 *)
(***************************************************************************)
LEMMA StageKeeps ==
    ASSUME FilesInv, Stage \/ \E b \in staged : Unstage(b)
    PROVE  FilesInv'
<1>1. /\ UNCHANGED <<objects, versions, configuration, op, open>>
      /\ staged' \subseteq Nat /\ written' \in Nat
  <2>1. staged \subseteq Nat /\ written \in Nat
    BY DEF FilesInv, OperationGood
  <2>2. CASE Stage
    BY <2>1, <2>2 DEF Stage, directories
  <2>3. CASE \E b \in staged : Unstage(b)
    BY <2>1, <2>3 DEF Unstage, directories
  <2> QED
    BY <2>2, <2>3
<1>2. DirectoriesGood'
  BY <1>1, SameDirectories
<1>3. OperationGood' /\ RecoveryGood'
  BY <1>1 DEF FilesInv, OperationGood, RecoveryGood
<1> QED
  BY <1>2, <1>3 DEF FilesInv

\* A client takes the gate for a fresh operation.
LEMMA AcquireKeeps ==
    ASSUME FilesInv, NEW operation \in Operation, Acquire(operation),
           operation.kind # "recover", operation.phase # "retag",
           DirectoriesGood', staged' \subseteq Nat, written' \in Nat, UNCHANGED open
    PROVE  FilesInv'
BY ClientKeeps DEF Acquire

LEMMA BeginPutKeeps ==
    ASSUME FilesInv, NEW b \in staged, NEW kind \in {"put", "create", "copy"},
           BeginPut(b, kind)
    PROVE  FilesInv'
<1> DEFINE phase == IF kind = "copy" THEN "copyNotes" ELSE "publish"
           put == [NoOp EXCEPT !.kind = kind, !.body = b, !.phase = phase]
<1>1. /\ UNCHANGED <<objects, versions, configuration, open, written>>
      /\ staged' \subseteq Nat /\ written' \in Nat /\ b \in Nat
      /\ Acquire(put)
  BY DEF BeginPut, directories, FilesInv, OperationGood
<1>2. kind \in OperationKinds \ {"recover"} /\ phase \in Phases \ {"retag"}
  BY DEF OperationKinds, AllOperations, Phases
<1> HIDE DEF phase
<1>3. put \in Operation /\ put.kind = kind /\ put.phase = phase
  BY <1>1, <1>2, NoOpIsOperation DEF Operation
<1> HIDE DEF put
<1> QED
  BY <1>1, <1>2, <1>3, SameDirectories, AcquireKeeps

LEMMA BeginCompleteKeeps ==
    ASSUME FilesInv, BeginComplete
    PROVE  FilesInv'
<1> DEFINE completion == [NoOp EXCEPT !.kind = "complete", !.body = written + 1,
                                      !.phase = "publish"]
<1>1. /\ UNCHANGED <<objects, versions, configuration, open, staged>>
      /\ staged' \subseteq Nat /\ written' \in Nat /\ written + 1 \in Nat
      /\ Acquire(completion)
  BY DEF BeginComplete, directories, FilesInv, OperationGood
<1>2. "complete" \in OperationKinds /\ "publish" \in Phases
  BY DEF OperationKinds, AllOperations, Phases
<1>3. /\ completion \in Operation /\ completion.kind = "complete"
      /\ completion.phase = "publish"
  BY <1>1, <1>2, NoOpIsOperation DEF Operation
<1> HIDE DEF completion
<1> QED
  BY <1>1, <1>3, SameDirectories, AcquireKeeps

LEMMA BeginDeleteKeeps ==
    ASSUME FilesInv, NEW entries \in Batches, BeginDelete(entries)
    PROVE  FilesInv'
<1> DEFINE batch == [NoOp EXCEPT !.kind = "delete", !.phase = "entry",
                                 !.entries = entries]
<1>1. /\ UNCHANGED <<objects, versions, configuration, open, staged, written>>
      /\ staged' \subseteq Nat /\ written' \in Nat
      /\ Acquire(batch)
  BY DEF BeginDelete, directories, FilesInv, OperationGood
<1>2. entries \in Seq(Entries)
  <2>1. \A e \in Entries : <<e>> \in Seq(Entries)
    OBVIOUS
  <2>2. \A d, e \in Entries : <<d, e>> \in Seq(Entries)
    OBVIOUS
  <2>3. \A b \in Entries \X Entries : b \in Seq(Entries)
    <3> SUFFICES ASSUME NEW b \in Entries \X Entries
                 PROVE  b \in Seq(Entries)
      OBVIOUS
    <3>1. PICK d \in Entries, e \in Entries : b = <<d, e>>
      OBVIOUS
    <3> QED
      BY <2>2, <3>1
  <2> QED
    BY <2>1, <2>3 DEF Batches
<1>3. "delete" \in OperationKinds /\ "entry" \in Phases
  BY DEF OperationKinds, AllOperations, Phases
<1>4. batch \in Operation /\ batch.kind = "delete" /\ batch.phase = "entry"
  BY <1>2, <1>3, NoOpIsOperation DEF Operation
<1> HIDE DEF batch
<1> QED
  BY <1>1, <1>4, SameDirectories, AcquireKeeps

LEMMA BeginUpdateKeeps ==
    ASSUME FilesInv, NEW kind \in {"retag", "annotate", "unannotate"},
           NEW selector \in Selectors, BeginUpdate(kind, selector)
    PROVE  FilesInv'
<1> DEFINE file == Select(selector)
           update == [NoOp EXCEPT !.kind = kind, !.phase = kind,
                                  !.body = file.body, !.file = file]
<1>1. /\ UNCHANGED <<objects, versions, configuration, open, staged, written>>
      /\ file # None /\ open /\ op' = update
  BY DEF BeginUpdate, Acquire, IsObject, directories
<1>2. /\ file \in Files
      /\ file.kind # "L" => file \in versions.now
  BY <1>1, Selected
<1>3. kind \in OperationKinds \ {"recover"} /\ kind \in Phases
  BY DEF OperationKinds, AllOperations, Phases
<1> HIDE DEF file
<1>4. /\ update \in Operation /\ update.kind = kind /\ update.phase = kind
      /\ update.file = file
  <2>1. file.body \in Nat /\ file \in Files \union {None}
    BY <1>2 DEF Files
  <2> QED
    BY <1>3, <2>1, NoOpIsOperation DEF Operation
<1> HIDE DEF update
<1>5. OperationGood' /\ RecoveryGood'
  BY <1>1, <1>2, <1>3, <1>4 DEF FilesInv, OperationGood, RecoveryGood
<1> QED
  BY <1>1, <1>5, SameDirectories DEF FilesInv

LEMMA PutStatusKeeps ==
    ASSUME FilesInv, NEW status \in {"Enabled", "Suspended"}, PutStatus(status)
    PROVE  FilesInv'
<1> DEFINE put == [NoOp EXCEPT !.kind = "status", !.syncs = <<"configuration">>]
<1>1. /\ UNCHANGED <<objects, versions, open, staged, written>>
      /\ staged' \subseteq Nat /\ written' \in Nat
      /\ configuration' = Change(configuration, status) /\ Acquire(put)
  BY DEF PutStatus, FilesInv, OperationGood
<1>2. "status" \in OperationKinds /\ <<"configuration">> \in Seq(Barriers)
  BY BarrierSequences DEF OperationKinds, AllOperations, Barriers
<1>3. put \in Operation /\ put.kind = "status" /\ put.phase = NoOp.phase
  BY <1>2, NoOpIsOperation DEF Operation
<1>4. NoOp.phase = "finish"
  BY DEF NoOp
<1>5. DirectoriesGood'
  BY <1>1, ChangedDirectory DEF FilesInv, DirectoriesGood, Statuses
<1> HIDE DEF put
<1> QED
  BY <1>1, <1>3, <1>4, <1>5, AcquireKeeps

(***************************************************************************)
(* Faults and recovery                                                     *)
(***************************************************************************)
LEMMA SyncFailsKeeps ==
    ASSUME FilesInv, SyncFails
    PROVE  FilesInv'
BY SameDirectories, IdleKeeps DEF SyncFails, FilesInv, OperationGood

LEMMA CrashKeeps ==
    ASSUME FilesInv, Crash
    PROVE  FilesInv'
BY SameDirectories, IdleKeeps DEF Crash, directories, FilesInv, OperationGood

LEMMA PowerLossKeeps ==
    ASSUME FilesInv, PowerLoss
    PROVE  FilesInv'
<1>1. DirectoriesGood'
  BY FreshDirectory DEF PowerLoss, FilesInv, DirectoriesGood
<1>2. op' = None /\ staged' \subseteq Nat /\ written' \in Nat
  BY DEF PowerLoss, FilesInv, OperationGood
<1> QED
  BY <1>1, <1>2, IdleKeeps

LEMMA ReopenKeeps ==
    ASSUME FilesInv, Reopen
    PROVE  FilesInv'
<1> DEFINE nulls == NullFiles(versions.now)
           latest == Newest(nulls)
           recovery == [NoOp EXCEPT !.kind = "recover", !.phase = "supersede",
                                    !.file = latest, !.keep = latest.pub]
<1>1. /\ ~open /\ op = None
      /\ UNCHANGED <<objects, versions, configuration, staged, written>>
      /\ staged' \subseteq Nat /\ written' \in Nat
  BY DEF Reopen, directories, FilesInv, OperationGood
<1>2. DirectoriesGood'
  BY <1>1, SameDirectories
<1>3. CASE op' = None
  BY <1>1, <1>2, <1>3, IdleKeeps
<1>4. CASE nulls # {} /\ latest.kind = "T" /\ op' = recovery
  <2>1. nulls \in SUBSET Files /\ Numbered(nulls)
    BY Contents DEF NullFiles, Numbered
  <2>2. latest \in Files
    <3> HIDE DEF nulls
    <3> QED
      BY <1>4, <2>1, NewestIsLast
  <2> HIDE DEF latest
  <2>3. latest \in Files \union {None} /\ latest.pub \in Nat /\ latest # None
    BY <2>2, NoneIsNoFile DEF Files
  <2>4. "recover" \in OperationKinds /\ "supersede" \in Phases
    BY DEF OperationKinds, Phases
  <2>5. /\ recovery \in Operation /\ recovery.kind = "recover"
        /\ recovery.phase = "supersede" /\ recovery.file = latest
    BY <2>3, <2>4, NoOpIsOperation DEF Operation
  <2> HIDE DEF recovery
  <2>6. OperationGood' /\ RecoveryGood'
    BY <1>1, <1>4, <2>3, <2>5 DEF OperationGood, RecoveryGood
  <2> QED
    BY <1>2, <2>6 DEF FilesInv
<1> QED
  BY <1>1, <1>3, <1>4 DEF Reopen

(***************************************************************************)
(* The theorems                                                            *)
(***************************************************************************)
LEMMA InitInv == Init => FilesInv
<1> SUFFICES ASSUME Init PROVE FilesInv
  OBVIOUS
<1>1. None \in Legacies /\ {} \in Generations /\ "Unconfigured" \in Statuses
  BY DEF Legacies, Generations, Numbered, Unique, Statuses
<1>2. DirectoriesGood
  BY <1>1 DEF Init, DirectoriesGood, Directory, Fresh
<1> QED
  BY <1>2 DEF Init, FilesInv, OperationGood, RecoveryGood

LEMMA NextInv == FilesInv /\ [Next]_vars => FilesInv'
<1> SUFFICES ASSUME FilesInv, [Next]_vars PROVE FilesInv'
  OBVIOUS
<1>1. CASE Stage \/ \E b \in staged : Unstage(b)
  BY <1>1, StageKeeps
<1>2. CASE Begin
  BY <1>2, BeginPutKeeps, BeginCompleteKeeps, BeginDeleteKeeps,
     BeginUpdateKeeps, PutStatusKeeps DEF Begin
<1>3. CASE Proceed
  BY <1>3, SyncDirectoryKeeps, FinishKeeps, CopyNotesKeeps, PublishKeeps,
     RetireNotesKeeps, RemoveSupersededKeeps, RemoveLegacyKeeps, EntombKeeps,
     DeleteNothingKeeps, PublishMarkerKeeps, RemoveNotesKeeps, UnlinkKeeps,
     EndBatchKeeps, RetagKeeps, AnnotateKeeps DEF Proceed
<1>4. CASE SyncFails \/ Crash \/ PowerLoss \/ Reopen
  BY <1>4, SyncFailsKeeps, CrashKeeps, PowerLossKeeps, ReopenKeeps
<1>5. CASE UNCHANGED vars
  <2>1. UNCHANGED <<objects, versions, configuration, staged, written, op, open>>
    BY <1>5 DEF vars, directories
  <2>2. DirectoriesGood'
    BY <2>1, SameDirectories
  <2>3. OperationGood' /\ RecoveryGood'
    BY <2>1 DEF FilesInv, OperationGood, RecoveryGood
  <2> QED
    BY <2>2, <2>3 DEF FilesInv
<1> QED
  BY <1>1, <1>2, <1>3, <1>4, <1>5 DEF Next

\* The inductive invariant holds in every reachable state.
THEOREM FilesInvariant == Spec => []FilesInv
<1> QED
  BY InitInv, NextInv, PTL DEF Spec

\* Whatever crashes, power losses and failing barriers strike, and at whatever
\* step of Put, Delete, tagging or recovery, no directory that may come back
\* has two generation files with one publication number.
THEOREM NumbersAreUnique == Spec => []OnePublicationOneFile
<1>1. FilesInv => OnePublicationOneFile
  BY DEF FilesInv, DirectoriesGood, Directory, Generations, Outcomes, Unique,
         OnePublicationOneFile
<1> QED
  BY <1>1, FilesInvariant, PTL

\* A store that is Power_Loss_Durable never names a record, in any directory
\* that a power loss may bring back, whose bytes were not synchronised.
THEOREM RecordsAreWhole == Spec => []NoTornRecord
<1>1. FilesInv => NoTornRecord
  BY DEF FilesInv, DirectoriesGood, Directory, Generations, Legacies, Outcomes,
         OnDevice, NoTornRecord
<1> QED
  BY <1>1, FilesInvariant, PTL

\* When Open has recovered the store, the tombstone, the null generations it
\* covered and the record at the object path are gone.
THEOREM OpenLeavesNoTombstone == Spec => RecoveryCompletes
<1> DEFINE Done == LET nulls == NullFiles(versions'.now)
                   IN  /\ nulls # {} => Newest(nulls).kind # "T"
                       /\ op # None => nulls = {} /\ objects'.now = None
<1>1. ASSUME FilesInv, [Next]_vars, ~open, open'
      PROVE  Done
  <2>1. op = None \/ op.kind = "recover"
    BY <1>1 DEF FilesInv, RecoveryGood
  <2>2. CASE Finish
    <3>1. /\ op # None /\ op.phase = "finish"
          /\ objects'.now = objects.now /\ versions'.now = versions.now
      BY <2>2 DEF Finish, InPhase, directories
    <3> QED
      BY <1>1, <2>1, <3>1 DEF FilesInv, RecoveryGood
  <2>3. CASE Reopen
    <3>1. /\ op = None /\ versions'.now = versions.now
          /\ LET nulls == NullFiles(versions.now)
             IN  nulls # {} => Newest(nulls).kind # "T"
      BY <1>1, <2>3 DEF Reopen, directories
    <3> QED
      BY <3>1
  <2>4. CASE ~Finish /\ ~Reopen
    <3>1. open' = open \/ ~open'
      BY <1>1, <2>4
      DEF Next, Stage, Unstage, Begin, BeginPut, BeginComplete, BeginDelete,
          BeginUpdate, PutStatus, Proceed, SyncDirectory, CopyNotes, Publish,
          RetireNotes, RemoveSuperseded, RemoveLegacy, Entomb, DeleteNothing,
          PublishMarker, RemoveNotes, Unlink, EndBatch, Retag, Annotate,
          Unannotate, SyncFails, Crash, PowerLoss, vars
    <3> QED
      BY <1>1, <3>1
  <2> QED
    BY <2>2, <2>3, <2>4
<1>2. FilesInv /\ [Next]_vars => [~open /\ open' => Done]_vars
  BY <1>1
<1> QED
  BY <1>2, FilesInvariant, PTL DEF Spec, RecoveryCompletes

(***************************************************************************)
(* Barriers: a directory that a power loss may change is one whose barrier *)
(* the operation under way still has to run, as long as nothing but the    *)
(* power failed.                                                           *)
(***************************************************************************)
FaultKinds == {"process", "power", "device"}

Settled(d) == Outcomes(d) = {d.now}

Rest == Settled(objects) /\ Settled(versions) /\ Settled(configuration)

\* The operation has yet to wait for the barrier of directory d.
Due(d) == \E i \in DOMAIN op.syncs : op.syncs[i] = d

ObjectsSettle ==
    Settled(objects) \/ /\ op # None
                        /\ \/ Due("objects")
                           \/ op.phase = "retire" /\ op.file.kind = "L"

VersionsSettle ==
    Settled(versions) \/ /\ op # None
                         /\ \/ Due("versions") \/ op.phase = "supersede"
                            \/ op.phase = "retire" /\ op.file.kind # "L"

ConfigurationSettles ==
    Settled(configuration) \/ /\ op # None /\ op.kind = "status"
                              /\ Due("configuration")

BarriersGood ==
    /\ faults \in Seq(FaultKinds)
    /\ Undamaged => ObjectsSettle /\ VersionsSettle /\ ConfigurationSettles

LEMMA SamePower ==
    ASSUME UNCHANGED faults
    PROVE  (PowerMayFail' <=> PowerMayFail) /\ (Undamaged' <=> Undamaged)
BY DEF PowerMayFail, Undamaged

LEMMA StillSettled ==
    ASSUME UNCHANGED faults
    PROVE  /\ Settled(objects) /\ UNCHANGED objects => Settled(objects)'
           /\ Settled(versions) /\ UNCHANGED versions => Settled(versions)'
           /\ Settled(configuration) /\ UNCHANGED configuration =>
                 Settled(configuration)'
BY SamePower DEF Settled, Outcomes

\* Where every directory is settled, a step that changes none leaves it so.
LEMMA RestStays ==
    ASSUME Rest, UNCHANGED <<objects, versions, configuration, faults>>
    PROVE  Rest' /\ (faults \in Seq(FaultKinds) => BarriersGood')
<1>1. Rest'
  BY StillSettled DEF Rest
<1> QED
  BY <1>1 DEF Rest, BarriersGood, ObjectsSettle, VersionsSettle,
              ConfigurationSettles

\* The operation waits for no barrier.
LEMMA NothingDue ==
    ASSUME op.syncs = <<>>
    PROVE  ~Due("objects") /\ ~Due("versions") /\ ~Due("configuration")
BY DEF Due

LEMMA AtRest ==
    ASSUME BarriersGood, Undamaged,
           \/ op = None
           \/ op.syncs = <<>> /\ op.phase \notin {"retire", "supersede"}
    PROVE  Rest
BY NothingDue DEF BarriersGood, Rest, ObjectsSettle, VersionsSettle,
                  ConfigurationSettles

\* The operation goes on, with these barriers to wait for.
LEMMA ContinuedDue ==
    ASSUME op \in Operation, NEW phase \in Phases, NEW syncs \in Seq(Barriers),
           Continue(phase, syncs)
    PROVE  /\ op' # None /\ op'.kind = op.kind /\ op'.file = op.file
           /\ op'.phase = phase /\ op'.syncs = syncs
<1>1. op'.syncs = syncs
  BY DEF Continue, Operation
<1> QED
  BY <1>1, Continued

LEMMA PublicationIsRetired ==
    ASSUME FilesInv, Publish
    PROVE  /\ op' # None /\ op'.phase = "retire"
           /\ op'.file = NewRecord
           /\ Status = "Unconfigured" <=> op'.file.kind = "L"
<1>1. op \in Operation
  BY DEF Publish, InPhase, FilesInv, OperationGood
<1>2. /\ NewRecord \in Files
      /\ Status = "Unconfigured" <=> NewRecord.kind = "L"
  BY <1>1, NewRecordIsFile
<1>3. /\ op' = [op EXCEPT !.phase = "retire", !.retire = RetiredNotes,
                          !.file = NewRecord, !.keep = NewRecord.pub]
  BY DEF Publish
<1>4. op'.phase = "retire" /\ op'.file = NewRecord
  BY <1>1, <1>3 DEF Operation
<1>5. None.kind = "none"
  BY DEF None
<1>6. op' # None
  BY <1>1, <1>3 DEF None, Operation
<1> QED
  BY <1>2, <1>4, <1>6

LEMMA SyncDirectorySettles ==
    ASSUME FilesInv, BarriersGood, SyncDirectory
    PROVE  BarriersGood'
<1>1. /\ op \in Operation /\ op.syncs # <<>> /\ op # None
      /\ UNCHANGED faults
  BY DEF SyncDirectory, FilesInv, OperationGood, history
<1> DEFINE head == Head(op.syncs)
<1>2. op' = [op EXCEPT !.syncs = Tail(@)]
  BY DEF SyncDirectory
<1>3. /\ op'.syncs = Tail(op.syncs)
      /\ op'.kind = op.kind /\ op'.phase = op.phase /\ op'.file = op.file
  BY <1>1, <1>2 DEF Operation
<1>4. op.syncs \in Seq(Barriers)
  BY <1>1 DEF Operation
<1>5. op' # None
  BY <1>1, <1>2 DEF None, Operation
<1>6. \A d \in Barriers \ {head} : Due(d) => Due(d)'
  <2> SUFFICES ASSUME NEW d \in Barriers \ {head}, Due(d) PROVE Due(d)'
    OBVIOUS
  <2>1. PICK i \in 1..Len(op.syncs) : op.syncs[i] = d
    BY <1>4 DEF Due
  <2>2. i # 1
    BY <1>1, <1>4, <2>1
  <2>3. Tail(op.syncs)[i - 1] = d /\ i - 1 \in 1..Len(Tail(op.syncs))
    BY <1>1, <1>4, <2>1, <2>2
  <2>4. i - 1 \in DOMAIN Tail(op.syncs)
    BY <1>1, <1>4, <2>3
  <2> QED
    BY <1>3, <2>3, <2>4 DEF Due
<1>7. (Commit # "Power_Loss_Durable" \/ head = "objects") => Settled(objects)'
  BY <1>1 DEF SyncDirectory, Settled, Outcomes, PowerMayFail, Synced, SyncPath, Fresh
<1>8. (Commit # "Power_Loss_Durable" \/ head = "versions") => Settled(versions)'
  BY <1>1 DEF SyncDirectory, Settled, Outcomes, PowerMayFail, Synced, SyncPath, Fresh
<1>9. (Commit # "Power_Loss_Durable" \/ head = "configuration") => Settled(configuration)'
  BY <1>1 DEF SyncDirectory, Settled, Outcomes, PowerMayFail, Synced, SyncPath, Fresh
<1>10. /\ head # "objects" => UNCHANGED objects
       /\ head # "versions" => UNCHANGED versions
       /\ head # "configuration" => UNCHANGED configuration
  BY DEF SyncDirectory
<1>11. faults' \in Seq(FaultKinds) /\ (Undamaged' => Undamaged)
  BY <1>1, SamePower DEF BarriersGood
<1>12. {"objects", "versions", "configuration"} \subseteq Barriers
  BY DEF Barriers
<1>13. ASSUME ObjectsSettle PROVE ObjectsSettle'
  <2>1. CASE head = "objects"
    BY <1>7, <2>1 DEF ObjectsSettle
  <2>2. CASE head # "objects"
    BY <1>1, <1>3, <1>5, <1>6, <1>10, <1>12, <1>13, <2>2, StillSettled DEF ObjectsSettle
  <2> QED
    BY <2>1, <2>2
<1>14. ASSUME VersionsSettle PROVE VersionsSettle'
  <2>1. CASE head = "versions"
    BY <1>8, <2>1 DEF VersionsSettle
  <2>2. CASE head # "versions"
    BY <1>1, <1>3, <1>5, <1>6, <1>10, <1>12, <1>14, <2>2, StillSettled DEF VersionsSettle
  <2> QED
    BY <2>1, <2>2
<1>15. ASSUME ConfigurationSettles PROVE ConfigurationSettles'
  <2>1. CASE head = "configuration"
    BY <1>9, <2>1 DEF ConfigurationSettles
  <2>2. CASE head # "configuration"
    BY <1>1, <1>3, <1>5, <1>6, <1>10, <1>12, <1>15, <2>2, StillSettled DEF ConfigurationSettles
  <2> QED
    BY <2>1, <2>2
<1> QED
  BY <1>11, <1>13, <1>14, <1>15 DEF BarriersGood

\* A step that changes one directory has its barrier ahead.
LEMMA ObjectsChange ==
    ASSUME Rest, faults \in Seq(FaultKinds), UNCHANGED <<versions, configuration, faults>>,
           op' # None, Due("objects")' \/ (op'.phase = "retire" /\ op'.file.kind = "L")
    PROVE  BarriersGood'
BY StillSettled DEF Rest, BarriersGood, ObjectsSettle, VersionsSettle,
                    ConfigurationSettles

LEMMA VersionsChange ==
    ASSUME Rest, faults \in Seq(FaultKinds), UNCHANGED <<objects, configuration, faults>>,
           op' # None,
           Due("versions")' \/ (op'.phase = "retire" /\ op'.file.kind # "L")
    PROVE  BarriersGood'
BY StillSettled DEF Rest, BarriersGood, ObjectsSettle, VersionsSettle,
                    ConfigurationSettles

\* While nothing failed, what the steps of one operation leave to its barriers.
LEMMA PublicationSettles ==
    ASSUME FilesInv, BarriersGood, Undamaged, Publish \/ RetireNotes
    PROVE  BarriersGood'
<1>1. /\ op \in Operation /\ op # None /\ op.syncs = <<>> /\ UNCHANGED faults
      /\ faults \in Seq(FaultKinds) /\ UNCHANGED configuration
  BY DEF Publish, RetireNotes, InPhase, FilesInv, OperationGood, BarriersGood
<1>2. CASE Publish
  <2>1. Rest
    BY <1>1, <1>2, AtRest DEF Publish, InPhase
  <2>2. /\ op' # None /\ op'.phase = "retire"
        /\ Status = "Unconfigured" <=> op'.file.kind = "L"
    BY <1>2, PublicationIsRetired
  <2> QED
    BY <1>1, <1>2, <2>1, <2>2, ObjectsChange, VersionsChange DEF Publish
<1>3. CASE RetireNotes
  <2> DEFINE target == IF op.file.kind = "L" THEN <<"objects">> ELSE <<"versions">>
             next == IF op.file.kind = "N" THEN "supersede" ELSE "finish"
  <2>1. /\ op.phase = "retire" /\ UNCHANGED <<objects, versions>>
        /\ Continue(next, <<"notes">> \o target) \/ Continue(next, target)
    BY <1>3 DEF RetireNotes, InPhase
  <2>2. /\ target \in Seq(Barriers) /\ <<"notes">> \o target \in Seq(Barriers)
        /\ next \in Phases
    BY BarrierSequences DEF Barriers, Phases
  <2>3. /\ op' # None
        /\ op'.syncs = target \/ op'.syncs = <<"notes">> \o target
    <3> HIDE DEF next, target
    <3> QED
      BY <1>1, <2>1, <2>2, ContinuedDue
  <2>4. IF op.file.kind = "L" THEN Due("objects")' ELSE Due("versions")'
    <3>1. op'.syncs[Len(op'.syncs)] = target[1] /\ Len(op'.syncs) \in DOMAIN op'.syncs
      BY <2>3
    <3> QED
      BY <3>1 DEF Due
  <2>5. /\ Settled(configuration)'
        /\ op.file.kind # "L" => Settled(objects)'
        /\ op.file.kind = "L" => Settled(versions)'
    BY <1>1, <2>1, NothingDue, StillSettled
    DEF BarriersGood, ObjectsSettle, VersionsSettle, ConfigurationSettles
  <2> QED
    BY <1>1, <2>3, <2>4, <2>5 DEF BarriersGood, ObjectsSettle, VersionsSettle,
                                  ConfigurationSettles
<1> QED
  BY <1>2, <1>3

LEMMA RemovalSettles ==
    ASSUME FilesInv, BarriersGood, Undamaged,
           (\E f \in Superseded : RemoveSuperseded(f)) \/ RemoveLegacy \/ Entomb
    PROVE  BarriersGood'
<1>1. /\ op \in Operation /\ op # None /\ op.syncs = <<>> /\ UNCHANGED faults
      /\ faults \in Seq(FaultKinds) /\ UNCHANGED configuration
  BY DEF RemoveSuperseded, RemoveLegacy, Entomb, InPhase, FilesInv,
         OperationGood, BarriersGood
<1>2. Settled(configuration)'
  BY <1>1, NothingDue, StillSettled DEF BarriersGood, ConfigurationSettles
<1>3. /\ <<"versions">> \in Seq(Barriers) /\ <<"notes">> \in Seq(Barriers)
      /\ <<"objects", "versions">> \in Seq(Barriers)
      /\ {"supersede", AfterSuperseded, Afterwards} \subseteq Phases
  BY BarrierSequences DEF Barriers, Phases, AfterSuperseded, Afterwards
<1>4. CASE Entomb
  <2>1. Rest
    BY <1>1, <1>4, AtRest DEF Entomb, InPhase
  <2>2. op' # None /\ op'.syncs = <<"versions">>
    BY <1>1, <1>3, <1>4, ContinuedDue DEF Entomb
  <2>3. Due("versions")'
    BY <2>2 DEF Due
  <2> QED
    BY <1>1, <1>4, <2>1, <2>2, <2>3, VersionsChange DEF Entomb
<1>5. CASE ~Entomb
  <2>1. op.phase = "supersede"
    BY <1>5 DEF RemoveSuperseded, RemoveLegacy, InPhase
  <2>2. Settled(objects)
    BY <1>1, <2>1, NothingDue DEF BarriersGood, ObjectsSettle
  <2>3. \/ /\ UNCHANGED objects
           /\ op' = op \/ Continue("supersede", <<"notes">>)
        \/ /\ UNCHANGED objects /\ Continue(AfterSuperseded, <<"versions">>)
        \/ Continue(AfterSuperseded, <<"objects", "versions">>)
    BY <1>5 DEF RemoveSuperseded, RemoveLegacy
  <2>4. CASE UNCHANGED objects /\ (op' = op \/ Continue("supersede", <<"notes">>))
    <3>1. op' # None /\ op'.phase = "supersede"
      BY <1>1, <1>3, <2>1, <2>4, ContinuedDue
    <3>2. Settled(objects)'
      BY <1>1, <2>2, <2>4, StillSettled
    <3> QED
      BY <1>1, <1>2, <3>1, <3>2 DEF BarriersGood, ObjectsSettle, VersionsSettle,
                                    ConfigurationSettles
  <2>5. CASE UNCHANGED objects /\ Continue(AfterSuperseded, <<"versions">>)
    <3>1. op' # None /\ op'.syncs = <<"versions">>
      BY <1>1, <1>3, <2>5, ContinuedDue
    <3>2. Due("versions")' /\ Settled(objects)'
      BY <1>1, <2>2, <2>5, <3>1, StillSettled DEF Due
    <3> QED
      BY <1>1, <1>2, <3>1, <3>2 DEF BarriersGood, ObjectsSettle, VersionsSettle,
                                    ConfigurationSettles
  <2>6. CASE Continue(AfterSuperseded, <<"objects", "versions">>)
    <3>1. op' # None /\ op'.syncs = <<"objects", "versions">>
      BY <1>1, <1>3, <2>6, ContinuedDue
    <3>2. /\ op'.syncs[1] = "objects" /\ 1 \in DOMAIN op'.syncs
          /\ op'.syncs[2] = "versions" /\ 2 \in DOMAIN op'.syncs
      BY <3>1
    <3>3. Due("objects")' /\ Due("versions")'
      BY <3>2 DEF Due
    <3> QED
      BY <1>1, <1>2, <3>1, <3>3 DEF BarriersGood, ObjectsSettle, VersionsSettle,
                                    ConfigurationSettles
  <2> QED
    BY <2>3, <2>4, <2>5, <2>6
<1> QED
  BY <1>4, <1>5

LEMMA DeletionSettles ==
    ASSUME FilesInv, BarriersGood, Undamaged,
           DeleteNothing \/ PublishMarker \/ RemoveNotes \/ Unlink
    PROVE  BarriersGood'
<1>1. /\ op \in Operation /\ op # None /\ op.syncs = <<>> /\ UNCHANGED faults
      /\ faults \in Seq(FaultKinds) /\ UNCHANGED configuration
      /\ op.phase \in {"entry", "unlink"}
  BY DEF DeleteNothing, PublishMarker, RemoveNotes, Unlink, InPhase, FilesInv,
         OperationGood, BarriersGood, directories, history
<1>2. Rest
  BY <1>1, AtRest
<1>3. CASE DeleteNothing \/ RemoveNotes
  BY <1>1, <1>2, <1>3, RestStays DEF DeleteNothing, RemoveNotes, directories
<1>4. CASE PublishMarker
  <2> DEFINE kind == EntryEffect(Head(op.entries))
             marker == SyncFile(Record(NextPublication, kind, 0,
                                       PathId(NextPublication, kind)))
             next == NextEntry(IF kind = "M" THEN "entry" ELSE "supersede", marker)
  <2>1. op' = [next EXCEPT !.keep = marker.pub, !.syncs = <<"versions">>]
    BY <1>4 DEF PublishMarker
  <2>2. next = [op EXCEPT !.phase = next.phase, !.file = marker, !.entries = Tail(@)]
    BY <1>1 DEF NextEntry, Operation
  <2> HIDE DEF kind, marker, next
  <2>3. op'.syncs = <<"versions">> /\ op' # None
    BY <1>1, <2>1, <2>2 DEF Operation, None
  <2>4. Due("versions")'
    BY <2>3 DEF Due
  <2> QED
    BY <1>1, <1>2, <1>4, <2>3, <2>4, VersionsChange DEF PublishMarker
<1>5. CASE Unlink
  <2>1. /\ <<"versions">> \in Seq(Barriers) /\ <<"objects">> \in Seq(Barriers)
        /\ "entry" \in Phases
    BY BarrierSequences DEF Barriers, Phases
  <2>2. CASE Continue("entry", <<"objects">>) /\ UNCHANGED versions
    <3>1. op' # None /\ op'.syncs = <<"objects">>
      BY <1>1, <2>1, <2>2, ContinuedDue
    <3>2. Due("objects")'
      BY <3>1 DEF Due
    <3> QED
      BY <1>1, <1>2, <2>2, <3>1, <3>2, ObjectsChange
  <2>3. CASE Continue("entry", <<"versions">>) /\ UNCHANGED objects
    <3>1. op' # None /\ op'.syncs = <<"versions">>
      BY <1>1, <2>1, <2>3, ContinuedDue
    <3>2. Due("versions")'
      BY <3>1 DEF Due
    <3> QED
      BY <1>1, <1>2, <2>3, <3>1, <3>2, VersionsChange
  <2> QED
    BY <1>5, <2>2, <2>3 DEF Unlink
<1> QED
  BY <1>3, <1>4, <1>5

LEMMA UpdateSettles ==
    ASSUME FilesInv, BarriersGood, Undamaged,
           Finish \/ EndBatch \/ CopyNotes \/ Retag \/ Annotate \/ Unannotate
    PROVE  BarriersGood'
<1>1. /\ op \in Operation /\ op # None /\ op.syncs = <<>> /\ UNCHANGED faults
      /\ faults \in Seq(FaultKinds) /\ UNCHANGED configuration
      /\ op.phase \in {"finish", "entry", "copyNotes", "retag", "annotate",
                       "unannotate"}
  BY DEF Finish, EndBatch, CopyNotes, Retag, Annotate, Unannotate, InPhase,
         FilesInv, OperationGood, BarriersGood, directories, history
<1>2. Rest
  BY <1>1, AtRest
<1>3. CASE ~Retag
  BY <1>1, <1>2, <1>3, RestStays
  DEF Finish, EndBatch, CopyNotes, Annotate, Unannotate, directories
<1>4. CASE Retag
  <2>1. /\ <<"versions">> \in Seq(Barriers) /\ <<"objects">> \in Seq(Barriers)
        /\ "finish" \in Phases
    BY BarrierSequences DEF Barriers, Phases
  <2>2. CASE Continue("finish", <<"objects">>) /\ UNCHANGED versions
    <3>1. op' # None /\ op'.syncs = <<"objects">>
      BY <1>1, <2>1, <2>2, ContinuedDue
    <3>2. Due("objects")'
      BY <3>1 DEF Due
    <3> QED
      BY <1>1, <1>2, <2>2, <3>1, <3>2, ObjectsChange
  <2>3. CASE Continue("finish", <<"versions">>) /\ UNCHANGED objects
    <3>1. op' # None /\ op'.syncs = <<"versions">>
      BY <1>1, <2>1, <2>3, ContinuedDue
    <3>2. Due("versions")'
      BY <3>1 DEF Due
    <3> QED
      BY <1>1, <1>2, <2>3, <3>1, <3>2, VersionsChange
  <2> QED
    BY <1>4, <2>2, <2>3 DEF Retag
<1> QED
  BY <1>3, <1>4

LEMMA BeginSettles ==
    ASSUME FilesInv, BarriersGood, Undamaged, Begin \/ Reopen
    PROVE  BarriersGood'
<1>1. op = None /\ UNCHANGED faults /\ faults \in Seq(FaultKinds)
  BY DEF Begin, BeginPut, BeginComplete, BeginDelete, BeginUpdate, PutStatus,
         Acquire, Reopen, BarriersGood, history
<1>2. Rest
  BY <1>1, AtRest
<1>3. CASE ~\E status \in {"Enabled", "Suspended"} : PutStatus(status)
  BY <1>1, <1>2, <1>3, RestStays
  DEF Begin, BeginPut, BeginComplete, BeginDelete, BeginUpdate, Reopen,
      directories
<1>4. ASSUME NEW status \in {"Enabled", "Suspended"}, PutStatus(status)
      PROVE  BarriersGood'
  <2>1. /\ op' = [NoOp EXCEPT !.kind = "status", !.syncs = <<"configuration">>]
        /\ UNCHANGED <<objects, versions>>
    BY <1>4 DEF PutStatus, Acquire
  <2>2. op' # None /\ op'.kind = "status" /\ op'.syncs = <<"configuration">>
    BY <2>1 DEF NoOp, None
  <2>3. Due("configuration")'
    BY <2>2 DEF Due
  <2> QED
    BY <1>1, <1>2, <2>1, <2>2, <2>3, StillSettled
    DEF Rest, BarriersGood, ObjectsSettle, VersionsSettle, ConfigurationSettles
<1> QED
  BY <1>3, <1>4

LEMMA FaultSettles ==
    ASSUME FilesInv, BarriersGood, SyncFails \/ Crash \/ PowerLoss
    PROVE  BarriersGood'
<1>1. PICK kind \in FaultKinds :
         /\ faults' = Append(faults, kind)
         /\ kind = "power" => PowerLoss
  BY DEF FaultKinds, SyncFails, Crash, PowerLoss, Fault
<1>2. faults' \in Seq(FaultKinds)
  BY <1>1 DEF BarriersGood
<1>3. CASE kind # "power"
  <2>1. faults'[Len(faults')] = kind /\ Len(faults') \in DOMAIN faults'
    BY <1>1 DEF BarriersGood
  <2>2. ~Undamaged'
    BY <1>3, <2>1 DEF Undamaged
  <2> QED
    BY <1>2, <2>2 DEF BarriersGood
<1>4. CASE PowerLoss
  <2>1. Rest'
    BY <1>4 DEF PowerLoss, Rest, Settled, Outcomes, Fresh
  <2> QED
    BY <1>2, <2>1 DEF Rest, BarriersGood, ObjectsSettle, VersionsSettle,
                      ConfigurationSettles
<1> QED
  BY <1>1, <1>3, <1>4

LEMMA BarriersStep ==
    ASSUME FilesInv, BarriersGood, [Next]_vars
    PROVE  BarriersGood'
<1>1. CASE SyncFails \/ Crash \/ PowerLoss
  BY <1>1, FaultSettles
<1>2. CASE ~(SyncFails \/ Crash \/ PowerLoss) /\ Undamaged
  <2>1. CASE Stage \/ (\E b \in staged : Unstage(b)) \/ UNCHANGED vars
    <3>1. UNCHANGED <<objects, versions, configuration, op, faults>>
      BY <2>1 DEF Stage, Unstage, vars, directories
    <3>2. faults' \in Seq(FaultKinds)
      BY <3>1 DEF BarriersGood
    <3>3. /\ Due("objects")' <=> Due("objects")
          /\ Due("versions")' <=> Due("versions")
          /\ Due("configuration")' <=> Due("configuration")
      BY <3>1 DEF Due
    <3> QED
      BY <1>2, <3>1, <3>2, <3>3, StillSettled
      DEF BarriersGood, ObjectsSettle, VersionsSettle, ConfigurationSettles
  <2>2. CASE Begin \/ Reopen
    BY <1>2, <2>2, BeginSettles
  <2>3. CASE Proceed
    BY <1>2, <2>3, SyncDirectorySettles, PublicationSettles, RemovalSettles,
       DeletionSettles, UpdateSettles DEF Proceed
  <2> QED
    BY <1>2, <2>1, <2>2, <2>3 DEF Next
<1>3. CASE ~(SyncFails \/ Crash \/ PowerLoss) /\ ~Undamaged
  <2>1. UNCHANGED faults
    BY <1>3
    DEF Next, Stage, Unstage, Begin, BeginPut, BeginComplete, BeginDelete,
        BeginUpdate, PutStatus, Proceed, SyncDirectory, Finish, CopyNotes,
        Publish, RetireNotes, RemoveSuperseded, RemoveLegacy, Entomb,
        DeleteNothing, PublishMarker, RemoveNotes, Unlink, EndBatch, Retag,
        Annotate, Unannotate, Reopen, vars
  <2> QED
    BY <1>3, <2>1, SamePower DEF BarriersGood
<1> QED
  BY <1>1, <1>2, <1>3

LEMMA InitSettles == Init => BarriersGood
<1> SUFFICES ASSUME Init PROVE BarriersGood
  OBVIOUS
<1>1. Rest
  BY DEF Init, Rest, Settled, Outcomes, Fresh
<1>2. faults \in Seq(FaultKinds)
  BY DEF Init
<1> QED
  BY <1>1, <1>2 DEF Rest, BarriersGood, ObjectsSettle, VersionsSettle,
                    ConfigurationSettles

\* Only power losses behind it, a directory that may still fall back is one
\* whose barrier the operation under way has ahead of it.
THEOREM BarriersInvariant == Spec => []BarriersGood
<1> QED
  BY InitSettles, BarriersStep, FilesInvariant, PTL DEF Spec

\* Whatever an operation that succeeds has put, removed or retagged, no power
\* loss that may follow changes it, for any number of power losses before.
THEOREM SuccessIsFinal == Spec => SuccessIsDurable
<1>1. ASSUME BarriersGood, [Next]_vars
      PROVE  Undamaged /\ Success /\ op.file # None /\ UNCHANGED faults =>
                Returning(IF op.file.kind \in {"O", "M"} THEN op.file.pub ELSE 0) = {}
  <2> SUFFICES ASSUME Undamaged, Success
               PROVE  \A k : Returning(k) = {}
    OBVIOUS
  <2>1. op.syncs = <<>> /\ op.phase \in {"finish", "entry"}
    BY DEF Success, InPhase
  <2>2. Outcomes(objects) = {objects.now} /\ Outcomes(versions) = {versions.now}
    BY <1>1, <2>1, AtRest DEF Rest, Settled
  <2>3. Returning(0) = {}
    BY <2>2 DEF Returning, Possible, Version
  <2>4. ASSUME NEW k, k # 0 PROVE Returning(k) = {}
    <3>1. VersionIn(k, objects.now, versions.now) = VersionIn(k, None, versions.now)
      BY <2>4 DEF VersionIn
    <3> QED
      BY <2>2, <2>4, <3>1 DEF Returning, Possible, Version
  <2> QED
    BY <2>3, <2>4
<1>2. BarriersGood /\ [Next]_vars =>
        [(Undamaged /\ Success /\ op.file # None /\ faults' = faults)
            => Returning(IF op.file.kind \in {"O", "M"} THEN op.file.pub ELSE 0)
                 = {}]_vars
  BY <1>1
<1> QED
  BY <1>2, BarriersInvariant, PTL DEF Spec, SuccessIsDurable

(***************************************************************************)
(* The promise of DurableVersions, for stores on which a power loss finds  *)
(* nothing that another fault left unsynchronised.                         *)
(*                                                                         *)
(* A removal of superseded null generations unlinks files one at a time,   *)
(* and any of them may come back.  The null version stays what it is all   *)
(* the same: the kept file is newer than all of them, and it is on the     *)
(* device before the first is unlinked.  That is FileGood at "supersede".  *)
(***************************************************************************)
\* No fault but a power loss comes before a power loss.
PowerComesFirst ==
    \A f \in Faults : \A i \in DOMAIN f :
        f[i] = "power" => \A j \in 1..i : f[j] = "power"

\* No null generation of these files is newer than this file.
Tops(file, files) ==
    file \in files /\ \A x \in NullFiles(files) : x.pub <= file.pub

\* The file is what a selector finds now.
Live(file) ==
    IF file.kind = "L"
    THEN file = objects.now /\ NullFiles(versions.now) = {}
    ELSE /\ file \in versions.now
         /\ file.kind \in NullKinds => file.kind # "T" /\ Tops(file, versions.now)

NumbersFit ==
    /\ \A g \in Outcomes(versions) : \A f \in g : f.pub \in 1..MaxPublications
    /\ \A o \in Outcomes(objects) : o # None => o.pub = 0

RoomLeft ==
    op # None =>
        /\ op.phase \in {"copyNotes", "publish"} =>
              op.kind # "delete" /\ NextPublication <= MaxPublications
        /\ op.phase \in {"entry", "unlink"} => op.kind = "delete"
        /\ op.kind = "delete" =>
              NextPublication + Len(op.entries) <= MaxPublications + 1

\* Generation files exist only where versioning has been configured for good.
StatusGood ==
    "Unconfigured" \in Outcomes(configuration) => \A g \in Outcomes(versions) : g = {}

\* The file the operation is about, at each of its steps.
FileGood ==
    op # None =>
        /\ op.phase = "retag" => Live(op.file)
        /\ op.phase = "unlink" => op.file.kind \in {"L", "O", "M"} /\ Live(op.file)
        /\ op.phase = "retire" =>
              /\ op.file.kind \in {"L", "O", "N"}
              /\ op.file.kind = "N" =>
                    op.keep = op.file.pub /\ Tops(op.file, versions.now)
        /\ op.phase = "supersede" =>
              /\ op.file.kind \in NullKinds /\ op.keep = op.file.pub
              /\ Tops(op.file, versions.now)
              /\ ~Due("versions") => \A g \in Outcomes(versions) : Tops(op.file, g)
        /\ op.phase = "entomb" =>
              /\ op.file.kind = "T" /\ op.keep = op.file.pub
              /\ Tops(op.file, versions.now) /\ objects.now = None
              /\ \A x \in NullFiles(versions.now) : x.pub = op.keep

PromiseInv == NumbersFit /\ RoomLeft /\ StatusGood /\ FileGood

(***************************************************************************)
(* What the selections find among any files                                *)
(***************************************************************************)
LEMMA GenerationFiles ==
    ASSUME NEW files \in Generations
    PROVE  /\ files \in SUBSET Files /\ Numbered(files) /\ Unique(files)
           /\ \A f \in files : f.pub \in Nat /\ f.kind # "L"
           /\ NullFiles(files) \in SUBSET Files /\ Numbered(NullFiles(files))
           /\ NullFiles(files) \subseteq files
BY DEF Generations, NullFiles, Numbered, Files

LEMMA TopIsNewest ==
    ASSUME NEW files \in Generations, NEW f, Tops(f, files), f.kind \in NullKinds
    PROVE  f \in NullFiles(files) /\ Newest(NullFiles(files)) = f
<1>1. f \in NullFiles(files)
  BY DEF Tops, NullFiles
<1>2. /\ Newest(NullFiles(files)) \in NullFiles(files)
      /\ \A g \in NullFiles(files) : g.pub <= Newest(NullFiles(files)).pub
  BY <1>1, GenerationFiles, NewestIsLast
<1>3. Newest(NullFiles(files)).pub <= f.pub /\ f.pub <= Newest(NullFiles(files)).pub
  BY <1>1, <1>2 DEF Tops
<1>4. Newest(NullFiles(files)).pub = f.pub
  BY <1>1, <1>2, <1>3, GenerationFiles
<1> QED
  BY <1>1, <1>2, <1>4, GenerationFiles DEF Unique

LEMMA TopIsSelected ==
    ASSUME NEW files \in Generations, NEW f, Tops(f, files), f.kind \in NullKinds,
           NEW legacy
    PROVE  SelectNull(legacy, files) = IF f.kind = "T" THEN None ELSE f
BY TopIsNewest DEF SelectNull

LEMMA NullsHaveATop ==
    ASSUME NEW files \in Generations, NullFiles(files) # {}
    PROVE  /\ Newest(NullFiles(files)) \in NullFiles(files)
           /\ Tops(Newest(NullFiles(files)), files)
           /\ Newest(NullFiles(files)).kind \in NullKinds
BY GenerationFiles, NewestIsLast DEF Tops, NullFiles

LEMMA NullOf ==
    ASSUME NEW files \in Generations, NEW legacy \in Legacies
    PROVE  /\ SelectNull(legacy, files) \in Files \union {None}
           /\ \/ SelectNull(legacy, files) = None
              \/ SelectNull(legacy, files) = legacy /\ NullFiles(files) = {}
              \/ /\ SelectNull(legacy, files) \in NullFiles(files)
                 /\ SelectNull(legacy, files).kind # "T"
                 /\ Tops(SelectNull(legacy, files), files)
<1>1. CASE NullFiles(files) = {}
  BY <1>1 DEF SelectNull, Legacies
<1>2. CASE NullFiles(files) # {}
  <2>1. /\ Newest(NullFiles(files)) \in NullFiles(files)
        /\ Tops(Newest(NullFiles(files)), files)
    BY <1>2, NullsHaveATop
  <2> QED
    BY <1>2, <2>1, GenerationFiles DEF SelectNull
<1> QED
  BY <1>1, <1>2

LEMMA ExactOf ==
    ASSUME NEW files \in Generations, NEW k
    PROVE  /\ SelectExact(files, k) \in Files \union {None}
           /\ SelectExact(files, k) # None =>
                 /\ SelectExact(files, k) \in OpaqueFiles(files)
                 /\ SelectExact(files, k).pub = k
           /\ \A f \in OpaqueFiles(files) : f.pub = k => SelectExact(files, k) = f
<1> DEFINE found == {f \in OpaqueFiles(files) : f.pub = k}
<1>1. /\ found \in SUBSET Files /\ Numbered(found) /\ Unique(found)
      /\ found \subseteq files
  BY GenerationFiles DEF OpaqueFiles, Numbered, Unique
<1>2. found # {} => Newest(found) \in found
  <2> HIDE DEF found
  <2> QED
    BY <1>1, NewestIsLast
<1>3. \A f \in found : Newest(found) = f
  BY <1>1, <1>2 DEF Unique
<1> QED
  BY <1>1, <1>2, <1>3 DEF SelectExact

LEMMA SameNulls ==
    ASSUME NEW files, NEW others, NullFiles(files) = NullFiles(others), NEW legacy
    PROVE  SelectNull(legacy, files) = SelectNull(legacy, others)
BY DEF SelectNull

LEMMA SameExact ==
    ASSUME NEW files, NEW others, NEW k,
           {f \in OpaqueFiles(files) : f.pub = k}
             = {f \in OpaqueFiles(others) : f.pub = k}
    PROVE  SelectExact(files, k) = SelectExact(others, k)
BY DEF SelectExact

LEMMA ValueOf ==
    ASSUME NEW file \in Files \union {None}
    PROVE  /\ Value(file) \in FileValues \union {None}
           /\ Value(file) = None <=> file = None
           /\ file # None => Value(file) \in FileValues /\ Value(file).order = file.pub
<1>1. CASE file = None
  BY <1>1 DEF Value
<1>2. CASE file \in Files /\ file # None
  <2>1. Value(file) \in FileValues /\ Value(file).order = file.pub
    BY <1>2 DEF Value, FileValues, Files
  <2>2. None \notin FileValues
    BY DEF None, FileValues
  <2> QED
    BY <1>2, <2>1, <2>2
<1> QED
  BY <1>1, <1>2

LEMMA NextFits ==
    ASSUME NEW files \in SUBSET Files, NEW n \in Nat \ {0},
           \A f \in files : f.pub < n, Numbered(files)
    PROVE  (IF files = {} THEN 1 ELSE Newest(files).pub + 1) <= n
<1>1. CASE files # {}
  <2>1. Newest(files) \in files
    BY <1>1, NewestIsLast
  <2>2. Newest(files).pub \in Nat /\ Newest(files).pub < n
    BY <2>1 DEF Files
  <2> QED
    BY <1>1, <2>2
<1> QED
  BY <1>1

LEMMA VersionOf ==
    ASSUME NEW files \in Generations, NEW legacy \in Legacies, NEW k \in Nat
    PROVE  VersionIn(k, legacy, files) \in FileValues \union {None}
BY NullOf, ExactOf, ValueOf DEF VersionIn

(***************************************************************************)
(* The table and what may come back                                        *)
(***************************************************************************)
LEMMA OutcomesGood ==
    FilesInv => /\ Outcomes(objects) \subseteq Legacies
                /\ Outcomes(versions) \subseteq Generations
                /\ objects.now \in Outcomes(objects)
                /\ versions.now \in Outcomes(versions)
BY DEF FilesInv, DirectoriesGood, Directory, Outcomes

LEMMA OneLegacy ==
    ASSUME NEW k, k # 0, NEW legacy, NEW files
    PROVE  VersionIn(k, legacy, files) = VersionIn(k, None, files)
BY DEF VersionIn

LEMMA VersionPossible ==
    ASSUME FilesInv, NEW k \in Nat
    PROVE  Version(k) \in Possible(k) /\ Possible(k) \subseteq FileValues \union {None}
<1>1. Version(k) \in Possible(k)
  BY OutcomesGood, OneLegacy DEF Version, Possible
<1>2. None \in Legacies
  BY DEF Legacies
<1>3. Possible(k) \subseteq FileValues \union {None}
  <2>1. CASE k = 0
    BY <2>1, OutcomesGood, VersionOf DEF Possible
  <2>2. CASE k # 0
    BY <1>2, <2>2, OutcomesGood, VersionOf DEF Possible
  <2> QED
    BY <2>1, <2>2
<1> QED
  BY <1>1, <1>3

TableTyped ==
    /\ Table \in [VersionKeys -> FileValues \union {None}]
    /\ Fallback \in [VersionKeys -> SUBSET (FileValues \union {None})]
    /\ \A k \in VersionKeys : Version(k) \in Possible(k)

LEMMA Typed == FilesInv => TableTyped
<1> SUFFICES ASSUME FilesInv PROVE TableTyped
  OBVIOUS
<1>1. \A k \in VersionKeys : k \in Nat
  BY DEF VersionKeys
<1>2. \A k \in VersionKeys :
         Version(k) \in Possible(k) /\ Possible(k) \subseteq FileValues \union {None}
  BY <1>1, VersionPossible
<1> QED
  BY <1>2 DEF TableTyped, Table, Fallback, Returning

LEMMA TypedNext == FilesInv' => TableTyped'
BY Typed, PTL

LEMMA PromiseKeys ==
    /\ Promise!Keys = VersionKeys /\ 0 \in VersionKeys
    /\ \A k \in VersionKeys : k \in Nat
    /\ \A k \in 1..MaxPublications : k \in VersionKeys /\ k # 0
<1>1. MaxPublications \in Nat
  BY FilesAssumption
<1> QED
  BY <1>1 DEF Promise!Keys, VersionKeys

\* What a step of version k may do to what comes back.
Returns(k) ==
    \A j \in VersionKeys :
        /\ Possible(j)' \subseteq Possible(j) \union {Version(j)'}
        /\ j # k => Version(j)' = Version(j)

LEMMA StepMoves ==
    ASSUME FilesInv, FilesInv', NEW k \in VersionKeys, Returns(k)
    PROVE  /\ Promise!Move(k) /\ k \in Promise!Keys
           /\ \A j \in VersionKeys : Table[j] = Version(j) /\ Table'[j] = Version(j)'
<1>1. TableTyped /\ TableTyped'
  BY Typed, TypedNext
<1>2. \A j \in VersionKeys : /\ Table[j] = Version(j) /\ Table'[j] = Version(j)'
                             /\ Fallback[j] = Possible(j) \ {Version(j)}
                             /\ Fallback'[j] = Possible(j)' \ {Version(j)'}
  BY DEF Table, Fallback, Returning
<1>3. \A j \in VersionKeys \ {k} : Table'[j] = Table[j] /\ Fallback'[j] \subseteq Fallback[j]
  BY <1>2 DEF Returns
<1>4. Fallback'[k] \subseteq Fallback[k] \union {Table[k]}
  BY <1>2 DEF Returns
<1> QED
  BY <1>1, <1>2, <1>3, <1>4, PromiseKeys DEF TableTyped, Promise!Move

\* A step that changes no version.
LEMMA StepSettles ==
    ASSUME FilesInv, FilesInv',
           \A j \in VersionKeys :
              /\ Version(j)' = Version(j)
              /\ Possible(j)' \subseteq Possible(j) \union {Version(j)}
    PROVE  Promise!Settle
<1>1. TableTyped /\ TableTyped'
  BY Typed, TypedNext
<1>2. \A j \in VersionKeys : /\ Table[j] = Version(j) /\ Table'[j] = Version(j)'
                             /\ Fallback[j] = Possible(j) \ {Version(j)}
                             /\ Fallback'[j] = Possible(j)' \ {Version(j)'}
  BY DEF Table, Fallback, Returning
<1>3. \A j \in VersionKeys : Table'[j] = Table[j] /\ Fallback'[j] \subseteq Fallback[j]
  BY <1>2
<1>4. Table' = Table
  BY <1>1, <1>3 DEF TableTyped
<1> QED
  BY <1>1, <1>3, <1>4, PromiseKeys DEF TableTyped, Promise!Settle

LEMMA VersionsPossible ==
    ASSUME Settled(objects), NEW v, versions' = Change(versions, v),
           UNCHANGED <<objects, faults>>
    PROVE  /\ \A j : Possible(j)' \subseteq Possible(j) \union {Version(j)'}
           /\ \A j : Version(j)' = VersionIn(j, objects.now, v)
<1>1. /\ Outcomes(objects) = {objects.now} /\ Outcomes(objects)' = {objects.now}
      /\ versions'.now = v
      /\ Outcomes(versions)' \subseteq Outcomes(versions) \union {v}
  BY SamePower DEF Settled, Outcomes, Change
<1>2. ASSUME NEW j
      PROVE  /\ Possible(j)' \subseteq Possible(j) \union {Version(j)'}
             /\ Version(j)' = VersionIn(j, objects.now, v)
  <2>1. Version(j)' = VersionIn(j, objects.now, v)
    BY <1>1 DEF Version
  <2>2. CASE j = 0
    BY <1>1, <2>1, <2>2 DEF Possible
  <2>3. CASE j # 0
    BY <1>1, <2>1, <2>3, OneLegacy DEF Possible
  <2> QED
    BY <2>1, <2>2, <2>3
<1> QED
  BY <1>2

LEMMA ObjectsPossible ==
    ASSUME Settled(versions), NEW o, objects' = Change(objects, o),
           UNCHANGED <<versions, faults>>
    PROVE  /\ \A j : Possible(j)' \subseteq Possible(j) \union {Version(j)'}
           /\ \A j : Version(j)' = VersionIn(j, o, versions.now)
           /\ \A j : j # 0 => Version(j)' = Version(j)
<1>1. /\ Outcomes(versions) = {versions.now} /\ Outcomes(versions)' = {versions.now}
      /\ objects'.now = o
      /\ Outcomes(objects)' \subseteq Outcomes(objects) \union {o}
  BY SamePower DEF Settled, Outcomes, Change
<1>2. ASSUME NEW j
      PROVE  /\ Possible(j)' \subseteq Possible(j) \union {Version(j)'}
             /\ Version(j)' = VersionIn(j, o, versions.now)
             /\ j # 0 => Version(j)' = Version(j)
  <2>1. Version(j)' = VersionIn(j, o, versions.now)
    BY <1>1 DEF Version
  <2>2. CASE j = 0
    BY <1>1, <2>1, <2>2 DEF Possible
  <2>3. CASE j # 0
    <3>1. Version(j)' = Version(j)
      BY <2>1, <2>3, OneLegacy DEF Version
    <3> QED
      BY <1>1, <2>1, <2>3, <3>1, OneLegacy DEF Possible
  <2> QED
    BY <2>1, <2>2, <2>3
<1> QED
  BY <1>2

(***************************************************************************)
(* Power losses to come                                                    *)
(***************************************************************************)
LEMMA PowerNeedsRest ==
    ASSUME PowerComesFirst, faults \in Seq(FaultKinds), PowerMayFail
    PROVE  Undamaged
<1>1. PICK f \in Faults : \E i \in Len(faults) + 1..Len(f) :
                             IsPrefix(faults, f) /\ f[i] = "power"
  BY DEF PowerMayFail
<1>2. f \in Seq(FaultKinds)
  BY <1>1, FilesAssumption DEF FaultKinds
<1>3. PICK i \in Len(faults) + 1..Len(f) : IsPrefix(faults, f) /\ f[i] = "power"
  BY <1>1
<1>4. Len(faults) <= Len(f) /\ SubSeq(faults, 1, Len(faults)) = SubSeq(f, 1, Len(faults))
  BY <1>3 DEF IsPrefix
<1>5. \A j \in 1..Len(faults) : /\ SubSeq(faults, 1, Len(faults))[j] = faults[j]
                                /\ SubSeq(f, 1, Len(faults))[j] = f[j]
  BY <1>2, <1>4
<1>6. \A j \in 1..i : f[j] = "power"
  BY <1>2, <1>3 DEF PowerComesFirst
<1>7. \A j \in 1..Len(faults) : faults[j] = "power"
  BY <1>2, <1>3, <1>4, <1>5, <1>6
<1> QED
  BY <1>7 DEF Undamaged

LEMMA PowerWanes ==
    ASSUME faults \in Seq(FaultKinds), NEW kind \in FaultKinds,
           faults' = Append(faults, kind), PowerMayFail'
    PROVE  PowerMayFail
<1>1. PICK f \in Faults : \E i \in Len(faults') + 1..Len(f) :
                             IsPrefix(faults', f) /\ f[i] = "power"
  BY DEF PowerMayFail
<1>2. f \in Seq(FaultKinds)
  BY <1>1, FilesAssumption DEF FaultKinds
<1>3. PICK i \in Len(faults') + 1..Len(f) : IsPrefix(faults', f) /\ f[i] = "power"
  BY <1>1
<1>4. Len(faults') = Len(faults) + 1 /\ i \in Len(faults) + 1..Len(f)
  BY <1>2, <1>3
<1>5. Len(faults') <= Len(f) /\ SubSeq(faults', 1, Len(faults')) = SubSeq(f, 1, Len(faults'))
  BY <1>3 DEF IsPrefix
<1>6. \A j \in 1..Len(faults) :
         /\ SubSeq(faults', 1, Len(faults'))[j] = faults[j]
         /\ SubSeq(f, 1, Len(faults'))[j] = f[j]
  BY <1>2, <1>4, <1>5
<1>7. \A j \in 1..Len(faults) : faults[j] = f[j]
  BY <1>5, <1>6
<1>8. SubSeq(faults, 1, Len(faults)) = SubSeq(f, 1, Len(faults))
  BY <1>2, <1>4, <1>5, <1>7
<1>9. IsPrefix(faults, f)
  BY <1>4, <1>5, <1>8 DEF IsPrefix
<1> QED
  BY <1>3, <1>4, <1>9 DEF PowerMayFail

\* Each directory is settled, or its barrier is ahead.
Orderly == ObjectsSettle /\ VersionsSettle /\ ConfigurationSettles

LEMMA Settling ==
    ASSUME PowerComesFirst, BarriersGood
    PROVE  Orderly
<1>1. CASE ~PowerMayFail
  BY <1>1 DEF Orderly, ObjectsSettle, VersionsSettle, ConfigurationSettles,
              Settled, Outcomes
<1>2. CASE PowerMayFail
  BY <1>2, PowerNeedsRest DEF BarriersGood, Orderly
<1> QED
  BY <1>1, <1>2

LEMMA Quiet ==
    ASSUME Orderly,
           \/ op = None
           \/ op.syncs = <<>> /\ op.phase \notin {"retire", "supersede"}
    PROVE  Rest
BY NothingDue
   DEF Orderly, Rest, ObjectsSettle, VersionsSettle, ConfigurationSettles

(***************************************************************************)
(* Steps that leave the files as they are                                  *)
(***************************************************************************)
QuietStep ==
    /\ objects'.now = objects.now /\ versions'.now = versions.now
    /\ Outcomes(objects)' \subseteq Outcomes(objects)
    /\ Outcomes(versions)' \subseteq Outcomes(versions)

LEMMA UnchangedIsQuiet ==
    ASSUME UNCHANGED <<objects, versions, faults>>
    PROVE  QuietStep
BY SamePower DEF QuietStep, Outcomes

LEMMA QuietSettles ==
    ASSUME FilesInv, FilesInv', QuietStep
    PROVE  Promise!Settle
<1>1. TableTyped
  BY Typed
<1>2. \A j : Version(j)' = Version(j)
  BY DEF QuietStep, Version
<1>3. \A j \in VersionKeys : Possible(j)' \subseteq Possible(j) \union {Version(j)}
  BY DEF QuietStep, Possible
<1> QED
  BY <1>2, <1>3, StepSettles

LEMMA QuietKeeps ==
    ASSUME PromiseInv, QuietStep, UNCHANGED faults, UNCHANGED configuration
    PROVE  NumbersFit' /\ StatusGood'
BY SamePower DEF PromiseInv, QuietStep, NumbersFit, StatusGood, Outcomes

LEMMA QuietNext ==
    ASSUME QuietStep
    PROVE  /\ NextPublication' = NextPublication
           /\ \A file : Live(file)' <=> Live(file)
           /\ \A file : Tops(file, versions.now)' <=> Tops(file, versions.now)
BY DEF QuietStep, NextPublication, Live, Tops

LEMMA IdlePromise ==
    ASSUME op' = None
    PROVE  RoomLeft' /\ FileGood'
BY DEF RoomLeft, FileGood

(***************************************************************************)
(* Selections                                                              *)
(***************************************************************************)
LEMMA SelectedIsLive ==
    ASSUME FilesInv, NEW selector \in Selectors, Select(selector) # None
    PROVE  Live(Select(selector))
<1>1. /\ objects.now \in Legacies /\ versions.now \in Generations
      /\ \A f \in versions.now : f.kind # "L" /\ f.pub \in Nat
  BY Contents, GenerationFiles
<1> DEFINE null == SelectNull(objects.now, versions.now)
<1>2. \A f \in OpaqueFiles(versions.now) :
         f \in versions.now /\ f.kind # "L" /\ f.kind \notin NullKinds
  BY <1>1 DEF OpaqueFiles, NullFiles
<1>3. \A f \in OpaqueFiles(versions.now) : Live(f)
  BY <1>2 DEF Live
<1>4. null # None => Live(null)
  <2>1. CASE null = objects.now /\ NullFiles(versions.now) = {}
    BY <1>1, <2>1 DEF Live, Legacies
  <2>2. CASE null \in NullFiles(versions.now) /\ null.kind # "T" /\ Tops(null, versions.now)
    BY <1>1, <2>2 DEF Live, Tops
  <2> HIDE DEF null
  <2> QED
    BY <1>1, <2>1, <2>2, NullOf DEF null
<1>5. CASE selector = NullVersion
  BY <1>4, <1>5 DEF Select, NullVersion, CurrentVersion
<1>6. CASE selector = CurrentVersion
  <2>1. \/ Select(selector) = None \/ Select(selector) = null
        \/ Select(selector) \in OpaqueFiles(versions.now)
    BY <1>6, CurrentSelected DEF Select
  <2> QED
    BY <1>3, <1>4, <2>1
<1>7. CASE selector \notin {NullVersion, CurrentVersion}
  BY <1>1, <1>3, <1>7, ExactOf DEF Select
<1> QED
  BY <1>5, <1>6, <1>7

(***************************************************************************)
(* Steps that change no version                                            *)
(***************************************************************************)
PromiseStep == [Promise!Next]_<<Table, Fallback>>

LEMMA QuietDone ==
    ASSUME FilesInv, FilesInv', PromiseInv, QuietStep,
           UNCHANGED <<faults, configuration>>, RoomLeft', FileGood'
    PROVE  PromiseInv' /\ PromiseStep
<1>1. PromiseStep
  BY QuietSettles DEF PromiseStep, Promise!Next
<1> QED
  BY <1>1, QuietKeeps DEF PromiseInv

LEMMA ContinuedRest ==
    ASSUME op \in Operation, NEW phase \in Phases, NEW syncs \in Seq(Barriers),
           Continue(phase, syncs)
    PROVE  op'.entries = op.entries /\ op'.keep = op.keep
BY DEF Continue, Operation

LEMMA SyncDirectoryPromise ==
    ASSUME FilesInv, FilesInv', PromiseInv, SyncDirectory
    PROVE  PromiseInv' /\ PromiseStep
<1>1. /\ op \in Operation /\ op.syncs # <<>> /\ op # None /\ UNCHANGED faults
  BY DEF SyncDirectory, FilesInv, OperationGood, history
<1>2. op' = [op EXCEPT !.syncs = Tail(@)]
  BY DEF SyncDirectory
<1>3. /\ op'.syncs = Tail(op.syncs) /\ op'.entries = op.entries
      /\ op'.kind = op.kind /\ op'.phase = op.phase /\ op'.file = op.file
      /\ op'.keep = op.keep
  BY <1>1, <1>2 DEF Operation
<1>4. /\ objects' = objects \/ objects' = Synced(objects)
      /\ versions' = versions \/ versions' = Synced(versions)
      /\ configuration' = configuration \/ configuration' = Synced(configuration)
  BY DEF SyncDirectory
<1>5. /\ QuietStep /\ Outcomes(configuration)' \subseteq Outcomes(configuration)
  BY <1>1, <1>4, SamePower DEF QuietStep, Outcomes, Synced, SyncPath, Fresh
<1>6. NumbersFit' /\ StatusGood'
  BY <1>5 DEF PromiseInv, QuietStep, NumbersFit, StatusGood
<1>7. RoomLeft'
  BY <1>1, <1>3, <1>5, QuietNext DEF PromiseInv, RoomLeft
<1>8. \/ Outcomes(versions)' = {versions.now}
      \/ Due("versions") => Due("versions")'
  <2>1. CASE Head(op.syncs) = "versions"
    BY <1>1, <2>1 DEF SyncDirectory, Outcomes, PowerMayFail, Synced, SyncPath, Fresh
  <2>2. CASE Head(op.syncs) # "versions"
    <3> SUFFICES ASSUME Due("versions") PROVE Due("versions")'
      OBVIOUS
    <3>1. op.syncs \in Seq(Barriers)
      BY <1>1 DEF Operation
    <3>2. PICK i \in 1..Len(op.syncs) : op.syncs[i] = "versions"
      BY <3>1 DEF Due
    <3>3. i # 1
      BY <2>2, <3>1, <3>2
    <3>4. /\ Tail(op.syncs)[i - 1] = "versions"
          /\ i - 1 \in DOMAIN Tail(op.syncs)
      BY <1>1, <3>1, <3>2, <3>3
    <3> QED
      BY <1>3, <3>4 DEF Due
  <2> QED
    BY <2>1, <2>2
<1>9. FileGood'
  <2>1. versions'.now = versions.now /\ objects'.now = objects.now
        /\ Outcomes(versions)' \subseteq Outcomes(versions)
    BY <1>5 DEF QuietStep
  <2>5. FileGood
    BY DEF PromiseInv
  <2>6. op'.phase = "retag" => Live(op.file)'
    BY <1>1, <1>3, <2>1, <2>5 DEF FileGood, Live, Tops
  <2>7. op'.phase = "unlink" => op'.file.kind \in {"L", "O", "M"} /\ Live(op.file)'
    BY <1>1, <1>3, <2>1, <2>5 DEF FileGood, Live, Tops
  <2>8. op'.phase = "supersede" =>
              /\ op'.file.kind \in NullKinds /\ op'.keep = op'.file.pub
              /\ Tops(op'.file, versions'.now)
              /\ ~Due("versions")' => \A g \in Outcomes(versions)' : Tops(op'.file, g)
    BY <1>1, <1>3, <1>8, <2>1, <2>5 DEF FileGood, Tops
  <2>9. op'.phase = "retire" =>
              /\ op'.file.kind \in {"L", "O", "N"}
              /\ op'.file.kind = "N" =>
                    op'.keep = op'.file.pub /\ Tops(op'.file, versions'.now)
    BY <1>1, <1>3, <2>1, <2>5 DEF FileGood, Tops
  <2>10. op'.phase = "entomb" =>
              /\ op'.file.kind = "T" /\ op'.keep = op'.file.pub
              /\ Tops(op'.file, versions'.now) /\ objects'.now = None
              /\ \A x \in NullFiles(versions'.now) : x.pub = op'.keep
    BY <1>1, <1>3, <2>1, <2>5 DEF FileGood, Tops
  <2> QED
    BY <2>6, <2>7, <2>8, <2>9, <2>10 DEF FileGood
<1>10. PromiseStep
  BY <1>5, QuietSettles DEF PromiseStep, Promise!Next
<1> QED
  BY <1>6, <1>7, <1>9, <1>10 DEF PromiseInv

LEMMA CopyNotesPromise ==
    ASSUME FilesInv, FilesInv', PromiseInv, CopyNotes
    PROVE  PromiseInv' /\ PromiseStep
<1>1. /\ op \in Operation /\ op # None /\ op.phase = "copyNotes"
      /\ UNCHANGED <<objects, versions, configuration, faults>>
      /\ Continue("publish", <<"notes">>)
  BY DEF CopyNotes, InPhase, FilesInv, OperationGood
<1>2. "publish" \in Phases /\ <<"notes">> \in Seq(Barriers)
  BY BarrierSequences DEF Phases, Barriers
<1>3. /\ op'.kind = op.kind /\ op'.phase = "publish" /\ op'.entries = op.entries
  BY <1>1, <1>2, ContinuedDue, ContinuedRest
<1>4. NextPublication' = NextPublication
  BY <1>1, UnchangedIsQuiet, QuietNext
<1>5. RoomLeft' /\ FileGood'
  BY <1>1, <1>3, <1>4 DEF PromiseInv, RoomLeft, FileGood
<1> QED
  BY <1>1, <1>5, UnchangedIsQuiet, QuietDone

LEMMA RetireNotesPromise ==
    ASSUME FilesInv, FilesInv', PromiseInv, RetireNotes
    PROVE  PromiseInv' /\ PromiseStep
<1> DEFINE target == IF op.file.kind = "L" THEN <<"objects">> ELSE <<"versions">>
           next == IF op.file.kind = "N" THEN "supersede" ELSE "finish"
<1>1. /\ op \in Operation /\ op # None /\ op.phase = "retire"
      /\ UNCHANGED <<objects, versions, configuration, faults>>
      /\ Continue(next, <<"notes">> \o target) \/ Continue(next, target)
  BY DEF RetireNotes, InPhase, FilesInv, OperationGood
<1>2. /\ target \in Seq(Barriers) /\ <<"notes">> \o target \in Seq(Barriers)
      /\ next \in Phases
  BY BarrierSequences DEF Barriers, Phases
<1>3. /\ op'.kind = op.kind /\ op'.phase = next /\ op'.entries = op.entries
      /\ op'.file = op.file /\ op'.keep = op.keep
      /\ op'.syncs = target \/ op'.syncs = <<"notes">> \o target
  <2> HIDE DEF next, target
  <2> QED
    BY <1>1, <1>2, ContinuedDue, ContinuedRest
<1>4. op.file.kind = "N" => Due("versions")'
  <2>1. op'.syncs[Len(op'.syncs)] = target[1] /\ Len(op'.syncs) \in DOMAIN op'.syncs
    BY <1>3
  <2> QED
    BY <2>1 DEF Due
<1>5. NextPublication' = NextPublication
  BY <1>1, UnchangedIsQuiet, QuietNext
<1>6. RoomLeft'
  BY <1>1, <1>3, <1>5 DEF PromiseInv, RoomLeft
<1>7. FileGood'
  <2>1. op.file.kind = "N" => op.keep = op.file.pub /\ Tops(op.file, versions.now)
    BY <1>1 DEF PromiseInv, FileGood
  <2>2. "N" \in NullKinds
    BY DEF NullKinds
  <2> QED
    BY <1>1, <1>3, <1>4, <2>1, <2>2 DEF FileGood, Tops
<1> QED
  BY <1>1, <1>6, <1>7, UnchangedIsQuiet, QuietDone

LEMMA DeleteNothingPromise ==
    ASSUME FilesInv, FilesInv', PromiseInv, DeleteNothing
    PROVE  PromiseInv' /\ PromiseStep
<1>1. /\ op \in Operation /\ op # None /\ op.phase = "entry" /\ op.entries # <<>>
      /\ UNCHANGED <<objects, versions, configuration, faults>>
      /\ op' = NextEntry("entry", op.file)
  BY DEF DeleteNothing, InPhase, FilesInv, OperationGood, directories, history
<1>2. op'.kind = op.kind /\ op'.phase = "entry" /\ op'.entries = Tail(op.entries)
  BY <1>1 DEF NextEntry, Operation
<1>3. Len(Tail(op.entries)) = Len(op.entries) - 1 /\ Len(op.entries) \in Nat
  BY <1>1 DEF Operation
<1>4. NextPublication' = NextPublication /\ NextPublication \in Nat
  BY <1>1, UnchangedIsQuiet, QuietNext, NextIsNew
<1>5. MaxPublications \in Nat
  BY FilesAssumption
<1>6. op.kind = "delete" /\ NextPublication + Len(op.entries) <= MaxPublications + 1
  BY <1>1 DEF PromiseInv, RoomLeft
<1>7. NextPublication' + Len(op'.entries) <= MaxPublications + 1
  BY <1>2, <1>3, <1>4, <1>5, <1>6
<1>8. RoomLeft' /\ FileGood'
  BY <1>2, <1>6, <1>7 DEF RoomLeft, FileGood
<1> QED
  BY <1>1, <1>8, UnchangedIsQuiet, QuietDone

\* Of the null generations only the record at the object path is unlinked
\* without a tombstone.
LEMMA UnlinkedKinds ==
    ASSUME FilesInv, PromiseInv, NEW entry \in Entries,
           EntryEffect(entry) = "unlink"
    PROVE  LET file == Select(entry.selector)
           IN  Live(file) /\ file \in Files /\ file.kind \in {"L", "O", "M"}
<1> DEFINE file == Select(entry.selector)
<1>1. entry.selector \in Selectors
  BY DEF Entries
<1>2. /\ file # None
      /\ entry.selector = CurrentVersion => Status = "Unconfigured"
      /\ entry.selector = NullVersion => file.kind = "L"
  BY DEF EntryEffect, IsObject
<1>3. file \in Files /\ Live(file)
  BY <1>1, <1>2, Selected, SelectedIsLive
<1>4. file.kind \in FileKinds
  BY <1>3 DEF Files
<1>5. CASE entry.selector = CurrentVersion
  <2>1. configuration.now \in Outcomes(configuration) /\ versions.now \in Outcomes(versions)
    BY DEF Outcomes
  <2>2. versions.now = {}
    BY <1>2, <1>5, <2>1 DEF PromiseInv, StatusGood, Status
  <2> QED
    BY <1>3, <2>2 DEF Live
<1>6. CASE entry.selector = NullVersion
  BY <1>2, <1>3, <1>6
<1>7. CASE entry.selector \notin {CurrentVersion, NullVersion}
  <2>1. file = SelectExact(versions.now, entry.selector)
    BY <1>7 DEF Select
  <2>2. file \in OpaqueFiles(versions.now)
    BY <1>2, <2>1, Contents, ExactOf
  <2>3. file.kind \notin NullKinds /\ file.kind # "L"
    BY <2>2, Contents, GenerationFiles DEF OpaqueFiles, NullFiles
  <2> QED
    BY <1>3, <1>4, <2>3 DEF FileKinds, NullKinds
<1> QED
  BY <1>5, <1>6, <1>7

LEMMA RemoveNotesPromise ==
    ASSUME FilesInv, FilesInv', PromiseInv, RemoveNotes
    PROVE  PromiseInv' /\ PromiseStep
<1> DEFINE file == Select(Head(op.entries).selector)
           next == NextEntry("unlink", file)
<1>1. /\ op \in Operation /\ op # None /\ op.phase = "entry" /\ op.entries # <<>>
      /\ UNCHANGED <<objects, versions, configuration, faults>>
      /\ op' = next \/ op' = [next EXCEPT !.syncs = <<"notes">>]
      /\ EntryEffect(Head(op.entries)) = "unlink"
  BY DEF RemoveNotes, InPhase, FilesInv, OperationGood
<1>2. Head(op.entries) \in Entries
  BY <1>1 DEF Operation
<1>3. Live(file) /\ file \in Files /\ file.kind \in {"L", "O", "M"}
  BY <1>1, <1>2, UnlinkedKinds
<1> HIDE DEF file
<1>4. /\ next.kind = op.kind /\ next.phase = "unlink" /\ next.file = file
      /\ next.entries = Tail(op.entries) /\ next \in Operation
  <2>1. "unlink" \in Phases
    BY DEF Phases
  <2>2. next.entries = Tail(op.entries)
    BY <1>1 DEF NextEntry, Operation
  <2> QED
    BY <1>1, <1>3, <2>1, <2>2, NextEntryOperation
<1> HIDE DEF next
<1>5. /\ op'.kind = op.kind /\ op'.phase = "unlink" /\ op'.file = file
      /\ op'.entries = Tail(op.entries)
  BY <1>1, <1>4 DEF Operation
<1>6. Len(Tail(op.entries)) = Len(op.entries) - 1 /\ Len(op.entries) \in Nat
  BY <1>1 DEF Operation
<1>7. NextPublication' = NextPublication /\ NextPublication \in Nat
  BY <1>1, UnchangedIsQuiet, QuietNext, NextIsNew
<1>8. MaxPublications \in Nat
  BY FilesAssumption
<1>9. RoomLeft'
  BY <1>1, <1>5, <1>6, <1>7, <1>8 DEF PromiseInv, RoomLeft
<1>10. FileGood'
  BY <1>1, <1>3, <1>5 DEF FileGood, Live, Tops
<1> QED
  BY <1>1, <1>9, <1>10, UnchangedIsQuiet, QuietDone

\* The gate is released, nobody holds it, or its holder only annotates.
LEMMA ReleasePromise ==
    ASSUME FilesInv, FilesInv', PromiseInv,
           \/ Finish \/ EndBatch \/ Stage \/ \E b \in staged : Unstage(b)
           \/ UNCHANGED vars \/ Annotate \/ Unannotate
    PROVE  PromiseInv' /\ PromiseStep
<1>1. UNCHANGED <<objects, versions, configuration, faults>>
  BY DEF Finish, EndBatch, Stage, Unstage, Annotate, Unannotate, vars,
         directories, history
<1>2. NextPublication' = NextPublication /\ QuietStep
  BY <1>1, UnchangedIsQuiet, QuietNext
<1>3. CASE op' = None
  BY <1>1, <1>2, <1>3, IdlePromise, QuietDone
<1>4. CASE UNCHANGED op
  <2>1. RoomLeft'
    BY <1>2, <1>4 DEF PromiseInv, RoomLeft
  <2>2. Outcomes(versions)' = Outcomes(versions)
    BY <1>1, SamePower DEF Outcomes
  <2>3. Due("versions")' <=> Due("versions")
    BY <1>4 DEF Due
  <2>4. FileGood'
    BY <1>1, <1>4, <2>2, <2>3 DEF PromiseInv, FileGood, Live, Tops
  <2> QED
    BY <1>1, <1>2, <2>1, <2>4, QuietDone
<1>5. CASE Annotate \/ Unannotate
  <2>1. /\ op \in Operation /\ op # None
        /\ Continue("finish", <<"notes">>) \/ Continue("finish", <<>>)
    BY <1>5 DEF Annotate, Unannotate, InPhase, FilesInv, OperationGood
  <2>2. /\ <<"notes">> \in Seq(Barriers) /\ <<>> \in Seq(Barriers)
        /\ "finish" \in Phases
    BY BarrierSequences DEF Barriers, Phases
  <2>3. op'.kind = op.kind /\ op'.phase = "finish" /\ op'.entries = op.entries
    <3>1. CASE Continue("finish", <<"notes">>)
      BY <2>1, <2>2, <3>1, ContinuedDue, ContinuedRest
    <3>2. CASE Continue("finish", <<>>)
      BY <2>1, <2>2, <3>2, ContinuedDue, ContinuedRest
    <3> QED
      BY <2>1, <3>1, <3>2
  <2>4. RoomLeft' /\ FileGood'
    BY <1>2, <2>1, <2>3 DEF PromiseInv, RoomLeft, FileGood
  <2> QED
    BY <1>1, <1>2, <2>4, QuietDone
<1> QED
  BY <1>3, <1>4, <1>5 DEF Finish, EndBatch, Stage, Unstage, vars

LEMMA BeginPutPromise ==
    ASSUME FilesInv, FilesInv', PromiseInv,
           \/ BeginComplete
           \/ \E b \in staged, kind \in {"put", "create", "copy"} : BeginPut(b, kind)
    PROVE  PromiseInv' /\ PromiseStep
<1>1. UNCHANGED <<objects, versions, configuration, faults>>
  BY DEF BeginPut, BeginComplete, directories, history
<1>2. /\ op'.phase \in {"copyNotes", "publish"}
      /\ op'.kind \in {"put", "create", "copy", "complete"}
      /\ NextPublication + Len(<<>>) <= MaxPublications
  <2>1. ASSUME NEW b, NEW kind \in {"put", "create", "copy"}, BeginPut(b, kind)
        PROVE  <1>2
    BY <2>1 DEF BeginPut, Acquire, NoOp
  <2>2. CASE BeginComplete
    BY <2>2 DEF BeginComplete, Acquire, NoOp
  <2> QED
    BY <2>1, <2>2
<1>3. NextPublication \in Nat /\ MaxPublications \in Nat
  BY NextIsNew, FilesAssumption
<1>4. NextPublication' = NextPublication /\ QuietStep
  BY <1>1, UnchangedIsQuiet, QuietNext
<1>5. Len(<<>>) = 0
  OBVIOUS
<1>6. RoomLeft' /\ FileGood'
  BY <1>2, <1>3, <1>4, <1>5 DEF RoomLeft, FileGood
<1> QED
  BY <1>1, <1>4, <1>6, QuietDone

LEMMA BeginDeletePromise ==
    ASSUME FilesInv, FilesInv', PromiseInv, NEW entries \in Batches,
           BeginDelete(entries)
    PROVE  PromiseInv' /\ PromiseStep
<1>1. UNCHANGED <<objects, versions, configuration, faults>>
  BY DEF BeginDelete, directories, history
<1>2. /\ op'.phase = "entry" /\ op'.kind = "delete" /\ op'.entries = entries
      /\ NextPublication + Len(entries) <= MaxPublications + 1
  BY DEF BeginDelete, Acquire, NoOp
<1>3. NextPublication' = NextPublication /\ QuietStep
  BY <1>1, UnchangedIsQuiet, QuietNext
<1>4. RoomLeft' /\ FileGood'
  BY <1>2, <1>3 DEF RoomLeft, FileGood
<1> QED
  BY <1>1, <1>3, <1>4, QuietDone

LEMMA BeginUpdatePromise ==
    ASSUME FilesInv, FilesInv', PromiseInv,
           NEW kind \in {"retag", "annotate", "unannotate"},
           NEW selector \in Selectors, BeginUpdate(kind, selector)
    PROVE  PromiseInv' /\ PromiseStep
<1>1. UNCHANGED <<objects, versions, configuration, faults>>
  BY DEF BeginUpdate, directories
<1>2. /\ op'.phase = kind /\ op'.kind = kind /\ op'.file = Select(selector)
      /\ Select(selector) # None
  BY DEF BeginUpdate, Acquire, NoOp, IsObject
<1>3. Live(Select(selector))
  BY <1>2, SelectedIsLive
<1>4. QuietStep
  BY <1>1, UnchangedIsQuiet
<1>5. RoomLeft' /\ FileGood'
  BY <1>1, <1>2, <1>3 DEF RoomLeft, FileGood, Live, Tops
<1> QED
  BY <1>1, <1>4, <1>5, QuietDone

LEMMA PutStatusPromise ==
    ASSUME Orderly, FilesInv, FilesInv', PromiseInv,
           NEW status \in {"Enabled", "Suspended"}, PutStatus(status)
    PROVE  PromiseInv' /\ PromiseStep
<1>1. /\ UNCHANGED <<objects, versions, faults>>
      /\ configuration' = Change(configuration, status) /\ op = None
  BY DEF PutStatus, Acquire, history
<1>2. op'.phase = "finish" /\ op'.kind = "status"
  BY DEF PutStatus, Acquire, NoOp
<1>3. QuietStep
  BY <1>1, UnchangedIsQuiet
<1>4. Rest
  BY <1>1, Quiet
<1>5. Outcomes(configuration)' \subseteq {configuration.now, status}
  BY <1>1, <1>4, SamePower DEF Rest, Settled, Outcomes, Change
<1>6. configuration.now \in Outcomes(configuration)
  BY DEF Outcomes
<1>7. StatusGood'
  BY <1>3, <1>5, <1>6 DEF PromiseInv, StatusGood, QuietStep
<1>8. NumbersFit'
  BY <1>3 DEF PromiseInv, NumbersFit, QuietStep
<1>9. RoomLeft' /\ FileGood'
  BY <1>2 DEF RoomLeft, FileGood
<1>10. PromiseStep
  BY <1>3, QuietSettles DEF PromiseStep, Promise!Next
<1> QED
  BY <1>7, <1>8, <1>9, <1>10 DEF PromiseInv

LEMMA FailurePromise ==
    ASSUME BarriersGood, FilesInv, FilesInv', PromiseInv, SyncFails \/ Crash
    PROVE  PromiseInv' /\ PromiseStep
<1>1. /\ UNCHANGED <<objects, versions, configuration>> /\ op' = None
      /\ \E kind \in FaultKinds : faults' = Append(faults, kind)
  BY DEF SyncFails, Crash, Fault, FaultKinds, directories
<1>2. PowerMayFail' => PowerMayFail
  BY <1>1, PowerWanes DEF BarriersGood
<1>3. QuietStep /\ Outcomes(configuration)' \subseteq Outcomes(configuration)
  BY <1>1, <1>2 DEF QuietStep, Outcomes
<1>4. NumbersFit' /\ StatusGood'
  BY <1>3 DEF PromiseInv, QuietStep, NumbersFit, StatusGood
<1>5. PromiseStep
  BY <1>3, QuietSettles DEF PromiseStep, Promise!Next
<1> QED
  BY <1>1, <1>4, <1>5, IdlePromise DEF PromiseInv

LEMMA ReopenPromise ==
    ASSUME Orderly, FilesInv, FilesInv', PromiseInv, Reopen
    PROVE  PromiseInv' /\ PromiseStep
<1> DEFINE latest == Newest(NullFiles(versions.now))
<1>1. op = None /\ UNCHANGED <<objects, versions, configuration, faults>>
  BY DEF Reopen, directories, history
<1>2. QuietStep
  BY <1>1, UnchangedIsQuiet
<1>3. CASE op' = None
  BY <1>1, <1>2, <1>3, IdlePromise, QuietDone
<1>4. CASE /\ NullFiles(versions.now) # {} /\ latest.kind = "T"
           /\ op' = [NoOp EXCEPT !.kind = "recover", !.phase = "supersede",
                                 !.file = latest, !.keep = latest.pub]
  <2>1. Tops(latest, versions.now) /\ latest.kind \in NullKinds
    BY <1>4, Contents, NullsHaveATop
  <2>2. Outcomes(versions)' = {versions.now}
    BY <1>1, Quiet, SamePower DEF Rest, Settled, Outcomes
  <2> HIDE DEF latest
  <2>3. /\ op'.kind = "recover" /\ op'.phase = "supersede"
        /\ op'.file = latest /\ op'.keep = latest.pub
    BY <1>4 DEF NoOp
  <2>4. RoomLeft' /\ FileGood'
    BY <1>1, <2>1, <2>2, <2>3 DEF RoomLeft, FileGood, Tops
  <2> QED
    BY <1>1, <1>2, <2>4, QuietDone
<1> QED
  BY <1>1, <1>3, <1>4 DEF Reopen

LEMMA PowerLossPromise ==
    ASSUME BarriersGood, FilesInv, FilesInv', PromiseInv, PowerLoss
    PROVE  PromiseInv' /\ PromiseStep
<1>1. PICK x \in Outcomes(objects) : objects' = Fresh(x)
  BY DEF PowerLoss
<1>2. PICK y \in Outcomes(versions) : versions' = Fresh(y)
  BY DEF PowerLoss
<1>3. PICK z \in Outcomes(configuration) : configuration' = Fresh(z)
  BY DEF PowerLoss
<1>4. /\ Outcomes(objects)' = {x} /\ objects'.now = x
      /\ Outcomes(versions)' = {y} /\ versions'.now = y
      /\ Outcomes(configuration)' = {z}
  BY <1>1, <1>2, <1>3 DEF Outcomes, Fresh
<1>5. NumbersFit' /\ StatusGood'
  BY <1>4 DEF PromiseInv, NumbersFit, StatusGood
<1>6. RoomLeft' /\ FileGood'
  BY IdlePromise DEF PowerLoss
<1>7. \A k : Version(k)' \in Possible(k) /\ Possible(k)' = {Version(k)'}
  <2> SUFFICES ASSUME NEW k
               PROVE  Version(k)' \in Possible(k) /\ Possible(k)' = {Version(k)'}
    OBVIOUS
  <2>1. Version(k)' = VersionIn(k, x, y)
    BY <1>4 DEF Version
  <2>2. CASE k = 0
    BY <1>1, <1>2, <1>4, <2>1, <2>2 DEF Possible
  <2>3. CASE k # 0
    <3>1. VersionIn(k, x, y) = VersionIn(k, None, y)
      BY <2>3, OneLegacy
    <3> QED
      BY <1>1, <1>2, <1>4, <2>1, <2>3, <3>1 DEF Possible
  <2> QED
    BY <2>2, <2>3
<1>8. Promise!PowerLoss
  <2>1. TableTyped /\ TableTyped'
    BY Typed, TypedNext
  <2>2. \A k \in VersionKeys :
           /\ Table[k] = Version(k) /\ Table'[k] = Version(k)'
           /\ Fallback[k] = Possible(k) \ {Version(k)}
           /\ Fallback'[k] = {}
    BY <1>7 DEF Table, Fallback, Returning
  <2>3. Fallback' = [k \in VersionKeys |-> {}]
    BY <2>1, <2>2 DEF TableTyped
  <2>4. \A k \in VersionKeys : Table'[k] \in Fallback[k] \union {Table[k]}
    BY <1>7, <2>2
  <2> QED
    BY <2>1, <2>3, <2>4, PromiseKeys DEF TableTyped, Promise!PowerLoss
<1> QED
  BY <1>5, <1>6, <1>8 DEF PromiseInv, PromiseStep, Promise!Next

(***************************************************************************)
(* One more generation file                                                *)
(***************************************************************************)
LEMMA NextIsPositive == FilesInv => NextPublication \in Nat \ {0}
<1> SUFFICES ASSUME FilesInv PROVE NextPublication \in Nat \ {0}
  OBVIOUS
<1>1. versions.now # {} => Newest(versions.now).pub \in Nat
  BY Contents, NewestIsLast DEF Files
<1> QED
  BY <1>1 DEF NextPublication

LEMMA NextStaysPositive == FilesInv' => (NextPublication \in Nat \ {0})'
BY NextIsPositive, PTL

LEMMA Ordered ==
    ASSUME FilesInv, NumbersFit, NEW j \in Nat, Version(j) # None
    PROVE  Version(j).order \in Nat /\ Version(j).order < NextPublication
<1> DEFINE file == IF j = 0 THEN SelectNull(objects.now, versions.now)
                   ELSE SelectExact(versions.now, j)
<1>1. /\ objects.now \in Legacies /\ versions.now \in Generations
      /\ objects.now \in Outcomes(objects)
  BY Contents DEF Outcomes
<1>2. Version(j) = Value(file)
  BY DEF Version, VersionIn
<1>3. file \in Files \union {None}
  BY <1>1, NullOf, ExactOf
<1>4. file = objects.now \/ file \in versions.now \/ file = None
  BY <1>1, NullOf, ExactOf, GenerationFiles DEF OpaqueFiles
<1> HIDE DEF file
<1>5. file # None /\ Version(j).order = file.pub /\ file.pub \in Nat
  BY <1>2, <1>3, ValueOf DEF Files
<1>6. objects.now # None => objects.now.pub = 0
  BY <1>1 DEF NumbersFit
<1>7. NextPublication \in Nat \ {0} /\ \A f \in versions.now : f.pub < NextPublication
  BY NextIsPositive, NextIsNew
<1> QED
  BY <1>4, <1>5, <1>6, <1>7

Added(f) ==
    /\ f \in Files /\ f.pub = NextPublication /\ OnDevice(f) /\ f.kind # "L"
    /\ versions' = Change(versions, versions.now \union {f})
    /\ UNCHANGED <<objects, faults>>

LEMMA AddedFile ==
    ASSUME FilesInv, FilesInv', NumbersFit, Settled(objects),
           NextPublication <= MaxPublications, NEW f, Added(f)
    PROVE  /\ f.pub \in 1..MaxPublications
           /\ versions'.now = versions.now \union {f}
           /\ versions'.now \in Generations
           /\ NumbersFit'
           /\ NextPublication' <= NextPublication + 1
           /\ Tops(f, versions'.now)
<1>1. /\ f \in Files /\ f.pub = NextPublication /\ OnDevice(f) /\ f.kind # "L"
      /\ versions' = Change(versions, versions.now \union {f})
      /\ UNCHANGED <<objects, faults>>
  BY DEF Added
<1>2. NextPublication \in Nat \ {0} /\ MaxPublications \in Nat
      /\ \A g \in versions.now : g.pub < NextPublication /\ g.pub \in Nat
  BY NextIsPositive, NextIsNew, FilesAssumption, Contents, GenerationFiles
<1>3. f.pub \in 1..MaxPublications
  BY <1>1, <1>2
<1>4. versions'.now = versions.now \union {f} /\ versions'.now \in Generations
  BY <1>1, OneMoreFile DEF Change
<1>5. Outcomes(objects)' = Outcomes(objects)
      /\ Outcomes(versions)' \subseteq Outcomes(versions) \union {versions.now \union {f}}
      /\ versions.now \in Outcomes(versions)
  BY <1>1, SamePower DEF Outcomes, Change
<1>6. NumbersFit'
  BY <1>3, <1>5 DEF NumbersFit
<1>7. NextPublication' <= NextPublication + 1
  <2>1. \A g \in versions'.now : g.pub < NextPublication + 1
    <3> SUFFICES ASSUME NEW g \in versions'.now PROVE g.pub < NextPublication + 1
      OBVIOUS
    <3>1. g = f \/ g \in versions.now
      BY <1>4
    <3>2. g.pub \in Nat /\ g.pub <= NextPublication
      BY <1>1, <1>2, <3>1
    <3> QED
      BY <1>2, <3>2
  <2>2. NextPublication + 1 \in Nat \ {0}
    BY <1>2
  <2>3. versions'.now \in SUBSET Files /\ Numbered(versions'.now)
    BY <1>4, GenerationFiles
  <2> QED
    BY <2>1, <2>2, <2>3, NextFits DEF NextPublication
<1>8. Tops(f, versions'.now)
  BY <1>1, <1>2, <1>4 DEF Tops, NullFiles
<1> QED
  BY <1>3, <1>4, <1>6, <1>7, <1>8

LEMMA AddedVersion ==
    ASSUME FilesInv, FilesInv', NumbersFit, Settled(objects),
           NextPublication <= MaxPublications, NEW f, Added(f)
    PROVE  /\ f.kind \in {"O", "M"} => Promise!Publish(f.pub)
           /\ f.kind \in {"N", "D"} => Promise!Publish(0)
           /\ f.kind = "T" /\ Version(0) # None => Promise!Remove(0)
<1> DEFINE v == versions.now \union {f}
<1>1. /\ f \in Files /\ f.pub = NextPublication /\ f.kind # "L"
      /\ versions' = Change(versions, v) /\ UNCHANGED <<objects, faults>>
  BY DEF Added
<1>2. /\ f.pub \in 1..MaxPublications /\ versions'.now = v /\ v \in Generations
      /\ Tops(f, v)
  BY AddedFile
<1>3. /\ \A j : Possible(j)' \subseteq Possible(j) \union {Version(j)'}
      /\ \A j : Version(j)' = VersionIn(j, objects.now, v)
      /\ \A j : Version(j) = VersionIn(j, objects.now, versions.now)
  BY <1>1, VersionsPossible DEF Version
<1>4. /\ objects.now \in Legacies /\ versions.now \in Generations
      /\ \A g \in versions.now : g.pub < NextPublication /\ g.pub \in Nat
      /\ NextPublication \in Nat \ {0}
  BY Contents, NextIsNew, GenerationFiles, NextIsPositive
<1>5. /\ Value(f) \in FileValues /\ Value(f) # None /\ Value(f).order = f.pub
  BY <1>1, NoneIsNoFile, ValueOf
<1>6. \A j \in VersionKeys : Version(j) # None =>
         Version(j).order \in Nat /\ Version(j).order < f.pub
  BY <1>1, PromiseKeys, Ordered
<1> HIDE DEF v
<1>7. CASE f.kind \in {"O", "M"}
  <2>1. NullFiles(v) = NullFiles(versions.now)
    BY <1>7 DEF NullFiles, NullKinds, v
  <2>2. Version(0)' = Version(0)
    BY <1>3, <2>1, SameNulls DEF VersionIn
  <2>3. ASSUME NEW j \in VersionKeys, j # 0, j # f.pub PROVE Version(j)' = Version(j)
    <3>1. {g \in OpaqueFiles(v) : g.pub = j}
            = {g \in OpaqueFiles(versions.now) : g.pub = j}
      BY <2>3 DEF OpaqueFiles, NullFiles, v
    <3> QED
      BY <1>3, <2>3, <3>1, SameExact DEF VersionIn
  <2>4. Returns(f.pub) /\ f.pub \in VersionKeys /\ f.pub # 0
    BY <1>2, <1>3, <2>2, <2>3, PromiseKeys DEF Returns
  <2>5. Version(f.pub) = None
    <3>1. SelectExact(versions.now, f.pub) = None
      BY <1>1, <1>4, ExactOf DEF OpaqueFiles
    <3> QED
      BY <1>3, <2>4, <3>1 DEF VersionIn, Value
  <2>6. Version(f.pub)' = Value(f)
    <3>1. f \in OpaqueFiles(v)
      BY <1>7 DEF OpaqueFiles, NullFiles, NullKinds, v
    <3>2. SelectExact(v, f.pub) = f
      BY <1>2, <3>1, ExactOf
    <3> QED
      BY <1>3, <2>4, <3>2 DEF VersionIn
  <2>7. /\ Promise!Move(f.pub) /\ f.pub \in Promise!Keys
        /\ \A j \in VersionKeys : Table[j] = Version(j) /\ Table'[j] = Version(j)'
    BY <2>4, StepMoves
  <2> QED
    BY <1>5, <1>6, <1>7, <2>4, <2>5, <2>6, <2>7, PromiseKeys
       DEF Promise!Publish, Promise!Present
<1>8. CASE f.kind \in NullKinds
  <2>1. \A j : {g \in OpaqueFiles(v) : g.pub = j}
                 = {g \in OpaqueFiles(versions.now) : g.pub = j}
    BY <1>8 DEF OpaqueFiles, NullFiles, v
  <2>2. \A j \in VersionKeys : j # 0 => Version(j)' = Version(j)
    BY <1>3, <2>1, SameExact DEF VersionIn
  <2>3. Returns(0)
    BY <1>3, <2>2 DEF Returns
  <2>4. /\ Promise!Move(0) /\ 0 \in Promise!Keys /\ 0 \in VersionKeys
        /\ \A j \in VersionKeys : Table[j] = Version(j) /\ Table'[j] = Version(j)'
    BY <2>3, StepMoves, PromiseKeys
  <2>5. SelectNull(objects.now, v) = IF f.kind = "T" THEN None ELSE f
    BY <1>2, <1>8, TopIsSelected
  <2>6. Version(0)' = IF f.kind = "T" THEN None ELSE Value(f)
    BY <1>3, <2>5 DEF VersionIn, Value
  <2>7. CASE f.kind = "T"
    BY <2>4, <2>6, <2>7, PromiseKeys DEF Promise!Remove, Promise!Present
  <2>8. CASE f.kind # "T"
    <3>1. \A j \in VersionKeys : Table[j] # None => Table[j].order \in Nat /\ Table[j].order < f.pub
      BY <1>6, <2>4
    <3>2. Table'[0] = Value(f)
      BY <2>4, <2>6, <2>8
    <3>3. f.pub \in Nat /\ f.kind \in {"N", "D"}
      BY <1>1, <1>4, <1>8, <2>8 DEF NullKinds
    <3>4. Table'[0] # None /\ Table'[0].order = f.pub
      BY <1>5, <3>2
    <3>5. 0 \in Promise!Present => Table[0].order <= Table'[0].order
      BY <2>4, <3>1, <3>3, <3>4 DEF Promise!Present
    <3>6. \A j \in Promise!Present \ {0} : Table[j].order < Table'[0].order
      BY <3>1, <3>4, PromiseKeys DEF Promise!Present
    <3>7. Promise!Publish(0)
      BY <2>4, <3>4, <3>5, <3>6 DEF Promise!Publish
    <3> QED
      BY <3>3, <3>7
  <2> QED
    BY <2>7, <2>8
<1> QED
  BY <1>1, <1>7, <1>8 DEF Files, FileKinds, NullKinds

(***************************************************************************)
(* Publications                                                            *)
(***************************************************************************)
LEMMA PublishPromise ==
    ASSUME Orderly, FilesInv, FilesInv', PromiseInv, Publish
    PROVE  PromiseInv' /\ PromiseStep
<1>1. /\ op \in Operation /\ op # None /\ op.phase = "publish" /\ op.syncs = <<>>
      /\ UNCHANGED <<configuration, faults>>
  BY DEF Publish, InPhase, FilesInv, OperationGood
<1>2. Rest
  BY <1>1, Quiet
<1>3. /\ op.kind # "delete" /\ NextPublication <= MaxPublications
      /\ NextPublication \in Nat \ {0}
  BY <1>1, NextIsPositive DEF PromiseInv, RoomLeft
<1>4. /\ NewRecord \in Files /\ OnDevice(NewRecord) /\ NewRecord # None
      /\ Status = "Unconfigured" => NewRecord.kind = "L" /\ NewRecord.pub = 0
      /\ Status # "Unconfigured" =>
            NewRecord.kind \in {"O", "N"} /\ NewRecord.pub = NextPublication
  BY <1>1, NewRecordIsFile, NoneIsNoFile
<1>5. /\ op'.kind = op.kind /\ op'.phase = "retire" /\ op'.file = NewRecord
      /\ op'.keep = NewRecord.pub
  BY <1>1, PublicationIsRetired DEF Publish, Operation
<1>6. RoomLeft'
  BY <1>3, <1>5 DEF RoomLeft
<1>7. CASE Status = "Unconfigured"
  <2>1. objects' = Change(objects, NewRecord) /\ UNCHANGED versions
    BY <1>7 DEF Publish
  <2>2. Outcomes(versions) = {{}} /\ versions.now = {}
    BY <1>7 DEF PromiseInv, StatusGood, Status, Outcomes
  <2>3. Settled(versions) /\ Outcomes(versions)' = {{}}
    BY <1>1, <2>1, <2>2, SamePower DEF Settled, Outcomes
  <2>4. Outcomes(objects)' \subseteq {objects.now, NewRecord}
        /\ objects.now \in Outcomes(objects)
    BY <1>1, <1>2, <2>1, SamePower DEF Rest, Settled, Outcomes, Change
  <2>5. NumbersFit' /\ StatusGood'
    BY <1>4, <1>7, <2>3, <2>4 DEF PromiseInv, NumbersFit, StatusGood
  <2>6. FileGood'
    BY <1>4, <1>5, <1>7 DEF FileGood
  <2>7. /\ \A j : Possible(j)' \subseteq Possible(j) \union {Version(j)'}
        /\ \A j : Version(j)' = VersionIn(j, NewRecord, versions.now)
        /\ \A j : j # 0 => Version(j)' = Version(j)
    BY <1>1, <2>1, <2>3, ObjectsPossible
  <2>8. Returns(0)
    BY <2>7 DEF Returns
  <2>9. /\ Promise!Move(0) /\ 0 \in Promise!Keys /\ 0 \in VersionKeys
        /\ \A j \in VersionKeys : Table[j] = Version(j) /\ Table'[j] = Version(j)'
    BY <2>8, StepMoves, PromiseKeys
  <2>10. NullFiles({}) = {} /\ \A j : SelectExact({}, j) = None
    BY DEF NullFiles, OpaqueFiles, SelectExact
  <2>11. Version(0)' = Value(NewRecord) /\ Version(0) = Value(objects.now)
    BY <2>2, <2>7, <2>10 DEF Version, VersionIn, SelectNull
  <2>12. Value(NewRecord) # None /\ Value(NewRecord).order = 0
    BY <1>4, <1>7, ValueOf
  <2>13. Version(0) # None => Version(0).order = 0
    <3>1. objects.now \in Files \union {None} /\ (objects.now # None => objects.now.pub = 0)
      BY <2>4, Contents DEF PromiseInv, NumbersFit, Legacies
    <3> QED
      BY <2>11, <3>1, ValueOf
  <2>14. \A j \in VersionKeys : j # 0 => Version(j) = None
    BY <2>2, <2>10 DEF Version, VersionIn, Value
  <2>15. Promise!Publish(0)
    BY <2>9, <2>11, <2>12, <2>13, <2>14, PromiseKeys
       DEF Promise!Publish, Promise!Present
  <2> QED
    BY <1>6, <2>5, <2>6, <2>9, <2>15 DEF PromiseInv, PromiseStep, Promise!Next
<1>8. CASE Status # "Unconfigured"
  <2>1. Added(NewRecord)
    BY <1>1, <1>4, <1>8 DEF Publish, Added
  <2>2. /\ Settled(objects) /\ NumbersFit
        /\ "Unconfigured" \notin Outcomes(configuration)
    BY <1>2, <1>8 DEF Rest, Settled, PromiseInv, Status
  <2>3. /\ NewRecord.pub \in 1..MaxPublications /\ NumbersFit'
        /\ Tops(NewRecord, versions'.now)
    BY <1>3, <2>1, <2>2, AddedFile
  <2>4. StatusGood'
    BY <1>1, <2>2, SamePower DEF StatusGood, Outcomes
  <2>5. FileGood'
    BY <1>4, <1>5, <1>8, <2>3 DEF FileGood
  <2>6. \/ Promise!Publish(NewRecord.pub) \/ Promise!Publish(0)
    BY <1>3, <1>4, <1>8, <2>1, <2>2, AddedVersion
  <2> QED
    BY <1>6, <2>3, <2>4, <2>5, <2>6, PromiseKeys
       DEF PromiseInv, PromiseStep, Promise!Next
<1> QED
  BY <1>7, <1>8

LEMMA MarkedEntry ==
    ASSUME NEW entry
    PROVE  /\ EntryEffect(entry) \in {"M", "D"} => Status # "Unconfigured"
           /\ EntryEffect(entry) = "T" =>
                 Select(NullVersion) # None /\ Select(NullVersion).kind # "L"
<1>1. EntryEffect(entry) \in {"M", "D"} => Status # "Unconfigured"
  BY DEF EntryEffect
<1>2. ASSUME EntryEffect(entry) = "T"
      PROVE  Select(NullVersion) # None /\ Select(NullVersion).kind # "L"
  <2>1. entry.selector = NullVersion
    BY <1>2 DEF EntryEffect
  <2>2. entry.selector # CurrentVersion
    BY <2>1 DEF NullVersion, CurrentVersion
  <2> QED
    BY <1>2, <2>1, <2>2 DEF EntryEffect
<1> QED
  BY <1>1, <1>2

LEMMA PublishMarkerPromise ==
    ASSUME Orderly, FilesInv, FilesInv', PromiseInv,
           PublishMarker
    PROVE  PromiseInv' /\ PromiseStep
<1> DEFINE kind == EntryEffect(Head(op.entries))
           marker == SyncFile(Record(NextPublication, kind, 0,
                                     PathId(NextPublication, kind)))
           phase == IF kind = "M" THEN "entry" ELSE "supersede"
           next == NextEntry(phase, marker)
<1>1. /\ op \in Operation /\ op # None /\ op.phase = "entry" /\ op.syncs = <<>>
      /\ op.entries # <<>>
      /\ UNCHANGED <<objects, configuration, faults>>
      /\ kind \in {"M", "D", "T"}
      /\ versions' = Change(versions, versions.now \union {marker})
      /\ op' = [next EXCEPT !.keep = marker.pub, !.syncs = <<"versions">>]
  BY DEF PublishMarker, InPhase, FilesInv, OperationGood
<1>2. /\ kind \in {"M", "D"} => Status # "Unconfigured"
      /\ kind = "T" => Select(NullVersion) # None /\ Select(NullVersion).kind # "L"
  BY MarkedEntry
<1> HIDE DEF kind
<1>3. NextPublication \in Nat \ {0} /\ NextPublication \in Nat /\ kind \in FileKinds
  BY <1>1, NextIsPositive DEF FileKinds
<1>4. PathId(NextPublication, kind) \in Ids
  BY <1>3 DEF PathId, Ids
<1>5. /\ marker \in Files /\ OnDevice(marker)
      /\ marker.pub = NextPublication /\ marker.kind = kind
  BY <1>3, <1>4, RecordIsFile
<1> HIDE DEF marker
<1>6. phase \in Phases
  BY DEF Phases
<1>7. /\ next \in Operation /\ next.kind = op.kind /\ next.phase = phase
      /\ next.file = marker /\ next.entries = Tail(op.entries)
  <2>1. next.entries = Tail(op.entries)
    BY <1>1 DEF NextEntry, Operation
  <2> QED
    BY <1>1, <1>5, <1>6, <2>1, NextEntryOperation
<1> HIDE DEF next, phase
<1>8. /\ op'.kind = op.kind /\ op'.phase = phase /\ op'.file = marker
      /\ op'.entries = Tail(op.entries) /\ op'.keep = marker.pub
      /\ op'.syncs = <<"versions">>
  BY <1>1, <1>7 DEF Operation
<1>9. Rest
  BY <1>1, Quiet
<1>10. /\ Len(Tail(op.entries)) = Len(op.entries) - 1
       /\ Len(op.entries) \in Nat \ {0} /\ MaxPublications \in Nat
  BY <1>1, FilesAssumption DEF Operation
<1>11. op.kind = "delete" /\ NextPublication + Len(op.entries) <= MaxPublications + 1
  BY <1>1 DEF PromiseInv, RoomLeft
<1>12. Added(marker) /\ Settled(objects) /\ NumbersFit
       /\ NextPublication <= MaxPublications
  <2>1. marker.kind # "L"
    BY <1>1, <1>5
  <2> QED
    BY <1>1, <1>3, <1>5, <1>9, <1>10, <1>11, <2>1 DEF Added, Rest, PromiseInv
<1>13. /\ marker.pub \in 1..MaxPublications /\ NumbersFit'
       /\ NextPublication' <= NextPublication + 1
       /\ Tops(marker, versions'.now)
  BY <1>12, AddedFile
<1>14. NextPublication' \in Nat
  BY NextStaysPositive
<1>15. RoomLeft'
  BY <1>3, <1>8, <1>10, <1>11, <1>13, <1>14 DEF RoomLeft, phase
<1>16. Due("versions")'
  BY <1>8 DEF Due
<1>17. FileGood'
  BY <1>1, <1>5, <1>8, <1>13, <1>16 DEF FileGood, phase, NullKinds
<1>18. "Unconfigured" \notin Outcomes(configuration)
  <2>1. CASE kind \in {"M", "D"}
    BY <1>2, <1>9, <2>1 DEF Rest, Settled, Status
  <2>2. CASE kind = "T"
    <3>1. Select(NullVersion) \in versions.now
      BY <1>2, <2>2, Selected
    <3>2. versions.now \in Outcomes(versions)
      BY DEF Outcomes
    <3> QED
      BY <3>1, <3>2 DEF PromiseInv, StatusGood
  <2> QED
    BY <1>1, <2>1, <2>2
<1>19. StatusGood'
  BY <1>1, <1>18, SamePower DEF StatusGood, Outcomes
<1>20. kind = "T" => Version(0) # None
  <2>1. Select(NullVersion) = SelectNull(objects.now, versions.now)
    BY DEF Select, NullVersion, CurrentVersion
  <2> QED
    BY <1>2, <2>1, Selected, ValueOf DEF Version, VersionIn
<1>21. Promise!Publish(marker.pub) \/ Promise!Publish(0) \/ Promise!Remove(0)
  BY <1>1, <1>5, <1>12, <1>20, AddedVersion
<1> QED
  BY <1>13, <1>15, <1>17, <1>19, <1>21, PromiseKeys
     DEF PromiseInv, PromiseStep, Promise!Next

(***************************************************************************)
(* Removals                                                                *)
(***************************************************************************)
LEMMA LastStays ==
    ASSUME FilesInv, FilesInv', \A g \in versions'.now : g.pub < NextPublication
    PROVE  /\ NextPublication' <= NextPublication
           /\ NextPublication \in Nat /\ NextPublication' \in Nat
<1>1. NextPublication \in Nat \ {0} /\ NextPublication' \in Nat \ {0}
  BY NextIsPositive, NextStaysPositive
<1>2. versions'.now \in SUBSET Files /\ Numbered(versions'.now)
  BY DEF FilesInv, DirectoriesGood, Directory, Generations
<1>3. NextPublication' <= NextPublication
  BY <1>1, <1>2, NextFits DEF NextPublication
<1> QED
  BY <1>1, <1>3

\* Fewer files, or one replaced by another with its number.
LEMMA ReplacedFiles ==
    ASSUME FilesInv, FilesInv', PromiseInv, NEW v,
           versions' = Change(versions, v), UNCHANGED <<objects, configuration, faults>>,
           \A g \in v : \E f \in versions.now : f.pub = g.pub
    PROVE  /\ NumbersFit' /\ StatusGood'
           /\ NextPublication' <= NextPublication
           /\ NextPublication \in Nat /\ NextPublication' \in Nat
<1>1. /\ versions'.now = v
      /\ Outcomes(versions)' \subseteq Outcomes(versions) \union {v}
      /\ versions.now \in Outcomes(versions)
      /\ Outcomes(objects)' = Outcomes(objects)
      /\ Outcomes(configuration)' = Outcomes(configuration)
  BY SamePower DEF Outcomes, Change
<1>2. NumbersFit'
  BY <1>1 DEF PromiseInv, NumbersFit
<1>3. versions.now = {} => v = {}
  OBVIOUS
<1>4. StatusGood'
  BY <1>1, <1>3 DEF PromiseInv, StatusGood
<1>5. \A g \in versions'.now : g.pub < NextPublication
  BY <1>1, NextIsNew
<1> QED
  BY <1>2, <1>4, <1>5, LastStays

LEMMA RemovedObject ==
    ASSUME FilesInv, FilesInv', PromiseInv, NEW o \in Legacies,
           objects' = Change(objects, o), o # None => o.pub = 0,
           UNCHANGED <<versions, configuration, faults>>
    PROVE  NumbersFit' /\ StatusGood' /\ NextPublication' = NextPublication
<1>1. /\ Outcomes(objects)' \subseteq Outcomes(objects) \union {o}
      /\ Outcomes(versions)' = Outcomes(versions)
      /\ Outcomes(configuration)' = Outcomes(configuration)
  BY SamePower DEF Outcomes, Change
<1> QED
  BY <1>1 DEF PromiseInv, NumbersFit, StatusGood, NextPublication

\* The removal of what a null generation covers goes on.
LEMMA NotesSuperseded ==
    ASSUME FilesInv, FilesInv', PromiseInv, InPhase("supersede"),
           Continue("supersede", <<"notes">>),
           UNCHANGED <<objects, versions, configuration, faults>>
    PROVE  PromiseInv' /\ PromiseStep
<1>1. op \in Operation /\ op # None /\ op.phase = "supersede" /\ op.syncs = <<>>
  BY DEF InPhase, FilesInv, OperationGood
<1>2. "supersede" \in Phases /\ <<"notes">> \in Seq(Barriers)
  BY BarrierSequences DEF Phases, Barriers
<1>3. /\ op'.kind = op.kind /\ op'.phase = "supersede" /\ op'.entries = op.entries
      /\ op'.file = op.file /\ op'.keep = op.keep
  BY <1>1, <1>2, ContinuedDue, ContinuedRest
<1>4. /\ NextPublication' = NextPublication
      /\ Outcomes(versions)' = Outcomes(versions)
  BY SamePower, UnchangedIsQuiet, QuietNext DEF Outcomes
<1>5. RoomLeft'
  BY <1>1, <1>3, <1>4 DEF PromiseInv, RoomLeft
<1>6. FileGood'
  BY <1>1, <1>3, <1>4, NothingDue DEF PromiseInv, FileGood, Tops
<1> QED
  BY <1>5, <1>6, UnchangedIsQuiet, QuietDone

LEMMA RemoveSupersededPromise ==
    ASSUME Orderly, FilesInv, FilesInv', PromiseInv,
           NEW f \in Superseded, RemoveSuperseded(f)
    PROVE  PromiseInv' /\ PromiseStep
<1> DEFINE v == versions.now \ {f}
<1>1. /\ op \in Operation /\ op # None /\ op.phase = "supersede" /\ op.syncs = <<>>
      /\ InPhase("supersede")
      /\ UNCHANGED <<objects, configuration, faults>>
  BY DEF RemoveSuperseded, InPhase, FilesInv, OperationGood
<1>2. CASE Continue("supersede", <<"notes">>) /\ UNCHANGED versions
  BY <1>1, <1>2, NotesSuperseded
<1>3. CASE versions' = Change(versions, v) /\ UNCHANGED op
  <2>1. Settled(objects)
    BY <1>1, NothingDue DEF Orderly, ObjectsSettle
  <2>2. /\ op.file.kind \in NullKinds /\ op.keep = op.file.pub
        /\ Tops(op.file, versions.now)
        /\ \A g \in Outcomes(versions) : Tops(op.file, g)
    BY <1>1, NothingDue DEF PromiseInv, FileGood
  <2>3. f \in NullFiles(versions.now) /\ f # op.file
    BY <2>2 DEF Superseded
  <2>4. Tops(op.file, v)
    BY <2>2, <2>3 DEF Tops, NullFiles
  <2>5. v \in Generations /\ versions.now \in Generations
    BY Contents, FewerFiles
  <2>6. \A g \in v : \E h \in versions.now : h.pub = g.pub
    OBVIOUS
  <2>7. Outcomes(versions)' \subseteq Outcomes(versions) \union {v} /\ versions'.now = v
    BY <1>1, <1>3, SamePower DEF Outcomes, Change
  <2> HIDE DEF v
  <2>8. /\ NumbersFit' /\ StatusGood' /\ NextPublication' <= NextPublication
        /\ NextPublication \in Nat /\ NextPublication' \in Nat
    BY <1>1, <1>3, <2>6, ReplacedFiles
  <2>9. RoomLeft'
    <3>1. Len(op.entries) \in Nat /\ MaxPublications \in Nat
      BY <1>1, FilesAssumption DEF Operation
    <3> QED
      BY <1>1, <1>3, <2>8, <3>1 DEF PromiseInv, RoomLeft
  <2>10. FileGood'
    BY <1>1, <1>3, <2>2, <2>4, <2>7 DEF FileGood
  <2>11. /\ \A j : Possible(j)' \subseteq Possible(j) \union {Version(j)'}
         /\ \A j : Version(j)' = VersionIn(j, objects.now, v)
         /\ \A j : Version(j) = VersionIn(j, objects.now, versions.now)
    BY <1>1, <1>3, <2>1, VersionsPossible DEF Version
  <2>12. Version(0)' = Version(0)
    BY <2>2, <2>4, <2>5, <2>11, TopIsSelected DEF VersionIn
  <2>13. \A j : {g \in OpaqueFiles(v) : g.pub = j}
                  = {g \in OpaqueFiles(versions.now) : g.pub = j}
    BY <2>3 DEF OpaqueFiles, NullFiles, v
  <2>14. \A j : j # 0 => Version(j)' = Version(j)
    BY <2>11, <2>13, SameExact DEF VersionIn
  <2>15. Promise!Settle
    BY <2>11, <2>12, <2>14, StepSettles
  <2> QED
    BY <2>8, <2>9, <2>10, <2>15 DEF PromiseInv, PromiseStep, Promise!Next
<1> QED
  BY <1>2, <1>3 DEF RemoveSuperseded

LEMMA RemoveLegacyPromise ==
    ASSUME FilesInv, FilesInv', PromiseInv, RemoveLegacy
    PROVE  PromiseInv' /\ PromiseStep
<1>1. /\ op \in Operation /\ op # None /\ op.phase = "supersede" /\ op.syncs = <<>>
      /\ InPhase("supersede") /\ Superseded = {}
      /\ UNCHANGED <<versions, configuration, faults>>
  BY DEF RemoveLegacy, InPhase, FilesInv, OperationGood
<1>2. CASE UNCHANGED objects /\ Continue("supersede", <<"notes">>)
  BY <1>1, <1>2, NotesSuperseded
<1>3. ASSUME NEW syncs \in Seq(Barriers), Continue(AfterSuperseded, syncs),
             objects'.now = None
      PROVE  FileGood' /\ (NextPublication' = NextPublication => RoomLeft')
  <2>1. AfterSuperseded \in {"entomb", "entry", "finish"} /\ AfterSuperseded \in Phases
    BY DEF AfterSuperseded, Afterwards, Phases
  <2>2. /\ AfterSuperseded = "entomb" => op.file.kind = "T"
        /\ AfterSuperseded = "entry" => op.kind = "delete"
    BY DEF AfterSuperseded, Afterwards
  <2>3. /\ op'.kind = op.kind /\ op'.phase = AfterSuperseded
        /\ op'.entries = op.entries /\ op'.file = op.file /\ op'.keep = op.keep
    BY <1>1, <1>3, <2>1, ContinuedDue, ContinuedRest
  <2>4. \A x \in NullFiles(versions.now) : x.pub = op.keep
    BY <1>1 DEF Superseded
  <2>5. op.keep = op.file.pub /\ Tops(op.file, versions.now)
    BY <1>1 DEF PromiseInv, FileGood
  <2> HIDE DEF AfterSuperseded
  <2>6. FileGood'
    BY <1>1, <1>3, <2>1, <2>2, <2>3, <2>4, <2>5 DEF FileGood
  <2>7. NextPublication' = NextPublication => RoomLeft'
    BY <1>1, <2>1, <2>2, <2>3 DEF PromiseInv, RoomLeft
  <2> QED
    BY <2>6, <2>7
<1>4. <<"versions">> \in Seq(Barriers) /\ <<"objects", "versions">> \in Seq(Barriers)
  BY BarrierSequences DEF Barriers
<1>5. CASE /\ objects.now = None /\ UNCHANGED objects
           /\ Continue(AfterSuperseded, <<"versions">>)
  <2>1. QuietStep /\ NextPublication' = NextPublication
    BY <1>1, <1>5, UnchangedIsQuiet, QuietNext
  <2>2. FileGood' /\ RoomLeft'
    BY <1>3, <1>4, <1>5, <2>1
  <2> QED
    BY <1>1, <2>1, <2>2, QuietDone
<1>6. CASE /\ objects' = Change(objects, None)
           /\ Continue(AfterSuperseded, <<"objects", "versions">>)
  <2>1. objects'.now = None /\ None \in Legacies
    BY <1>6 DEF Change, Legacies
  <2>2. NumbersFit' /\ StatusGood' /\ NextPublication' = NextPublication
    BY <1>1, <1>6, <2>1, RemovedObject
  <2>3. FileGood' /\ RoomLeft'
    BY <1>3, <1>4, <1>6, <2>1, <2>2
  <2>4. /\ op.file.kind \in NullKinds
        /\ \A g \in Outcomes(versions) : Tops(op.file, g)
    BY <1>1, NothingDue DEF PromiseInv, FileGood
  <2>5. /\ Outcomes(versions)' = Outcomes(versions)
        /\ Outcomes(versions) \subseteq Generations
        /\ versions.now \in Outcomes(versions)
        /\ objects.now \in Outcomes(objects)
    BY <1>1, SamePower, OutcomesGood DEF Outcomes
  <2> DEFINE top == IF op.file.kind = "T" THEN None ELSE op.file
  <2>6. \A g \in Outcomes(versions) : \A o : SelectNull(o, g) = top
    BY <2>4, <2>5, TopIsSelected
  <2> HIDE DEF top
  <2>7. \A g \in Outcomes(versions) : \A o : VersionIn(0, o, g) = Value(top)
    BY <2>6 DEF VersionIn
  <2>8. Version(0)' = Value(top) /\ Version(0) = Value(top)
    BY <1>1, <2>5, <2>7 DEF Version
  <2>9. Possible(0)' \subseteq {Value(top)}
    BY <2>5, <2>7 DEF Possible
  <2>10. \A j : j # 0 => Version(j)' = Version(j) /\ Possible(j)' = Possible(j)
    BY <1>1, <2>5 DEF Version, VersionIn, Possible
  <2>11. Promise!Settle
    BY <2>8, <2>9, <2>10, StepSettles
  <2> QED
    BY <2>2, <2>3, <2>11 DEF PromiseInv, PromiseStep, Promise!Next
<1> QED
  BY <1>2, <1>5, <1>6 DEF RemoveLegacy

LEMMA EntombPromise ==
    ASSUME Orderly, FilesInv, FilesInv', PromiseInv, Entomb
    PROVE  PromiseInv' /\ PromiseStep
<1> DEFINE v == {f \in versions.now : f.pub # op.keep}
<1>1. /\ op \in Operation /\ op # None /\ op.phase = "entomb" /\ op.syncs = <<>>
      /\ UNCHANGED <<objects, configuration, faults>>
      /\ versions' = Change(versions, v) /\ Continue(Afterwards, <<"versions">>)
  BY DEF Entomb, InPhase, FilesInv, OperationGood
<1>2. /\ Afterwards \in Phases /\ Afterwards \in {"entry", "finish"}
      /\ Afterwards = "entry" => op.kind = "delete"
      /\ <<"versions">> \in Seq(Barriers)
  BY BarrierSequences DEF Afterwards, Phases, Barriers
<1>3. /\ op'.kind = op.kind /\ op'.phase = Afterwards
      /\ op'.entries = op.entries
  BY <1>1, <1>2, ContinuedDue, ContinuedRest
<1>4. Settled(objects)
  BY <1>1, Quiet DEF Rest
<1>5. /\ op.file.kind = "T" /\ op.keep = op.file.pub
      /\ Tops(op.file, versions.now) /\ objects.now = None
      /\ \A x \in NullFiles(versions.now) : x.pub = op.keep
  BY <1>1 DEF PromiseInv, FileGood
<1>6. versions.now \in Generations /\ \A g \in v : \E h \in versions.now : h.pub = g.pub
  BY Contents
<1>7. NullFiles(v) = {}
  BY <1>5 DEF NullFiles
<1>8. \A j : {g \in OpaqueFiles(v) : g.pub = j}
               = {g \in OpaqueFiles(versions.now) : g.pub = j}
  <2>1. \A g \in versions.now : g.pub = op.keep => g = op.file
    BY <1>5, <1>6, GenerationFiles DEF Tops, Unique
  <2>2. op.file \in NullFiles(versions.now)
    BY <1>5 DEF Tops, NullFiles, NullKinds
  <2> QED
    BY <2>1, <2>2 DEF OpaqueFiles, NullFiles
<1> HIDE DEF v
<1>9. /\ NumbersFit' /\ StatusGood' /\ NextPublication' <= NextPublication
      /\ NextPublication \in Nat /\ NextPublication' \in Nat
  BY <1>1, <1>6, ReplacedFiles
<1>10. RoomLeft' /\ FileGood'
  <2>1. Len(op.entries) \in Nat /\ MaxPublications \in Nat
    BY <1>1, FilesAssumption DEF Operation
  <2>2. RoomLeft'
    BY <1>1, <1>2, <1>3, <1>9, <2>1 DEF PromiseInv, RoomLeft
  <2> QED
    BY <1>2, <1>3, <2>2 DEF FileGood
<1>11. /\ \A j : Possible(j)' \subseteq Possible(j) \union {Version(j)'}
       /\ \A j : Version(j)' = VersionIn(j, objects.now, v)
       /\ \A j : Version(j) = VersionIn(j, objects.now, versions.now)
  BY <1>1, <1>4, VersionsPossible DEF Version
<1>12. Version(0)' = Version(0)
  <2>1. SelectNull(objects.now, v) = None
    BY <1>5, <1>7 DEF SelectNull
  <2>2. SelectNull(objects.now, versions.now) = None
    BY <1>5, <1>6, TopIsSelected DEF NullKinds
  <2> QED
    BY <1>11, <2>1, <2>2 DEF VersionIn
<1>13. \A j : j # 0 => Version(j)' = Version(j)
  BY <1>8, <1>11, SameExact DEF VersionIn
<1>14. Promise!Settle
  BY <1>11, <1>12, <1>13, StepSettles
<1> QED
  BY <1>9, <1>10, <1>14 DEF PromiseInv, PromiseStep, Promise!Next

LEMMA UnlinkPromise ==
    ASSUME Orderly, FilesInv, FilesInv', PromiseInv, Unlink
    PROVE  PromiseInv' /\ PromiseStep
<1> DEFINE file == op.file
<1>1. /\ op \in Operation /\ op # None /\ op.phase = "unlink" /\ op.syncs = <<>>
      /\ UNCHANGED <<configuration, faults>>
      /\ Continue("entry", <<"objects">>) \/ Continue("entry", <<"versions">>)
  BY DEF Unlink, InPhase, FilesInv, OperationGood
<1>2. /\ <<"objects">> \in Seq(Barriers) /\ <<"versions">> \in Seq(Barriers)
      /\ "entry" \in Phases
  BY BarrierSequences DEF Barriers, Phases
<1>3. op'.kind = op.kind /\ op'.phase = "entry" /\ op'.entries = op.entries
  BY <1>1, <1>2, ContinuedDue, ContinuedRest
<1>4. Settled(objects) /\ Settled(versions)
  BY <1>1, Quiet DEF Rest
<1>5. file.kind \in {"L", "O", "M"} /\ Live(file) /\ op.kind = "delete"
  BY <1>1 DEF PromiseInv, FileGood, RoomLeft
<1>6. FileGood'
  BY <1>3 DEF FileGood
<1>7. Len(op.entries) \in Nat /\ MaxPublications \in Nat
  BY <1>1, FilesAssumption DEF Operation
<1>8. /\ objects.now \in Legacies /\ versions.now \in Generations
      /\ versions.now \in Outcomes(versions)
  BY Contents DEF Outcomes
<1> HIDE DEF file
<1>9. CASE file.kind = "L"
  <2>1. objects' = Change(objects, None) /\ UNCHANGED versions
    BY <1>9 DEF Unlink, file
  <2>2. None \in Legacies
    BY DEF Legacies
  <2>3. NumbersFit' /\ StatusGood' /\ NextPublication' = NextPublication
    BY <1>1, <2>1, <2>2, RemovedObject
  <2>4. RoomLeft'
    BY <1>1, <1>3, <1>5, <2>3 DEF PromiseInv, RoomLeft
  <2>5. /\ \A j : Possible(j)' \subseteq Possible(j) \union {Version(j)'}
        /\ \A j : Version(j)' = VersionIn(j, None, versions.now)
        /\ \A j : j # 0 => Version(j)' = Version(j)
    BY <1>1, <1>4, <2>1, ObjectsPossible
  <2>6. Version(0)' = None /\ Version(0) # None
    <3>1. file = objects.now /\ NullFiles(versions.now) = {}
      BY <1>5, <1>9 DEF Live
    <3>2. objects.now \in Files /\ objects.now # None
      BY <1>8, <1>9, <3>1 DEF Legacies, None
    <3> QED
      BY <2>5, <3>1, <3>2, ValueOf DEF Version, VersionIn, SelectNull, Value
  <2>7. Returns(0)
    BY <2>5 DEF Returns
  <2>8. /\ Promise!Move(0) /\ 0 \in Promise!Keys /\ 0 \in VersionKeys
        /\ \A j \in VersionKeys : Table[j] = Version(j) /\ Table'[j] = Version(j)'
    BY <2>7, StepMoves, PromiseKeys
  <2>9. Promise!Remove(0)
    BY <2>6, <2>8 DEF Promise!Remove, Promise!Present
  <2> QED
    BY <1>6, <2>3, <2>4, <2>8, <2>9 DEF PromiseInv, PromiseStep, Promise!Next
<1>10. CASE file.kind \in {"O", "M"}
  <2> DEFINE v == versions.now \ {file}
  <2>1. versions' = Change(versions, v) /\ UNCHANGED objects
    BY <1>10 DEF Unlink, file
  <2>2. v \in Generations /\ \A g \in v : \E h \in versions.now : h.pub = g.pub
    BY <1>8, FewerFiles
  <2>3. file \in versions.now /\ file.kind \notin NullKinds
    BY <1>5, <1>10 DEF Live, NullKinds
  <2>4. /\ file \in OpaqueFiles(versions.now)
        /\ NullFiles(v) = NullFiles(versions.now)
        /\ \A j : j # file.pub =>
              {g \in OpaqueFiles(v) : g.pub = j}
                = {g \in OpaqueFiles(versions.now) : g.pub = j}
    BY <2>3 DEF OpaqueFiles, NullFiles
  <2>5. \A g \in v : g.pub # file.pub
    BY <1>8, <2>3, GenerationFiles DEF Unique
  <2> HIDE DEF v
  <2>6. /\ NumbersFit' /\ StatusGood' /\ NextPublication' <= NextPublication
        /\ NextPublication \in Nat /\ NextPublication' \in Nat
    BY <1>1, <2>1, <2>2, ReplacedFiles
  <2>7. RoomLeft'
    BY <1>1, <1>3, <1>5, <1>7, <2>6 DEF PromiseInv, RoomLeft
  <2>8. /\ \A j : Possible(j)' \subseteq Possible(j) \union {Version(j)'}
        /\ \A j : Version(j)' = VersionIn(j, objects.now, v)
        /\ \A j : Version(j) = VersionIn(j, objects.now, versions.now)
    BY <1>1, <1>4, <2>1, VersionsPossible DEF Version
  <2>9. PICK pub \in 1..MaxPublications : pub = file.pub
    BY <1>8, <2>3 DEF PromiseInv, NumbersFit
  <2>10. pub \in VersionKeys /\ pub # 0
    BY PromiseKeys
  <2>11. Version(pub) # None
    <3>1. SelectExact(versions.now, file.pub) = file
      BY <1>8, <2>4, ExactOf
    <3>2. file \in Files /\ file # None
      BY <1>8, <2>3, GenerationFiles, NoneIsNoFile
    <3> QED
      BY <2>8, <2>9, <2>10, <3>1, <3>2, ValueOf DEF VersionIn
  <2>12. Version(pub)' = None
    <3>1. SelectExact(v, file.pub) = None
      BY <2>5 DEF SelectExact, OpaqueFiles
    <3> QED
      BY <2>8, <2>9, <2>10, <3>1 DEF VersionIn, Value
  <2>13. \A j : j # pub => Version(j)' = Version(j)
    BY <2>4, <2>8, <2>9, SameNulls, SameExact DEF VersionIn
  <2>14. Returns(pub)
    BY <2>8, <2>13 DEF Returns
  <2>15. /\ Promise!Move(pub) /\ pub \in Promise!Keys
         /\ \A j \in VersionKeys : Table[j] = Version(j) /\ Table'[j] = Version(j)'
    BY <2>10, <2>14, StepMoves
  <2>16. Promise!Remove(pub)
    BY <2>10, <2>11, <2>12, <2>15 DEF Promise!Remove, Promise!Present
  <2> QED
    BY <1>6, <2>6, <2>7, <2>15, <2>16 DEF PromiseInv, PromiseStep, Promise!Next
<1> QED
  BY <1>5, <1>9, <1>10

(***************************************************************************)
(* A record written anew                                                   *)
(***************************************************************************)
LEMMA RewrittenValue ==
    ASSUME NEW file \in Files
    PROVE  LET new == SyncFile([file EXCEPT !.tag = 1 - @, !.flushed = FALSE])
           IN  Value(new) = [Value(file) EXCEPT !.tag = Value(new).tag]
<1> DEFINE changed == [file EXCEPT !.tag = 1 - @, !.flushed = FALSE]
           new == SyncFile(changed)
<1>1. changed \in Files /\ changed.body = file.body
  <2>1. 1 - file.tag \in {0, 1}
    BY DEF Files
  <2> QED
    BY <2>1 DEF Files
<1>2. new.body = changed.body
  BY <1>1 DEF SyncFile, Files
<1>3. /\ new \in Files /\ new.pub = file.pub /\ new.kind = file.kind
  BY UpdatedFile
<1> HIDE DEF new, changed
<1>4. new # None /\ file # None
  BY <1>3, NoneIsNoFile
<1>5. /\ Value(new) = [body |-> file.body, marker |-> file.kind \in MarkerKinds,
                       tag |-> new.tag, order |-> file.pub]
      /\ Value(file) = [body |-> file.body, marker |-> file.kind \in MarkerKinds,
                        tag |-> file.tag, order |-> file.pub]
  BY <1>1, <1>2, <1>3, <1>4 DEF Value
<1> QED
  BY <1>5 DEF new, changed

LEMMA RetagPromise ==
    ASSUME Orderly, FilesInv, FilesInv', PromiseInv, Retag
    PROVE  PromiseInv' /\ PromiseStep
<1> DEFINE file == op.file
           new == SyncFile([op.file EXCEPT !.tag = 1 - @, !.flushed = FALSE])
<1>1. /\ op \in Operation /\ op # None /\ op.phase = "retag" /\ op.syncs = <<>>
      /\ UNCHANGED <<configuration, faults>>
      /\ Continue("finish", <<"objects">>) \/ Continue("finish", <<"versions">>)
  BY DEF Retag, InPhase, FilesInv, OperationGood
<1>2. /\ <<"objects">> \in Seq(Barriers) /\ <<"versions">> \in Seq(Barriers)
      /\ "finish" \in Phases
  BY BarrierSequences DEF Barriers, Phases
<1>3. op'.kind = op.kind /\ op'.phase = "finish" /\ op'.entries = op.entries
  BY <1>1, <1>2, ContinuedDue, ContinuedRest
<1>4. Settled(objects) /\ Settled(versions)
  BY <1>1, Quiet DEF Rest
<1>5. Live(file) /\ file \in Files
  BY <1>1 DEF PromiseInv, FileGood, FilesInv, OperationGood, Operation
<1>6. FileGood'
  BY <1>3 DEF FileGood
<1>7. Len(op.entries) \in Nat /\ MaxPublications \in Nat
  BY <1>1, FilesAssumption DEF Operation
<1>8. /\ objects.now \in Legacies /\ versions.now \in Generations
      /\ versions.now \in Outcomes(versions) /\ objects.now \in Outcomes(objects)
  BY Contents DEF Outcomes
<1>9. /\ new \in Files /\ OnDevice(new) /\ new # None /\ file # None
      /\ new.pub = file.pub /\ new.kind = file.kind
  BY <1>5, UpdatedFile, NoneIsNoFile
<1>10. Value(new) = [Value(file) EXCEPT !.tag = Value(new).tag]
  BY <1>5, RewrittenValue
<1>11. Value(new) # None /\ Value(file) # None
  BY <1>5, <1>9, ValueOf
<1>12. \/ /\ file.kind = "L" /\ objects' = Change(objects, new) /\ UNCHANGED versions
       \/ /\ file.kind # "L" /\ UNCHANGED objects
          /\ versions' = Change(versions, (versions.now \ {file}) \union {new})
  BY DEF Retag
<1> HIDE DEF file, new
<1>13. ASSUME NEW k \in VersionKeys, Version(k) = Value(file), Version(k)' = Value(new),
              Returns(k)
       PROVE  PromiseStep
  <2>1. /\ Promise!Move(k) /\ k \in Promise!Keys
        /\ Table[k] = Version(k) /\ Table'[k] = Version(k)'
    BY <1>13, StepMoves
  <2>2. Promise!Retag(k)
    BY <1>10, <1>11, <1>13, <2>1 DEF Promise!Retag, Promise!Present
  <2> QED
    BY <2>1, <2>2 DEF PromiseStep, Promise!Next
<1>14. CASE file.kind = "L"
  <2>1. objects' = Change(objects, new) /\ UNCHANGED versions
    BY <1>12, <1>14
  <2>2. file = objects.now /\ NullFiles(versions.now) = {}
    BY <1>5, <1>14 DEF Live
  <2>3. new \in Legacies /\ new.pub = 0
    BY <1>8, <1>9, <1>14, <2>2 DEF Legacies, PromiseInv, NumbersFit
  <2>4. NumbersFit' /\ StatusGood' /\ NextPublication' = NextPublication
    BY <1>1, <2>1, <2>3, RemovedObject
  <2>5. RoomLeft'
    BY <1>1, <1>3, <2>4 DEF PromiseInv, RoomLeft
  <2>6. /\ \A j : Possible(j)' \subseteq Possible(j) \union {Version(j)'}
        /\ \A j : Version(j)' = VersionIn(j, new, versions.now)
        /\ \A j : j # 0 => Version(j)' = Version(j)
    BY <1>1, <1>4, <2>1, ObjectsPossible
  <2>7. Version(0)' = Value(new) /\ Version(0) = Value(file)
    BY <2>2, <2>6 DEF Version, VersionIn, SelectNull
  <2>8. Returns(0)
    BY <2>6 DEF Returns
  <2>9. PromiseStep
    BY <1>13, <1>14, <2>7, <2>8, PromiseKeys
  <2> QED
    BY <1>6, <2>4, <2>5, <2>9 DEF PromiseInv
<1>15. CASE file.kind # "L"
  <2> DEFINE v == (versions.now \ {file}) \union {new}
  <2>1. versions' = Change(versions, v) /\ UNCHANGED objects
    BY <1>12, <1>15
  <2>2. file \in versions.now
    BY <1>5, <1>15 DEF Live
  <2>3. v \in Generations /\ \A g \in v : \E h \in versions.now : h.pub = g.pub
    <3>1. v \in Generations
      BY <1>8, <1>9, <1>15, <2>2, OtherFile
    <3> QED
      BY <1>9, <2>2, <3>1
  <2>4. PICK pub \in 1..MaxPublications : pub = file.pub
    BY <1>8, <2>2 DEF PromiseInv, NumbersFit
  <2>5. 0 \in VersionKeys /\ pub \in VersionKeys /\ pub # 0
    BY PromiseKeys
  <2>6. \A g \in versions.now : g.pub = file.pub => g = file
    BY <1>8, <2>2, GenerationFiles DEF Unique
  <2>7. ASSUME NEW j, j # file.pub \/ file.kind \in NullKinds
        PROVE  {g \in OpaqueFiles(v) : g.pub = j}
                 = {g \in OpaqueFiles(versions.now) : g.pub = j}
    BY <1>9, <2>2, <2>6, <2>7 DEF OpaqueFiles, NullFiles
  <2>8. file.kind \notin NullKinds => NullFiles(v) = NullFiles(versions.now)
    BY <1>9, <2>2 DEF NullFiles
  <2>9. file.kind \notin NullKinds =>
           file \in OpaqueFiles(versions.now) /\ new \in OpaqueFiles(v)
    BY <1>9, <2>2 DEF OpaqueFiles, NullFiles
  <2>10. file.kind \in NullKinds =>
            file.kind # "T" /\ Tops(file, versions.now) /\ Tops(new, v)
    BY <1>5, <1>9, <1>15 DEF Live, Tops, NullFiles
  <2> HIDE DEF v
  <2>11. /\ NumbersFit' /\ StatusGood' /\ NextPublication' <= NextPublication
         /\ NextPublication \in Nat /\ NextPublication' \in Nat
    BY <1>1, <2>1, <2>3, ReplacedFiles
  <2>12. RoomLeft'
    BY <1>1, <1>3, <1>7, <2>11 DEF PromiseInv, RoomLeft
  <2>13. /\ \A j : Possible(j)' \subseteq Possible(j) \union {Version(j)'}
         /\ \A j : Version(j)' = VersionIn(j, objects.now, v)
         /\ \A j : Version(j) = VersionIn(j, objects.now, versions.now)
    BY <1>1, <1>4, <2>1, VersionsPossible DEF Version
  <2>14. CASE file.kind \in NullKinds
    <3>1. SelectNull(objects.now, versions.now) = file
      BY <1>8, <2>10, <2>14, TopIsSelected
    <3>2. SelectNull(objects.now, v) = new
      BY <1>9, <2>3, <2>10, <2>14, TopIsSelected
    <3>3. Version(0)' = Value(new) /\ Version(0) = Value(file)
      BY <2>13, <3>1, <3>2 DEF VersionIn
    <3>4. \A j : j # 0 => Version(j)' = Version(j)
      BY <2>7, <2>13, <2>14, SameExact DEF VersionIn
    <3>5. Returns(0)
      BY <2>13, <3>4 DEF Returns
    <3>6. PromiseStep
      BY <1>13, <2>5, <3>3, <3>5
    <3> QED
      BY <1>6, <2>11, <2>12, <3>6 DEF PromiseInv
  <2>15. CASE file.kind \notin NullKinds
    <3>1. SelectExact(versions.now, pub) = file /\ SelectExact(v, pub) = new
      BY <1>8, <1>9, <2>3, <2>4, <2>9, <2>15, ExactOf
    <3>2. Version(pub)' = Value(new) /\ Version(pub) = Value(file)
      BY <2>5, <2>13, <3>1 DEF VersionIn
    <3>3. \A j : j # pub => Version(j)' = Version(j)
      BY <2>4, <2>7, <2>8, <2>13, <2>15, SameNulls, SameExact DEF VersionIn
    <3>4. Returns(pub)
      BY <2>13, <3>3 DEF Returns
    <3>5. PromiseStep
      BY <1>13, <2>5, <3>2, <3>4
    <3> QED
      BY <1>6, <2>11, <2>12, <3>5 DEF PromiseInv
  <2> QED
    BY <2>14, <2>15
<1> QED
  BY <1>14, <1>15

(***************************************************************************)
(* Every step keeps the promise                                            *)
(***************************************************************************)
LEMMA NextKeepsPromise ==
    ASSUME Orderly, BarriersGood, FilesInv, FilesInv', PromiseInv,
           [Next]_vars
    PROVE  PromiseInv' /\ PromiseStep
<1>1. ASSUME NEW b \in staged, NEW kind \in {"put", "create", "copy"},
             BeginPut(b, kind)
      PROVE  PromiseInv' /\ PromiseStep
  BY <1>1, BeginPutPromise
<1>2. ASSUME NEW entries \in Batches, BeginDelete(entries)
      PROVE  PromiseInv' /\ PromiseStep
  BY <1>2, BeginDeletePromise
<1>3. ASSUME NEW kind \in {"retag", "annotate", "unannotate"},
             NEW selector \in Selectors, BeginUpdate(kind, selector)
      PROVE  PromiseInv' /\ PromiseStep
  BY <1>3, BeginUpdatePromise
<1>4. ASSUME NEW status \in {"Enabled", "Suspended"}, PutStatus(status)
      PROVE  PromiseInv' /\ PromiseStep
  BY <1>4, PutStatusPromise
<1>5. CASE Begin
  BY <1>1, <1>2, <1>3, <1>4, <1>5, BeginPutPromise DEF Begin
<1>6. ASSUME NEW f \in Superseded, RemoveSuperseded(f)
      PROVE  PromiseInv' /\ PromiseStep
  BY <1>6, RemoveSupersededPromise
<1>7. CASE Finish \/ EndBatch \/ Annotate \/ Unannotate
  BY <1>7, ReleasePromise
<1>8. CASE Proceed
  BY <1>6, <1>7, <1>8, SyncDirectoryPromise, CopyNotesPromise, PublishPromise,
     RetireNotesPromise, RemoveLegacyPromise, EntombPromise,
     DeleteNothingPromise, PublishMarkerPromise, RemoveNotesPromise,
     UnlinkPromise, RetagPromise DEF Proceed
<1>9. CASE Stage \/ (\E b \in staged : Unstage(b)) \/ UNCHANGED vars
  BY <1>9, ReleasePromise
<1> QED
  BY <1>5, <1>8, <1>9, FailurePromise, PowerLossPromise, ReopenPromise DEF Next

LEMMA InitPromise ==
    ASSUME Init, FilesInv
    PROVE  PromiseInv /\ Promise!Init
<1>1. /\ Outcomes(objects) = {None} /\ Outcomes(versions) = {{}}
      /\ objects.now = None /\ versions.now = {} /\ op = None
  BY DEF Init, Outcomes, Fresh
<1>2. PromiseInv
  BY <1>1 DEF PromiseInv, NumbersFit, RoomLeft, StatusGood, FileGood
<1>3. \A j : VersionIn(j, None, {}) = None
  BY DEF VersionIn, SelectNull, SelectExact, NullFiles, OpaqueFiles, Value
<1>4. \A j : Version(j) = None /\ Possible(j) = {None}
  BY <1>1, <1>3 DEF Version, Possible
<1>5. \A j : Returning(j) = {}
  BY <1>4 DEF Returning
<1>6. Promise!Init
  BY <1>4, <1>5, PromiseKeys DEF Table, Fallback, Promise!Init
<1> QED
  BY <1>2, <1>6

\* Where every power loss strikes a store that nothing else has damaged, each
\* step of the files changes at most one version, to what one operation makes
\* of it, and a power loss finds each version as it is or as it was before the
\* change under way.  The hypothesis is needed: an error of the device or a
\* death of the process leaves changes behind that no later operation has to
\* synchronise, and a power loss may then undo an old one after a new one.
THEOREM VersionsAreDurable == PowerComesFirst => (Spec => OldOrNew)
<1> SUFFICES ASSUME PowerComesFirst PROVE Spec => OldOrNew
  OBVIOUS
<1>1. Init /\ FilesInv => PromiseInv /\ Promise!Init
  BY InitPromise
<1>2. /\ PowerComesFirst /\ BarriersGood /\ FilesInv /\ FilesInv' /\ PromiseInv
      /\ [Next]_vars
      => PromiseInv' /\ [Promise!Next]_<<Table, Fallback>>
  BY Settling, NextKeepsPromise DEF PromiseStep
<1> QED
  BY <1>1, <1>2, FilesInvariant, BarriersInvariant, PTL
     DEF Spec, OldOrNew, Promise!Spec

(***************************************************************************)
(* Annotations: as long as nothing failed, the sidecars of the generations *)
(* that readers see are those written for them.                            *)
(***************************************************************************)
ObjectKinds == {"L", "O", "N"}

Shelf == {f \in versions.now \union {objects.now} : f # None /\ f.kind \in ObjectKinds}

\* A body is in one record, and this record's annotations carry its number.
ShelfGood ==
    /\ \A f \in Shelf : /\ f.body \in 1..written /\ f.body \notin staged
                        /\ f.notesId = WrittenId(f.body)
    /\ \A f, g \in Shelf : f.body = g.body => f = g
    /\ \A f \in versions.now : f.kind \notin ObjectKinds => f.notesId[1] = "path"

\* A body yet to be published is new, and nothing was acknowledged for it.
DraftsGood ==
    /\ staged \subseteq 1..written
    /\ noted \subseteq 1..written /\ noted \intersect staged = {}
    /\ op # None /\ op.phase \in {"copyNotes", "publish"} =>
          /\ op.body \in (1..written) \ (staged \union noted)
          /\ \A f \in Shelf : f.body # op.body

Unlinking(f) == op # None /\ op.phase = "unlink" /\ f = op.file

NotesGood ==
    /\ \A id \in notes.now : id[1] = "written" => id[2] \in everNoted
    /\ \A f \in VisibleFiles :
          f.body \in noted /\ ~Unlinking(f) => f.notesId \in notes.now

\* What the holder of the gate has written and what it will retire.
HolderGood ==
    op # None =>
        /\ op.kind # "complete"
        /\ op.kind = "copy" =>
              /\ op.body \in (1..written) \ staged
              /\ op.phase # "copyNotes" => WrittenId(op.body) \in notes.now
              /\ op.phase = "supersede" => op.file \in Shelf /\ op.file.body = op.body
              /\ op.phase \in {"copyNotes", "publish", "retire", "supersede", "finish"}
        /\ op.kind = "annotate" =>
              /\ op.phase \in {"annotate", "finish"}
              /\ op.body \in (1..written) \ staged
              /\ op.phase = "finish" => WrittenId(op.body) \in notes.now
        /\ op.phase \in {"annotate", "unannotate", "retag"} =>
              op.file \in Shelf /\ op.body = op.file.body
        /\ op.phase = "unannotate" => op.body \notin noted
        /\ op.phase = "retire" =>
              /\ op.file \in Shelf /\ op.file.body = op.body
              /\ op.retire # WrittenId(op.body)
              /\ \A f \in VisibleFiles : f.notesId # op.retire

NotesInv == open /\ ShelfGood /\ DraftsGood /\ NotesGood /\ HolderGood

LEMMA WrittenIds ==
    ASSUME NEW b
    PROVE  /\ WrittenId(b)[1] = "written" /\ WrittenId(b)[2] = b
           /\ WrittenId(b) # <<>>
           /\ \A c : WrittenId(c) = WrittenId(b) => c = b
           /\ \A pub, kind : PathId(pub, kind)[1] = "path"
BY DEF WrittenId, PathId

LEMMA VisibleOnShelf ==
    ASSUME FilesInv
    PROVE  /\ VisibleFiles \subseteq Shelf
           /\ \A f \in VisibleFiles : f.kind = "O" \/ f = SelectNull(objects.now, versions.now)
           /\ \A f \in Shelf : f \in versions.now \/ (f = objects.now /\ f.kind = "L")
<1> DEFINE null == SelectNull(objects.now, versions.now)
<1>1. /\ objects.now \in Legacies /\ versions.now \in Generations
  BY Contents
<1>2. \/ null = None \/ null = objects.now
      \/ null \in NullFiles(versions.now) /\ null.kind # "T"
  BY <1>1, NullOf
<1>3. IsObject(null) => null \in Shelf
  BY <1>1, <1>2
     DEF IsObject, MarkerKinds, Shelf, ObjectKinds, NullFiles, NullKinds, Legacies
<1> HIDE DEF null
<1>4. \A f \in OpaqueFiles(versions.now) : f.kind = "O" => f \in Shelf
  <2>1. \A f \in versions.now : f # None
    BY <1>1, NoneIsNoFile, GenerationFiles
  <2> QED
    BY <2>1 DEF OpaqueFiles, Shelf, ObjectKinds
<1>5. VisibleFiles = {f \in OpaqueFiles(versions.now) : f.kind = "O"}
                        \union {f \in {null} : IsObject(f)}
  BY DEF VisibleFiles, null
<1>6. \A f \in Shelf : f \in versions.now \/ (f = objects.now /\ f.kind = "L")
  BY <1>1 DEF Shelf, Legacies
<1> QED
  BY <1>3, <1>4, <1>5, <1>6 DEF null

LEMMA VisibleShelf == FilesInv => VisibleFiles \subseteq Shelf
BY VisibleOnShelf

LEMMA VisibleStays == FilesInv' => (VisibleFiles \subseteq Shelf)'
BY VisibleShelf, PTL

LEMMA SameShelf ==
    ASSUME objects'.now = objects.now, versions'.now = versions.now
    PROVE  Shelf' = Shelf /\ VisibleFiles' = VisibleFiles
BY DEF Shelf, VisibleFiles

LEMMA ContinuedBody ==
    ASSUME op \in Operation, NEW phase \in Phases, NEW syncs \in Seq(Barriers),
           Continue(phase, syncs)
    PROVE  op'.body = op.body /\ op'.retire = op.retire
BY DEF Continue, Operation

\* The files and what is known of their annotations stay; the gate may change
\* hands, and drafts may come and go.
SameNotes ==
    /\ open'
    /\ objects'.now = objects.now /\ versions'.now = versions.now
    /\ notes'.now = notes.now
    /\ UNCHANGED history

LEMMA SameNotesKept ==
    ASSUME NotesInv, SameNotes, UNCHANGED <<staged, written>>,
           op # None /\ op.phase = "unlink" =>
              op' # None /\ op'.phase = "unlink" /\ op'.file = op.file,
           op' # None /\ op'.phase \in {"copyNotes", "publish"} =>
              /\ op # None /\ op.phase \in {"copyNotes", "publish"}
              /\ op'.body = op.body,
           HolderGood'
    PROVE  NotesInv'
<1>1. /\ Shelf' = Shelf /\ VisibleFiles' = VisibleFiles /\ open'
      /\ notes'.now = notes.now /\ versions'.now = versions.now
      /\ noted' = noted /\ everNoted' = everNoted
      /\ staged' = staged /\ written' = written
  BY SameShelf DEF SameNotes, history
<1>2. ShelfGood'
  BY <1>1 DEF NotesInv, ShelfGood
<1>3. DraftsGood'
  BY <1>1 DEF NotesInv, DraftsGood
<1>4. NotesGood'
  BY <1>1 DEF NotesInv, NotesGood, Unlinking
<1> QED
  BY <1>1, <1>2, <1>3, <1>4 DEF NotesInv

\* The holder goes on with no more than a barrier behind it.
LEMMA SyncDirectoryNotes ==
    ASSUME FilesInv, NotesInv, SyncDirectory
    PROVE  NotesInv'
<1>1. /\ op \in Operation /\ op # None /\ op.syncs # <<>>
      /\ UNCHANGED <<staged, written, open, history>>
  BY DEF SyncDirectory, FilesInv, OperationGood, history
<1>2. op' = [op EXCEPT !.syncs = Tail(@)]
  BY DEF SyncDirectory
<1>3. /\ op' # None /\ op'.kind = op.kind /\ op'.phase = op.phase
      /\ op'.file = op.file /\ op'.body = op.body /\ op'.retire = op.retire
  BY <1>1, <1>2 DEF None, Operation
<1>4. SameNotes
  BY <1>1 DEF SyncDirectory, SameNotes, NotesInv, Synced, SyncPath, Fresh
<1>5. Shelf' = Shelf /\ VisibleFiles' = VisibleFiles
  BY <1>4, SameShelf DEF SameNotes
<1>6. HolderGood'
  BY <1>1, <1>3, <1>4, <1>5 DEF NotesInv, HolderGood, SameNotes, history
<1> QED
  BY <1>1, <1>3, <1>4, <1>6, SameNotesKept

\* The gate is released by another operation, or taken by one that is about
\* no body.
LEMMA GateNotes ==
    ASSUME NotesInv,
           \/ EndBatch
           \/ \E entries \in Batches : BeginDelete(entries)
           \/ \E status \in {"Enabled", "Suspended"} : PutStatus(status)
    PROVE  NotesInv'
<1>1. SameNotes /\ UNCHANGED <<staged, written>>
  BY DEF EndBatch, BeginDelete, PutStatus, SameNotes, NotesInv, directories,
         history, Change
<1>2. /\ op # None => op.phase = "entry"
      /\ op' = None \/ (op'.kind \in {"delete", "status"}
                        /\ op'.phase \in {"entry", "finish"})
  BY DEF EndBatch, InPhase, BeginDelete, PutStatus, Acquire, NoOp
<1>3. HolderGood'
  BY <1>2 DEF HolderGood
<1> QED
  BY <1>1, <1>2, <1>3, SameNotesKept

LEMMA DeleteNothingNotes ==
    ASSUME FilesInv, PromiseInv, NotesInv, DeleteNothing
    PROVE  NotesInv'
<1>1. /\ op \in Operation /\ op # None /\ op.phase = "entry" /\ op.entries # <<>>
      /\ SameNotes /\ UNCHANGED <<staged, written>>
      /\ op' = NextEntry("entry", op.file)
  BY DEF DeleteNothing, InPhase, FilesInv, OperationGood, SameNotes, NotesInv,
         directories, history
<1>2. op'.kind = op.kind /\ op'.phase = "entry"
  BY <1>1 DEF NextEntry, Operation
<1>3. op.kind = "delete"
  BY <1>1 DEF PromiseInv, RoomLeft
<1>4. HolderGood'
  BY <1>2, <1>3 DEF HolderGood
<1> QED
  BY <1>1, <1>2, <1>4, SameNotesKept

LEMMA FinishNotes ==
    ASSUME FilesInv, NotesInv, Finish
    PROVE  NotesInv'
<1>1. /\ op # None /\ op.phase = "finish" /\ op' = None /\ open'
      /\ UNCHANGED <<objects, versions, notes, staged, written, everNoted>>
      /\ noted' = IF op.kind \in {"annotate", "copy"}
                  THEN noted \union {op.body} ELSE noted
  BY DEF Finish, InPhase, directories
<1>2. Shelf' = Shelf /\ VisibleFiles' = VisibleFiles
  BY <1>1, SameShelf
<1>3. op.kind \in {"annotate", "copy"} =>
         op.body \in (1..written) \ staged /\ WrittenId(op.body) \in notes.now
  BY <1>1 DEF NotesInv, HolderGood
<1>4. ShelfGood'
  BY <1>1, <1>2 DEF NotesInv, ShelfGood
<1>5. DraftsGood'
  BY <1>1, <1>3 DEF NotesInv, DraftsGood
<1>6. NotesGood'
  <2> SUFFICES ASSUME NEW f \in VisibleFiles, f.body \in noted'
               PROVE  f.notesId \in notes.now
    BY <1>1, <1>2 DEF NotesInv, NotesGood
  <2>1. CASE f.body \in noted
    BY <1>1, <2>1 DEF NotesInv, NotesGood, Unlinking
  <2>2. CASE f.body = op.body /\ op.kind \in {"annotate", "copy"}
    <3>1. f.notesId = WrittenId(f.body)
      BY VisibleOnShelf DEF NotesInv, ShelfGood
    <3> QED
      BY <1>3, <2>2, <3>1
  <2> QED
    BY <1>1, <2>1, <2>2
<1>7. HolderGood'
  BY <1>1 DEF HolderGood
<1> QED
  BY <1>1, <1>4, <1>5, <1>6, <1>7 DEF NotesInv

(***************************************************************************)
(* Drafts                                                                  *)
(***************************************************************************)
LEMMA StageNotes ==
    ASSUME FilesInv, NotesInv, Stage \/ \E b \in staged : Unstage(b)
    PROVE  NotesInv'
<1>1. /\ UNCHANGED <<objects, versions, notes, op, open, noted, everNoted>>
      /\ \/ written' = written + 1 /\ staged' = staged \union {written + 1}
         \/ written' = written /\ staged' \subseteq staged
      /\ written \in Nat
  BY DEF Stage, Unstage, directories, history, FilesInv, OperationGood
<1>2. Shelf' = Shelf /\ VisibleFiles' = VisibleFiles
  BY <1>1, SameShelf
<1>3. \A n \in 1..written : n \in 1..written' /\ (n \in staged' => n \in staged)
  BY <1>1
<1>4. staged' \subseteq 1..written'
  <2>1. \A n \in staged : n \in 1..written
    BY DEF NotesInv, DraftsGood
  <2>2. written + 1 \in 1..written + 1
    BY <1>1
  <2> QED
    BY <1>1, <1>3, <2>1, <2>2
<1>5. ShelfGood'
  BY <1>1, <1>2, <1>3 DEF NotesInv, ShelfGood
<1>6. DraftsGood'
  BY <1>1, <1>2, <1>3, <1>4 DEF NotesInv, DraftsGood
<1>7. NotesGood'
  BY <1>1, <1>2 DEF NotesInv, NotesGood, Unlinking
<1>8. HolderGood'
  BY <1>1, <1>2, <1>3 DEF NotesInv, HolderGood
<1> QED
  BY <1>1, <1>5, <1>6, <1>7, <1>8 DEF NotesInv

LEMMA BeginPutNotes ==
    ASSUME FilesInv, NotesInv, NEW b \in staged,
           NEW kind \in {"put", "create", "copy"}, BeginPut(b, kind)
    PROVE  NotesInv'
<1>1. /\ UNCHANGED <<objects, versions, notes, open, written, noted, everNoted>>
      /\ op = None /\ staged' = staged \ {b}
      /\ op' # None /\ op'.kind = kind /\ op'.body = b
      /\ op'.phase = IF kind = "copy" THEN "copyNotes" ELSE "publish"
  BY DEF BeginPut, Acquire, NoOp, None, directories, history
<1>2. Shelf' = Shelf /\ VisibleFiles' = VisibleFiles
  BY <1>1, SameShelf
<1>3. /\ b \in 1..written /\ b \notin noted /\ \A f \in Shelf : f.body # b
  BY DEF NotesInv, DraftsGood, ShelfGood
<1>4. ShelfGood'
  BY <1>1, <1>2 DEF NotesInv, ShelfGood
<1>5. DraftsGood'
  BY <1>1, <1>2, <1>3 DEF NotesInv, DraftsGood
<1>6. NotesGood'
  BY <1>1, <1>2 DEF NotesInv, NotesGood, Unlinking
<1>7. HolderGood'
  BY <1>1, <1>3 DEF HolderGood
<1> QED
  BY <1>1, <1>4, <1>5, <1>6, <1>7 DEF NotesInv

LEMMA CopyNotesNotes ==
    ASSUME FilesInv, PromiseInv, NotesInv, CopyNotes
    PROVE  NotesInv'
<1>1. /\ op \in Operation /\ op # None /\ op.phase = "copyNotes"
      /\ UNCHANGED <<objects, versions, staged, open, written, noted>>
      /\ notes'.now = notes.now \union {WrittenId(op.body)}
      /\ everNoted' = everNoted \union {op.body}
      /\ Continue("publish", <<"notes">>)
  BY DEF CopyNotes, InPhase, FilesInv, OperationGood, Change
<1>2. "publish" \in Phases /\ <<"notes">> \in Seq(Barriers)
  BY BarrierSequences DEF Phases, Barriers
<1>3. /\ op' # None /\ op'.kind = op.kind /\ op'.phase = "publish"
      /\ op'.body = op.body
  BY <1>1, <1>2, ContinuedDue, ContinuedBody
<1>4. Shelf' = Shelf /\ VisibleFiles' = VisibleFiles
  BY <1>1, SameShelf
<1>5. ShelfGood'
  BY <1>1, <1>4 DEF NotesInv, ShelfGood
<1>6. DraftsGood'
  BY <1>1, <1>3, <1>4 DEF NotesInv, DraftsGood
<1>7. NotesGood'
  BY <1>1, <1>3, <1>4, WrittenIds DEF NotesInv, NotesGood, Unlinking
<1>8. HolderGood'
  BY <1>1, <1>3 DEF NotesInv, HolderGood
<1> QED
  BY <1>1, <1>5, <1>6, <1>7, <1>8 DEF NotesInv

(***************************************************************************)
(* The holder publishes a body and retires what it replaces                *)
(***************************************************************************)
LEMMA CurrentOnShelf ==
    ASSUME FilesInv, IsObject(Current)
    PROVE  Current \in Shelf
<1> DEFINE null == SelectNull(objects.now, versions.now)
<1>1. Current # None /\ Current.kind \notin MarkerKinds
  BY DEF IsObject
<1>2. Current = null \/ Current \in OpaqueFiles(versions.now)
  BY <1>1, CurrentSelected DEF Current, Select, CurrentVersion
<1>3. \/ null = None \/ null = objects.now
      \/ null \in NullFiles(versions.now) /\ null.kind # "T"
  BY Contents, NullOf
<1>4. CASE Current = null
  BY <1>1, <1>3, <1>4, Contents
     DEF MarkerKinds, Shelf, ObjectKinds, NullFiles, NullKinds, Legacies
<1>5. CASE Current \in OpaqueFiles(versions.now)
  <2>1. Current \in versions.now /\ Current.kind \notin NullKinds
    BY <1>5 DEF OpaqueFiles, NullFiles
  <2>2. Current.kind \in FileKinds
    BY <2>1, Contents DEF Files
  <2> QED
    BY <1>1, <2>1, <2>2 DEF FileKinds, NullKinds, MarkerKinds, Shelf, ObjectKinds
<1> QED
  BY <1>2, <1>4, <1>5

LEMMA NewRecordOf ==
    ASSUME FilesInv, op \in Operation, op.kind # "complete"
    PROVE  /\ NewRecord.body = op.body /\ NewRecord.notesId = WrittenId(op.body)
           /\ NewRecord # None /\ NewRecord.kind \in ObjectKinds
           /\ Status = "Unconfigured" <=> NewRecord.kind = "L"
           /\ Status = "Suspended" => NewRecord.kind = "N"
<1>1. Status \in Statuses
  BY Contents DEF Status
<1>2. /\ ObjectKind \in ObjectKinds
      /\ Status = "Unconfigured" <=> ObjectKind = "L"
      /\ Status = "Suspended" => ObjectKind = "N"
  BY <1>1 DEF ObjectKind, Statuses, ObjectKinds
<1> DEFINE pub == IF Status = "Unconfigured" THEN 0 ELSE NextPublication
           record == Record(pub, ObjectKind, op.body, WrittenId(op.body))
<1>3. NewRecord = SyncFile(record)
  BY DEF NewRecord
<1>4. /\ record.body = op.body /\ record.notesId = WrittenId(op.body)
      /\ record.kind = ObjectKind
  BY DEF Record
<1>5. /\ SyncFile(record).body = op.body
      /\ SyncFile(record).notesId = WrittenId(op.body)
      /\ SyncFile(record).kind = ObjectKind
  BY <1>4 DEF SyncFile, Record
<1>6. NewRecord # None
  BY NewRecordIsFile, NoneIsNoFile
<1> QED
  BY <1>2, <1>3, <1>5, <1>6

\* After the publication of a null record it is the null version; another
\* record does not change which null version there is.
LEMMA PublishedShelf ==
    ASSUME FilesInv, FilesInv', PromiseInv, NotesInv, Publish
    PROVE  /\ Shelf' \subseteq Shelf \union {NewRecord} /\ NewRecord \in Shelf'
           /\ VisibleFiles' \subseteq VisibleFiles \union {NewRecord}
           /\ \A f \in versions'.now : f \in versions.now \/ f = NewRecord
           /\ NewRecord.kind # "O" => \A f \in VisibleFiles' : f.kind = "O" \/ f = NewRecord
           /\ Status = "Unconfigured" => VisibleFiles' \subseteq {NewRecord}
<1>1. /\ op \in Operation /\ op # None /\ op.phase = "publish" /\ op.kind # "complete"
  BY DEF Publish, InPhase, FilesInv, OperationGood, NotesInv, HolderGood
<1>2. /\ NewRecord # None /\ NewRecord.kind \in ObjectKinds /\ NewRecord \in Files
      /\ Status = "Unconfigured" <=> NewRecord.kind = "L"
      /\ Status # "Unconfigured" => NewRecord.pub = NextPublication
  BY <1>1, NewRecordOf, NewRecordIsFile
<1>3. CASE Status = "Unconfigured"
  <2>1. /\ objects'.now = NewRecord /\ versions'.now = versions.now
    BY <1>3 DEF Publish, Change
  <2>2. versions.now = {}
    BY <1>3 DEF PromiseInv, StatusGood, Status, Outcomes
  <2>3. Shelf' = {NewRecord}
    BY <1>2, <2>1, <2>2 DEF Shelf
  <2>4. VisibleFiles' \subseteq Shelf'
    BY VisibleStays
  <2> QED
    BY <1>3, <2>1, <2>2, <2>3, <2>4
<1>4. CASE Status # "Unconfigured"
  <2> DEFINE v == versions.now \union {NewRecord}
  <2>1. /\ objects'.now = objects.now /\ versions'.now = v
    BY <1>4 DEF Publish, Change
  <2>2. Shelf' = Shelf \union {NewRecord}
    BY <1>2, <2>1 DEF Shelf
  <2>3. NewRecord.kind \in {"O", "N"}
    BY <1>2, <1>4 DEF ObjectKinds
  <2>4. CASE NewRecord.kind = "O"
    <3>1. NullFiles(v) = NullFiles(versions.now)
      BY <2>4 DEF NullFiles, NullKinds
    <3>2. SelectNull(objects.now, v) = SelectNull(objects.now, versions.now)
      BY <3>1, SameNulls
    <3>3. OpaqueFiles(v) \subseteq OpaqueFiles(versions.now) \union {NewRecord}
      BY DEF OpaqueFiles, NullFiles
    <3> HIDE DEF v
    <3>4. VisibleFiles' \subseteq VisibleFiles \union {NewRecord}
      BY <2>1, <3>2, <3>3 DEF VisibleFiles
    <3> QED
      BY <1>4, <2>1, <2>2, <2>4, <3>4 DEF v
  <2>5. CASE NewRecord.kind = "N"
    <3>1. v \in Generations /\ Tops(NewRecord, v)
      <4>1. v \in Generations
        BY <2>1 DEF FilesInv, DirectoriesGood, Directory
      <4>2. /\ NextPublication \in Nat
            /\ \A g \in versions.now : g.pub < NextPublication /\ g.pub \in Nat
        BY NextIsNew, Contents, GenerationFiles
      <4> QED
        BY <1>2, <1>4, <4>1, <4>2 DEF Tops, NullFiles
    <3>2. SelectNull(objects.now, v) = NewRecord
      BY <2>5, <3>1, TopIsSelected DEF NullKinds
    <3>3. OpaqueFiles(v) = OpaqueFiles(versions.now)
      BY <2>5 DEF OpaqueFiles, NullFiles, NullKinds
    <3> HIDE DEF v
    <3>4. /\ VisibleFiles' \subseteq VisibleFiles \union {NewRecord}
          /\ \A f \in VisibleFiles' : f.kind = "O" \/ f = NewRecord
      BY <2>1, <3>2, <3>3 DEF VisibleFiles
    <3> QED
      BY <1>4, <2>1, <2>2, <3>4 DEF v
  <2> QED
    BY <2>3, <2>4, <2>5
<1> QED
  BY <1>3, <1>4

LEMMA PublishNotes ==
    ASSUME FilesInv, FilesInv', PromiseInv, NotesInv, Publish
    PROVE  NotesInv'
<1>1. /\ op \in Operation /\ op # None /\ op.phase = "publish" /\ op.kind # "complete"
      /\ UNCHANGED <<notes, staged, open, written, noted, everNoted>>
  BY DEF Publish, InPhase, FilesInv, OperationGood, NotesInv, HolderGood, history
<1>2. /\ NewRecord.body = op.body /\ NewRecord.notesId = WrittenId(op.body)
      /\ NewRecord.kind \in ObjectKinds
      /\ Status = "Unconfigured" <=> NewRecord.kind = "L"
      /\ Status = "Suspended" => NewRecord.kind = "N"
  BY <1>1, NewRecordOf
<1>3. /\ op' # None /\ op'.phase = "retire" /\ op'.file = NewRecord
      /\ op'.kind = op.kind /\ op'.body = op.body /\ op'.retire = RetiredNotes
  BY <1>1, PublicationIsRetired DEF Publish, Operation
<1>4. /\ op.body \in (1..written) \ (staged \union noted)
      /\ \A f \in Shelf : f.body # op.body
  BY <1>1 DEF NotesInv, DraftsGood
<1>5. /\ Shelf' \subseteq Shelf \union {NewRecord} /\ NewRecord \in Shelf'
      /\ VisibleFiles' \subseteq VisibleFiles \union {NewRecord}
      /\ \A f \in versions'.now : f \in versions.now \/ f = NewRecord
      /\ NewRecord.kind # "O" => \A f \in VisibleFiles' : f.kind = "O" \/ f = NewRecord
      /\ Status = "Unconfigured" => VisibleFiles' \subseteq {NewRecord}
  BY PublishedShelf
<1>6. ShelfGood'
  <2>1. \A f \in Shelf' : /\ f.body \in 1..written /\ f.body \notin staged
                          /\ f.notesId = WrittenId(f.body)
    BY <1>2, <1>4, <1>5 DEF NotesInv, ShelfGood
  <2>2. \A f, g \in Shelf' : f.body = g.body => f = g
    BY <1>2, <1>4, <1>5 DEF NotesInv, ShelfGood
  <2>3. \A f \in versions'.now : f.kind \notin ObjectKinds => f.notesId[1] = "path"
    BY <1>2, <1>5 DEF NotesInv, ShelfGood
  <2> QED
    BY <1>1, <2>1, <2>2, <2>3 DEF ShelfGood
<1>7. DraftsGood'
  BY <1>1, <1>3 DEF NotesInv, DraftsGood
<1>8. NotesGood'
  <2> SUFFICES ASSUME NEW f \in VisibleFiles', f.body \in noted
               PROVE  f.notesId \in notes.now
    BY <1>1 DEF NotesInv, NotesGood
  <2>1. f \in VisibleFiles
    BY <1>2, <1>4, <1>5
  <2> QED
    BY <1>1, <2>1 DEF NotesInv, NotesGood, Unlinking
<1>9. /\ RetiredNotes # WrittenId(op.body)
      /\ \A f \in VisibleFiles' : f.notesId # RetiredNotes
  <2>1. VisibleFiles' \subseteq Shelf'
    BY VisibleStays
  <2>2. \A f \in Shelf' : f.notesId = WrittenId(f.body)
    BY <1>2, <1>5 DEF NotesInv, ShelfGood
  <2>3. CASE RetiredNotes = <<>>
    BY <2>1, <2>2, <2>3, WrittenIds
  <2>4. CASE RetiredNotes # <<>>
    <3>1. /\ RetiredNotes = Current.notesId /\ IsObject(Current)
          /\ Status = "Unconfigured" \/ (Status = "Suspended"
                                         /\ Current.kind \in NullKinds \union {"L"})
      BY <2>4 DEF RetiredNotes
    <3>2. /\ Current \in Shelf /\ RetiredNotes = WrittenId(Current.body)
          /\ Current.body # op.body
      BY <1>4, <3>1, CurrentOnShelf DEF NotesInv, ShelfGood
    <3>3. RetiredNotes # WrittenId(op.body)
      BY <3>2, WrittenIds
    <3>4. ASSUME NEW f \in VisibleFiles', f.notesId = RetiredNotes
          PROVE  FALSE
      <4>1. f.body = Current.body
        BY <2>1, <2>2, <3>2, <3>4, WrittenIds
      <4>2. f # NewRecord
        BY <1>2, <3>2, <4>1
      <4>3. Status = "Suspended" /\ f.kind = "O"
        BY <1>2, <1>5, <3>1, <4>2
      <4>4. f \in Shelf
        BY <1>5, <2>1, <4>2
      <4>5. f = Current
        BY <3>2, <4>1, <4>4 DEF NotesInv, ShelfGood
      <4> QED
        BY <3>1, <4>3, <4>5 DEF NullKinds
    <3> QED
      BY <3>3, <3>4
  <2> QED
    BY <2>3, <2>4
<1>10. HolderGood'
  BY <1>1, <1>2, <1>3, <1>5, <1>9 DEF NotesInv, HolderGood
<1> QED
  BY <1>1, <1>6, <1>7, <1>8, <1>10 DEF NotesInv

(***************************************************************************)
(* Annotations and files that go                                           *)
(***************************************************************************)
LEMMA FewerNotes ==
    ASSUME NotesInv, op # None, op.phase # "unlink",
           UNCHANGED <<objects, versions, staged, open, written, noted, everNoted>>,
           notes'.now \subseteq notes.now,
           \A f \in VisibleFiles :
              f.body \in noted /\ f.notesId \notin notes'.now => Unlinking(f)'
                                                       \/ f.notesId \notin notes.now,
           op' # None => op'.phase \notin {"copyNotes", "publish"},
           HolderGood'
    PROVE  NotesInv'
<1>1. Shelf' = Shelf /\ VisibleFiles' = VisibleFiles
  BY SameShelf
<1>2. ShelfGood' /\ DraftsGood'
  BY <1>1 DEF NotesInv, ShelfGood, DraftsGood
<1>3. NotesGood'
  <2>1. \A f \in VisibleFiles : f.body \in noted => f.notesId \in notes.now
    BY DEF NotesInv, NotesGood, Unlinking
  <2> SUFFICES ASSUME NEW f \in VisibleFiles, f.body \in noted, ~Unlinking(f)'
               PROVE  f.notesId \in notes'.now
    BY <1>1 DEF NotesInv, NotesGood, Unlinking
  <2> QED
    BY <2>1
<1> QED
  BY <1>2, <1>3 DEF NotesInv

LEMMA FewerVisible ==
    ASSUME NotesInv,
           UNCHANGED <<notes, staged, open, written, noted, everNoted>>,
           Shelf' \subseteq Shelf, VisibleFiles' \subseteq VisibleFiles,
           \A f \in versions'.now :
              f \in versions.now \/ (f.kind \notin ObjectKinds /\ f.notesId[1] = "path"),
           \A f \in VisibleFiles' : ~Unlinking(f),
           op' # None => op'.phase \notin {"copyNotes", "publish"},
           HolderGood'
    PROVE  NotesInv'
<1>1. ShelfGood'
  BY DEF NotesInv, ShelfGood
<1>2. DraftsGood'
  BY DEF NotesInv, DraftsGood
<1>3. NotesGood'
  BY DEF NotesInv, NotesGood, Unlinking
<1> QED
  BY <1>1, <1>2, <1>3 DEF NotesInv

LEMMA RetireNotesNotes ==
    ASSUME FilesInv, PromiseInv, NotesInv, RetireNotes
    PROVE  NotesInv'
<1> DEFINE target == IF op.file.kind = "L" THEN <<"objects">> ELSE <<"versions">>
           next == IF op.file.kind = "N" THEN "supersede" ELSE "finish"
<1>1. /\ op \in Operation /\ op # None /\ op.phase = "retire"
      /\ UNCHANGED <<objects, versions, staged, open, written, noted, everNoted>>
      /\ Continue(next, <<"notes">> \o target) \/ Continue(next, target)
      /\ notes'.now = notes.now \/ notes'.now = notes.now \ {op.retire}
  BY DEF RetireNotes, InPhase, FilesInv, OperationGood, history, Change
<1>2. /\ target \in Seq(Barriers) /\ <<"notes">> \o target \in Seq(Barriers)
      /\ next \in Phases
  BY BarrierSequences DEF Barriers, Phases
<1>3. /\ op' # None /\ op'.kind = op.kind /\ op'.phase = next
      /\ op'.file = op.file /\ op'.body = op.body
  <2> HIDE DEF next, target
  <2> QED
    BY <1>1, <1>2, ContinuedDue, ContinuedBody
<1>4. /\ op.file \in Shelf /\ op.file.body = op.body
      /\ op.retire # WrittenId(op.body)
      /\ \A f \in VisibleFiles : f.notesId # op.retire
      /\ op.kind # "annotate" /\ op.kind # "complete"
  BY <1>1 DEF NotesInv, HolderGood
<1>5. Shelf' = Shelf
  BY <1>1, SameShelf
<1>6. HolderGood'
  BY <1>1, <1>3, <1>4, <1>5 DEF NotesInv, HolderGood
<1>7. \A f \in VisibleFiles : f.notesId \in notes.now => f.notesId \in notes'.now
  BY <1>1, <1>4
<1>8. op'.phase \notin {"copyNotes", "publish"}
  BY <1>3
<1> QED
  BY <1>1, <1>6, <1>7, <1>8, FewerNotes

\* What the holder at "supersede" keeps is all that readers see of the null
\* version, whatever else goes.
LEMMA KeptIsSeen ==
    ASSUME FilesInv, PromiseInv, InPhase("supersede")
    PROVE  /\ Tops(op.file, versions.now) /\ op.file.kind \in NullKinds
           /\ op.keep = op.file.pub
           /\ \A f \in VisibleFiles : f.kind = "O" \/ f = op.file
<1>1. /\ Tops(op.file, versions.now) /\ op.file.kind \in NullKinds
      /\ op.keep = op.file.pub
  BY DEF InPhase, PromiseInv, FileGood
<1>2. SelectNull(objects.now, versions.now) \in {None, op.file}
  BY <1>1, Contents, TopIsSelected
<1>3. \A f \in VisibleFiles : f.kind = "O" \/ f = op.file
  BY <1>2 DEF VisibleFiles, IsObject
<1> QED
  BY <1>1, <1>3

LEMMA SupersedeNotes ==
    ASSUME FilesInv, PromiseInv, NotesInv, InPhase("supersede"),
           NEW f, f \in Superseded \/ (f = objects.now /\ f # None),
           UNCHANGED <<objects, versions, staged, open, written, noted, everNoted>>,
           notes'.now = notes.now \ {f.notesId}, Continue("supersede", <<"notes">>)
    PROVE  NotesInv'
<1>1. op \in Operation /\ op # None /\ op.phase = "supersede"
  BY DEF InPhase, FilesInv, OperationGood
<1>2. "supersede" \in Phases /\ <<"notes">> \in Seq(Barriers)
  BY BarrierSequences DEF Phases, Barriers
<1>3. /\ op' # None /\ op'.kind = op.kind /\ op'.phase = "supersede"
      /\ op'.file = op.file /\ op'.body = op.body
  BY <1>1, <1>2, ContinuedDue, ContinuedBody
<1>4. /\ op.file.kind \in NullKinds /\ op.keep = op.file.pub
      /\ \A g \in VisibleFiles : g.kind = "O" \/ g = op.file
  BY KeptIsSeen
<1>5. /\ f \in versions.now \union {objects.now} /\ f # None
      /\ f.kind # "O" /\ f # op.file
  <2>1. CASE f \in Superseded
    <3>1. f \in versions.now /\ f.kind \in NullKinds /\ f.pub # op.keep
      BY <2>1 DEF Superseded, NullFiles
    <3>2. f # None
      BY <3>1, Contents, NoneIsNoFile
    <3> QED
      BY <1>4, <3>1, <3>2 DEF NullKinds
  <2>2. CASE f = objects.now /\ f # None
    <3>1. f.kind = "L"
      BY <2>2, Contents DEF Legacies
    <3> QED
      BY <1>4, <2>2, <3>1 DEF NullKinds
  <2> QED
    BY <2>1, <2>2
<1>6. \A g \in Shelf : g.kind = "O" \/ g = op.file => g.notesId # f.notesId
  <2> SUFFICES ASSUME NEW g \in Shelf, g.kind = "O" \/ g = op.file,
                      g.notesId = f.notesId
               PROVE  FALSE
    OBVIOUS
  <2>1. g.notesId = WrittenId(g.body)
    BY DEF NotesInv, ShelfGood
  <2>2. CASE f.kind \in ObjectKinds
    <3>1. f \in Shelf /\ f.notesId = WrittenId(f.body)
      BY <1>5, <2>2 DEF Shelf, NotesInv, ShelfGood
    <3>2. WrittenId(g.body) = WrittenId(f.body)
      BY <2>1, <3>1
    <3>3. f.body = g.body
      BY <3>2, WrittenIds
    <3> QED
      BY <1>5, <3>1, <3>3 DEF NotesInv, ShelfGood
  <2>3. CASE f.kind \notin ObjectKinds
    <3>1. f \in versions.now
      BY <1>5, <2>3, Contents DEF Legacies, ObjectKinds
    <3>2. f.notesId[1] = "path"
      BY <2>3, <3>1 DEF NotesInv, ShelfGood
    <3> QED
      BY <2>1, <3>2, WrittenIds
  <2> QED
    BY <2>2, <2>3
<1>7. Shelf' = Shelf
  BY SameShelf
<1>8. op.kind = "copy" => WrittenId(op.body) # f.notesId
  <2>1. op.kind = "copy" => op.file \in Shelf /\ op.file.body = op.body
    BY <1>1 DEF NotesInv, HolderGood
  <2> QED
    BY <1>6, <2>1 DEF NotesInv, ShelfGood
<1>9. HolderGood'
  BY <1>1, <1>3, <1>7, <1>8 DEF NotesInv, HolderGood
<1>10. \A g \in VisibleFiles : g.notesId \in notes.now => g.notesId \in notes'.now
  BY <1>4, <1>6, VisibleOnShelf
<1> QED
  BY <1>1, <1>3, <1>9, <1>10, FewerNotes

LEMMA RemoveSupersededNotes ==
    ASSUME FilesInv, FilesInv', PromiseInv, NotesInv,
           NEW f \in Superseded, RemoveSuperseded(f)
    PROVE  NotesInv'
<1>1. /\ InPhase("supersede") /\ op \in Operation /\ op # None /\ op.phase = "supersede"
      /\ UNCHANGED <<objects, staged, open, written, noted, everNoted>>
  BY DEF RemoveSuperseded, InPhase, FilesInv, OperationGood, history
<1>2. CASE /\ notes' = Change(notes, notes.now \ {f.notesId})
           /\ Continue("supersede", <<"notes">>) /\ UNCHANGED versions
  BY <1>1, <1>2, SupersedeNotes DEF Change
<1>3. CASE versions' = Change(versions, versions.now \ {f}) /\ UNCHANGED <<notes, op>>
  <2> DEFINE v == versions.now \ {f}
  <2>1. versions'.now = v /\ objects'.now = objects.now
    BY <1>1, <1>3 DEF Change
  <2>2. /\ Tops(op.file, versions.now) /\ op.file.kind \in NullKinds
        /\ f \in NullFiles(versions.now) /\ f # op.file
    BY <1>1, KeptIsSeen DEF Superseded
  <2>3. Tops(op.file, v) /\ v \in Generations
    BY <2>2, Contents, FewerFiles DEF Tops, NullFiles
  <2>4. SelectNull(objects.now, v) = SelectNull(objects.now, versions.now)
    BY <2>2, <2>3, Contents, TopIsSelected
  <2>5. OpaqueFiles(v) = OpaqueFiles(versions.now)
    BY <2>2 DEF OpaqueFiles, NullFiles
  <2> HIDE DEF v
  <2>6. VisibleFiles' = VisibleFiles
    BY <2>1, <2>4, <2>5 DEF VisibleFiles
  <2>7. Shelf' \subseteq Shelf /\ v \subseteq versions.now
    BY <2>1 DEF Shelf, v
  <2>8. op.file \in Shelf => op.file \in Shelf'
    BY <2>1, <2>3 DEF Shelf, Tops
  <2>9. HolderGood'
    BY <1>1, <1>3, <2>8 DEF NotesInv, HolderGood
  <2> QED
    BY <1>1, <1>3, <2>1, <2>6, <2>7, <2>9, FewerVisible DEF Unlinking
<1> QED
  BY <1>2, <1>3 DEF RemoveSuperseded

LEMMA RemoveLegacyNotes ==
    ASSUME FilesInv, FilesInv', PromiseInv, NotesInv, RemoveLegacy
    PROVE  NotesInv'
<1>1. /\ InPhase("supersede") /\ op \in Operation /\ op # None /\ op.phase = "supersede"
      /\ UNCHANGED <<versions, staged, open, written, noted, everNoted>>
  BY DEF RemoveLegacy, InPhase, FilesInv, OperationGood, history
<1>2. CASE /\ objects.now # None /\ UNCHANGED objects
           /\ notes' = Change(notes, notes.now \ {objects.now.notesId})
           /\ Continue("supersede", <<"notes">>)
  BY <1>1, <1>2, SupersedeNotes DEF Change
<1>3. CASE /\ objects'.now = objects.now \/ objects'.now = None
           /\ UNCHANGED notes
           /\ \E syncs \in Seq(Barriers) : Continue(AfterSuperseded, syncs)
  <2>1. /\ AfterSuperseded \in {"entomb", "entry", "finish"}
        /\ AfterSuperseded \in Phases
    BY DEF AfterSuperseded, Afterwards, Phases
  <2>2. op.kind = "copy" => AfterSuperseded = "finish"
    <3>1. op.kind = "copy" => op.file \in Shelf
      BY <1>1 DEF NotesInv, HolderGood
    <3> QED
      BY <3>1 DEF AfterSuperseded, Afterwards, Shelf, ObjectKinds
  <2> HIDE DEF AfterSuperseded
  <2>3. /\ op' # None /\ op'.kind = op.kind /\ op'.phase = AfterSuperseded
        /\ op'.file = op.file /\ op'.body = op.body
    BY <1>1, <1>3, <2>1, ContinuedDue, ContinuedBody
  <2>4. /\ Tops(op.file, versions.now) /\ op.file.kind \in NullKinds
    BY <1>1, KeptIsSeen
  <2>5. SelectNull(objects'.now, versions.now) = SelectNull(objects.now, versions.now)
    BY <2>4, Contents, TopIsSelected
  <2>6. VisibleFiles' = VisibleFiles /\ Shelf' \subseteq Shelf
    BY <1>1, <1>3, <2>5 DEF VisibleFiles, Shelf
  <2>7. HolderGood'
    BY <1>1, <1>3, <2>1, <2>2, <2>3 DEF NotesInv, HolderGood
  <2> QED
    BY <1>1, <1>3, <2>1, <2>3, <2>6, <2>7, FewerVisible DEF Unlinking
<1>4. <<"versions">> \in Seq(Barriers) /\ <<"objects", "versions">> \in Seq(Barriers)
  BY BarrierSequences DEF Barriers
<1>5. \/ /\ objects.now = None /\ UNCHANGED <<objects, notes>>
         /\ Continue(AfterSuperseded, <<"versions">>)
      \/ /\ objects.now # None /\ UNCHANGED objects
         /\ notes' = Change(notes, notes.now \ {objects.now.notesId})
         /\ Continue("supersede", <<"notes">>)
      \/ /\ objects' = Change(objects, None) /\ UNCHANGED notes
         /\ Continue(AfterSuperseded, <<"objects", "versions">>)
  BY DEF RemoveLegacy
<1>6. objects' = Change(objects, None) => objects'.now = None
  BY DEF Change
<1> QED
  BY <1>2, <1>3, <1>4, <1>5, <1>6

LEMMA EntombNotes ==
    ASSUME FilesInv, FilesInv', PromiseInv, NotesInv, Entomb
    PROVE  NotesInv'
<1> DEFINE v == {f \in versions.now : f.pub # op.keep}
<1>1. /\ op \in Operation /\ op # None /\ op.phase = "entomb"
      /\ UNCHANGED <<objects, notes, staged, open, written, noted, everNoted>>
      /\ versions'.now = v /\ Continue(Afterwards, <<"versions">>)
  BY DEF Entomb, InPhase, FilesInv, OperationGood, Change, history
<1>2. /\ Afterwards \in Phases /\ Afterwards \in {"entry", "finish"}
      /\ <<"versions">> \in Seq(Barriers)
  BY BarrierSequences DEF Afterwards, Phases, Barriers
<1>3. op' # None /\ op'.kind = op.kind /\ op'.phase = Afterwards
  BY <1>1, <1>2, ContinuedDue
<1>4. objects.now = None /\ \A x \in NullFiles(versions.now) : x.pub = op.keep
  BY <1>1 DEF PromiseInv, FileGood
<1>5. SelectNull(objects.now, v) = None /\ OpaqueFiles(v) \subseteq OpaqueFiles(versions.now)
  BY <1>4 DEF SelectNull, OpaqueFiles, NullFiles
<1>6. v \subseteq versions.now
  OBVIOUS
<1> HIDE DEF v
<1>7. VisibleFiles' \subseteq VisibleFiles /\ Shelf' \subseteq Shelf
  BY <1>1, <1>5, <1>6 DEF VisibleFiles, Shelf, IsObject
<1>8. op.kind \notin {"copy", "annotate", "complete"}
  BY <1>1 DEF NotesInv, HolderGood
<1>9. HolderGood'
  BY <1>2, <1>3, <1>8 DEF HolderGood
<1> QED
  BY <1>1, <1>2, <1>3, <1>6, <1>7, <1>9, FewerVisible DEF Unlinking

LEMMA PublishMarkerNotes ==
    ASSUME FilesInv, FilesInv', PromiseInv, NotesInv, PublishMarker
    PROVE  NotesInv'
<1> DEFINE kind == EntryEffect(Head(op.entries))
           marker == SyncFile(Record(NextPublication, kind, 0,
                                     PathId(NextPublication, kind)))
           phase == IF kind = "M" THEN "entry" ELSE "supersede"
           next == NextEntry(phase, marker)
           v == versions.now \union {marker}
<1>1. /\ op \in Operation /\ op # None /\ op.phase = "entry" /\ op.entries # <<>>
      /\ UNCHANGED <<objects, notes, staged, open, written, noted, everNoted>>
      /\ kind \in {"M", "D", "T"}
      /\ versions'.now = v
      /\ op' = [next EXCEPT !.keep = marker.pub, !.syncs = <<"versions">>]
  BY DEF PublishMarker, InPhase, FilesInv, OperationGood, Change, history
<1> HIDE DEF kind
<1>2. /\ NextPublication \in Nat /\ kind \in FileKinds
      /\ \A g \in versions.now : g.pub < NextPublication /\ g.pub \in Nat
  BY <1>1, NextIsNew, Contents, GenerationFiles DEF FileKinds
<1>3. PathId(NextPublication, kind) \in Ids
  BY <1>2 DEF PathId, Ids
<1>4. /\ marker \in Files /\ marker.pub = NextPublication /\ marker.kind = kind
  BY <1>2, <1>3, RecordIsFile
<1>5. marker.notesId[1] = "path"
  BY WrittenIds DEF SyncFile, Record
<1> HIDE DEF marker
<1>6. phase \in Phases /\ phase \in {"entry", "supersede"}
  BY DEF Phases
<1>7. next \in Operation /\ next.kind = op.kind /\ next.phase = phase
  BY <1>1, <1>4, <1>6, NextEntryOperation
<1> HIDE DEF next, phase
<1>8. op'.kind = op.kind /\ op'.phase = phase
  BY <1>1, <1>7 DEF Operation
<1>9. op.kind = "delete"
  BY <1>1 DEF PromiseInv, RoomLeft
<1>10. HolderGood'
  BY <1>6, <1>8, <1>9 DEF HolderGood
<1>11. Shelf' \subseteq Shelf /\ \A f \in v : f \in versions.now \/ f = marker
  BY <1>1, <1>4 DEF Shelf, ObjectKinds
<1>12. VisibleFiles' \subseteq VisibleFiles
  <2>1. \A f \in OpaqueFiles(v) : f.kind = "O" => f \in OpaqueFiles(versions.now)
    BY <1>1, <1>4 DEF OpaqueFiles, NullFiles
  <2>2. \/ SelectNull(objects.now, v) = SelectNull(objects.now, versions.now)
        \/ ~IsObject(SelectNull(objects.now, v))
    <3>1. CASE kind = "M"
      <4>1. NullFiles(v) = NullFiles(versions.now)
        BY <1>4, <3>1 DEF NullFiles, NullKinds
      <4> QED
        BY <4>1, SameNulls
    <3>2. CASE kind \in {"D", "T"}
      <4>1. v \in Generations
        BY <1>1 DEF FilesInv, DirectoriesGood, Directory
      <4>2. Tops(marker, v) /\ marker.kind \in NullKinds
        BY <1>2, <1>4, <3>2 DEF Tops, NullFiles, NullKinds
      <4> QED
        BY <1>4, <3>2, <4>1, <4>2, TopIsSelected DEF IsObject, MarkerKinds
    <3> QED
      BY <1>1, <3>1, <3>2
  <2> HIDE DEF v
  <2> QED
    BY <1>1, <2>1, <2>2 DEF VisibleFiles
<1>13. marker.kind \notin ObjectKinds
  BY <1>1, <1>4 DEF ObjectKinds
<1> QED
  BY <1>1, <1>5, <1>6, <1>8, <1>10, <1>11, <1>12, <1>13, FewerVisible DEF Unlinking

\* Unlike a record to be unlinked, one that a selector finds is on the shelf.
LEMMA LiveOnShelf ==
    ASSUME FilesInv, NEW file, Live(file), file # None, file.kind \notin MarkerKinds,
           file \in Files
    PROVE  file \in Shelf /\ file \in VisibleFiles
<1>1. CASE file.kind = "L"
  <2>1. file = objects.now /\ SelectNull(objects.now, versions.now) = file
    BY <1>1 DEF Live, SelectNull
  <2> QED
    BY <1>1, <2>1 DEF Shelf, ObjectKinds, VisibleFiles, IsObject
<1>2. CASE file.kind \in NullKinds
  <2>1. file \in versions.now /\ file.kind # "T" /\ Tops(file, versions.now)
    BY <1>2 DEF Live, NullKinds
  <2>2. SelectNull(objects.now, versions.now) = file
    BY <1>2, <2>1, Contents, TopIsSelected
  <2>3. file.kind = "N"
    BY <1>2, <2>1 DEF NullKinds, MarkerKinds
  <2> QED
    BY <2>1, <2>2, <2>3 DEF Shelf, ObjectKinds, VisibleFiles, IsObject
<1>3. CASE file.kind \notin NullKinds /\ file.kind # "L"
  <2>1. file \in versions.now
    BY <1>3 DEF Live
  <2>2. file.kind = "O"
    BY <1>3 DEF Files, FileKinds, NullKinds, MarkerKinds
  <2> QED
    BY <1>3, <2>1, <2>2 DEF Shelf, ObjectKinds, VisibleFiles, OpaqueFiles, NullFiles
<1> QED
  BY <1>1, <1>2, <1>3

LEMMA RemoveNotesNotes ==
    ASSUME FilesInv, PromiseInv, NotesInv, RemoveNotes
    PROVE  NotesInv'
<1> DEFINE file == Select(Head(op.entries).selector)
           next == NextEntry("unlink", file)
<1>1. /\ op \in Operation /\ op # None /\ op.phase = "entry" /\ op.entries # <<>>
      /\ UNCHANGED <<objects, versions, staged, open, written, noted, everNoted>>
      /\ \/ op' = next /\ UNCHANGED notes
         \/ /\ op' = [next EXCEPT !.syncs = <<"notes">>]
            /\ file.kind # "M" /\ notes' = Change(notes, notes.now \ {file.notesId})
      /\ EntryEffect(Head(op.entries)) = "unlink"
  BY DEF RemoveNotes, InPhase, FilesInv, OperationGood, history
<1>2. Head(op.entries) \in Entries
  BY <1>1 DEF Operation
<1>3. Live(file) /\ file \in Files /\ file.kind \in {"L", "O", "M"}
  BY <1>1, <1>2, UnlinkedKinds
<1> HIDE DEF file
<1>4. next.kind = op.kind /\ next.phase = "unlink" /\ next.file = file /\ next \in Operation
  <2>1. "unlink" \in Phases
    BY DEF Phases
  <2> QED
    BY <1>1, <1>3, <2>1, NextEntryOperation
<1> HIDE DEF next
<1>5. /\ op'.kind = op.kind /\ op'.phase = "unlink" /\ op'.file = file /\ op' # None
  BY <1>1, <1>4, NoneIsNoFile DEF Operation, None
<1>6. op.kind = "delete"
  BY <1>1 DEF PromiseInv, RoomLeft
<1>7. HolderGood'
  BY <1>5, <1>6 DEF HolderGood
<1>8. CASE UNCHANGED notes
  BY <1>1, <1>5, <1>7, <1>8, FewerNotes
<1>9. CASE file.kind # "M" /\ notes' = Change(notes, notes.now \ {file.notesId})
  <2>1. notes'.now = notes.now \ {file.notesId}
    BY <1>9 DEF Change
  <2>2. file \in Shelf
    BY <1>3, <1>9, NoneIsNoFile, LiveOnShelf DEF MarkerKinds
  <2>3. \A f \in VisibleFiles : f.notesId = file.notesId => f = file
    <3>1. \A f \in Shelf : f.notesId = WrittenId(f.body)
      BY DEF NotesInv, ShelfGood
    <3>2. \A f \in Shelf : f.notesId = file.notesId => f.body = file.body
      BY <2>2, <3>1, WrittenIds
    <3> QED
      BY <2>2, <3>2, VisibleShelf DEF NotesInv, ShelfGood
  <2>4. \A f \in VisibleFiles : f.notesId \in notes.now /\ f.notesId \notin notes'.now
                                   => Unlinking(f)'
    BY <1>5, <2>1, <2>3 DEF Unlinking
  <2> QED
    BY <1>1, <1>5, <1>7, <2>1, <2>4, FewerNotes
<1> QED
  BY <1>1, <1>8, <1>9

LEMMA UnlinkNotes ==
    ASSUME FilesInv, FilesInv', PromiseInv, NotesInv, Unlink
    PROVE  NotesInv'
<1> DEFINE file == op.file
<1>1. /\ op \in Operation /\ op # None /\ op.phase = "unlink"
      /\ UNCHANGED <<notes, staged, open, written, noted, everNoted>>
      /\ Continue("entry", <<"objects">>) \/ Continue("entry", <<"versions">>)
  BY DEF Unlink, InPhase, FilesInv, OperationGood, history
<1>2. /\ <<"objects">> \in Seq(Barriers) /\ <<"versions">> \in Seq(Barriers)
      /\ "entry" \in Phases
  BY BarrierSequences DEF Barriers, Phases
<1>3. op'.kind = op.kind /\ op'.phase = "entry"
  BY <1>1, <1>2, ContinuedDue
<1>4. file.kind \in {"L", "O", "M"} /\ Live(file) /\ op.kind = "delete"
  BY <1>1 DEF PromiseInv, FileGood, RoomLeft
<1>5. HolderGood'
  BY <1>3, <1>4 DEF HolderGood
<1> HIDE DEF file
<1>6. CASE file.kind = "L"
  <2>1. objects'.now = None /\ versions'.now = versions.now
    BY <1>6 DEF Unlink, Change, file
  <2>2. NullFiles(versions.now) = {}
    BY <1>4, <1>6 DEF Live
  <2>3. SelectNull(None, versions.now) = None
    BY <2>2 DEF SelectNull
  <2>4. /\ VisibleFiles' \subseteq VisibleFiles /\ Shelf' \subseteq Shelf
        /\ \A f \in VisibleFiles' : f.kind = "O"
    BY <2>1, <2>3 DEF VisibleFiles, Shelf, IsObject
  <2>5. \A f \in VisibleFiles' : ~Unlinking(f)
    BY <1>6, <2>4 DEF Unlinking, file
  <2> QED
    BY <1>1, <1>3, <1>5, <2>1, <2>4, <2>5, FewerVisible
<1>7. CASE file.kind \in {"O", "M"}
  <2> DEFINE v == versions.now \ {file}
  <2>1. objects'.now = objects.now /\ versions'.now = v
    BY <1>7 DEF Unlink, Change, file
  <2>2. NullFiles(v) = NullFiles(versions.now)
    BY <1>7 DEF NullFiles, NullKinds
  <2>3. SelectNull(objects.now, v) = SelectNull(objects.now, versions.now)
    BY <2>2, SameNulls
  <2>4. OpaqueFiles(v) = OpaqueFiles(versions.now) \ {file}
    BY <1>7 DEF OpaqueFiles, NullFiles
  <2>5. SelectNull(objects.now, versions.now) # file
    <3>1. file \in versions.now /\ file.kind \notin NullKinds
      BY <1>4, <1>7 DEF Live, NullKinds
    <3>2. file # None
      BY <3>1, Contents, NoneIsNoFile
    <3> QED
      BY <1>7, <3>1, <3>2, Contents, NullOf DEF NullFiles, Legacies
  <2> HIDE DEF v
  <2>6. VisibleFiles' \subseteq VisibleFiles \ {file}
    BY <2>1, <2>3, <2>4, <2>5 DEF VisibleFiles
  <2>7. Shelf' \subseteq Shelf /\ v \subseteq versions.now
    BY <2>1 DEF Shelf, v
  <2>8. \A f \in VisibleFiles' : ~Unlinking(f)
    BY <2>6 DEF Unlinking, file
  <2> QED
    BY <1>1, <1>3, <1>5, <2>1, <2>6, <2>7, <2>8, FewerVisible
<1> QED
  BY <1>4, <1>6, <1>7

(***************************************************************************)
(* Updates                                                                 *)
(***************************************************************************)
LEMMA BeginUpdateNotes ==
    ASSUME FilesInv, NotesInv,
           NEW kind \in {"retag", "annotate", "unannotate"},
           NEW selector \in Selectors, BeginUpdate(kind, selector)
    PROVE  NotesInv'
<1> DEFINE file == Select(selector)
<1>1. /\ UNCHANGED <<objects, versions, notes, staged, open, written, everNoted>>
      /\ noted' = IF kind = "unannotate" THEN noted \ {file.body} ELSE noted
      /\ IsObject(file) /\ op = None
      /\ op' # None /\ op'.kind = kind /\ op'.phase = kind
      /\ op'.body = file.body /\ op'.file = file
  BY DEF BeginUpdate, Acquire, NoOp, None, directories
<1>2. file \in Shelf
  <2>1. file # None /\ file.kind \notin MarkerKinds
    BY <1>1 DEF IsObject
  <2>2. Live(file) /\ file \in Files
    BY <2>1, SelectedIsLive, Selected
  <2> QED
    BY <2>1, <2>2, LiveOnShelf
<1> HIDE DEF file
<1>3. Shelf' = Shelf /\ VisibleFiles' = VisibleFiles
  BY <1>1, SameShelf
<1>4. file.body \in 1..written /\ file.body \notin staged
  BY <1>2 DEF NotesInv, ShelfGood
<1>5. ShelfGood'
  BY <1>1, <1>3 DEF NotesInv, ShelfGood
<1>6. DraftsGood'
  BY <1>1 DEF NotesInv, DraftsGood
<1>7. NotesGood'
  BY <1>1, <1>3 DEF NotesInv, NotesGood, Unlinking
<1>8. HolderGood'
  BY <1>1, <1>2, <1>3, <1>4 DEF HolderGood
<1> QED
  BY <1>1, <1>5, <1>6, <1>7, <1>8 DEF NotesInv

LEMMA AnnotateNotes ==
    ASSUME FilesInv, PromiseInv, NotesInv, Annotate
    PROVE  NotesInv'
<1>1. /\ op \in Operation /\ op # None /\ op.phase = "annotate"
      /\ UNCHANGED <<objects, versions, staged, open, written, noted>>
      /\ notes'.now = notes.now \union {op.file.notesId}
      /\ everNoted' = everNoted \union {op.body}
      /\ Continue("finish", <<"notes">>)
  BY DEF Annotate, InPhase, FilesInv, OperationGood, Change
<1>2. "finish" \in Phases /\ <<"notes">> \in Seq(Barriers)
  BY BarrierSequences DEF Phases, Barriers
<1>3. /\ op' # None /\ op'.kind = op.kind /\ op'.phase = "finish"
      /\ op'.body = op.body
  BY <1>1, <1>2, ContinuedDue, ContinuedBody
<1>4. Shelf' = Shelf /\ VisibleFiles' = VisibleFiles
  BY <1>1, SameShelf
<1>5. op.file.notesId = WrittenId(op.body)
  BY <1>1 DEF NotesInv, HolderGood, ShelfGood
<1>6. ShelfGood' /\ DraftsGood'
  BY <1>1, <1>3, <1>4 DEF NotesInv, ShelfGood, DraftsGood
<1>7. NotesGood'
  BY <1>1, <1>3, <1>4, <1>5, WrittenIds DEF NotesInv, NotesGood, Unlinking
<1>8. HolderGood'
  BY <1>1, <1>3, <1>5 DEF NotesInv, HolderGood
<1> QED
  BY <1>1, <1>6, <1>7, <1>8 DEF NotesInv

LEMMA UnannotateNotes ==
    ASSUME FilesInv, PromiseInv, NotesInv, Unannotate
    PROVE  NotesInv'
<1>1. /\ op \in Operation /\ op # None /\ op.phase = "unannotate"
      /\ UNCHANGED <<objects, versions, staged, open, written, noted, everNoted>>
      /\ notes'.now = notes.now \/ notes'.now = notes.now \ {op.file.notesId}
      /\ Continue("finish", <<"notes">>) \/ Continue("finish", <<>>)
  BY DEF Unannotate, InPhase, FilesInv, OperationGood, Change, history
<1>2. /\ <<"notes">> \in Seq(Barriers) /\ <<>> \in Seq(Barriers)
      /\ "finish" \in Phases
  BY BarrierSequences DEF Barriers, Phases
<1>3. op' # None /\ op'.kind = op.kind /\ op'.phase = "finish"
  <2>1. CASE Continue("finish", <<"notes">>)
    BY <1>1, <1>2, <2>1, ContinuedDue
  <2>2. CASE Continue("finish", <<>>)
    BY <1>1, <1>2, <2>2, ContinuedDue
  <2> QED
    BY <1>1, <2>1, <2>2
<1>4. /\ op.file.notesId = WrittenId(op.body) /\ op.body \notin noted
      /\ op.kind \notin {"copy", "annotate", "complete"}
  BY <1>1 DEF NotesInv, HolderGood, ShelfGood
<1>5. HolderGood'
  BY <1>3, <1>4 DEF HolderGood
<1>6. \A f \in VisibleFiles : f.body \in noted => f.notesId # op.file.notesId
  BY <1>4, WrittenIds, VisibleShelf DEF NotesInv, ShelfGood
<1> QED
  BY <1>1, <1>3, <1>5, <1>6, FewerNotes

LEMMA RetagNotes ==
    ASSUME FilesInv, FilesInv', PromiseInv, NotesInv, Retag
    PROVE  NotesInv'
<1> DEFINE file == op.file
           changed == [op.file EXCEPT !.tag = 1 - @, !.flushed = FALSE]
           new == SyncFile(changed)
<1>1. /\ op \in Operation /\ op # None /\ op.phase = "retag"
      /\ UNCHANGED <<notes, staged, open, written, noted, everNoted>>
      /\ Continue("finish", <<"objects">>) \/ Continue("finish", <<"versions">>)
  BY DEF Retag, InPhase, FilesInv, OperationGood, history
<1>2. /\ <<"objects">> \in Seq(Barriers) /\ <<"versions">> \in Seq(Barriers)
      /\ "finish" \in Phases
  BY BarrierSequences DEF Barriers, Phases
<1>3. op' # None /\ op'.kind = op.kind /\ op'.phase = "finish"
  BY <1>1, <1>2, ContinuedDue
<1>4. /\ file \in Shelf /\ file \in Files /\ Live(file)
      /\ op.kind \notin {"copy", "annotate", "complete"}
  BY <1>1 DEF NotesInv, HolderGood, PromiseInv, FileGood, FilesInv,
              OperationGood, Operation, Shelf
<1>5. file \in VisibleFiles
  BY <1>4, LiveOnShelf DEF Shelf, ObjectKinds, MarkerKinds
<1>6. /\ new.body = file.body /\ new.notesId = file.notesId /\ new \in Files
      /\ new.pub = file.pub /\ new.kind = file.kind /\ new # None
  <2>1. changed \in Files /\ changed.body = file.body /\ changed.notesId = file.notesId
    <3>1. 1 - file.tag \in {0, 1}
      BY <1>4 DEF Files
    <3> QED
      BY <1>4, <3>1 DEF Files
  <2>2. new.body = changed.body /\ new.notesId = changed.notesId
    BY <2>1 DEF SyncFile, Files
  <2> QED
    BY <1>4, <2>1, <2>2, UpdatedFile, NoneIsNoFile
<1>7. \/ /\ file.kind = "L" /\ objects'.now = new /\ versions'.now = versions.now
      \/ /\ file.kind # "L" /\ objects'.now = objects.now
         /\ versions'.now = (versions.now \ {file}) \union {new}
  BY DEF Retag, Change
<1> HIDE DEF file, new, changed
<1>8. HolderGood'
  BY <1>3, <1>4 DEF HolderGood
<1>9. Shelf' \subseteq (Shelf \ {file}) \union {new}
  <2>1. CASE file.kind = "L"
    <3>1. file = objects.now /\ file \notin versions.now
      BY <1>4, <2>1, Contents, GenerationFiles DEF Live
    <3> QED
      BY <1>6, <1>7, <2>1, <3>1 DEF Shelf
  <2>2. CASE file.kind # "L"
    <3>1. objects.now # file
      BY <1>4, <2>2, NoneIsNoFile, Contents DEF Legacies
    <3> QED
      BY <1>6, <1>7, <2>2, <3>1 DEF Shelf
  <2> QED
    BY <2>1, <2>2
<1>10. \A f \in versions'.now : f \in versions.now \/ f = new
  BY <1>7
<1>11. VisibleFiles' \subseteq VisibleFiles \union {new}
  <2>1. CASE file.kind = "L"
    <3>1. NullFiles(versions.now) = {}
      BY <1>4, <2>1 DEF Live
    <3> QED
      BY <1>7, <2>1, <3>1 DEF VisibleFiles, SelectNull
  <2>2. CASE file.kind # "L"
    <3> DEFINE v == (versions.now \ {file}) \union {new}
    <3>1. objects'.now = objects.now /\ versions'.now = v
      BY <1>7, <2>2
    <3>2. \A f \in OpaqueFiles(v) : f \in OpaqueFiles(versions.now) \/ f = new
      BY DEF OpaqueFiles, NullFiles
    <3>3. \/ SelectNull(objects.now, v) = SelectNull(objects.now, versions.now)
          \/ SelectNull(objects.now, v) = new
      <4>1. CASE file.kind \in NullKinds
        <5>1. v \in Generations
          BY <3>1 DEF FilesInv, DirectoriesGood, Directory
        <5>2. file.kind # "T" /\ Tops(file, versions.now)
          BY <1>4, <2>2, <4>1 DEF Live
        <5>3. Tops(new, v)
          BY <1>6, <5>2 DEF Tops, NullFiles
        <5> QED
          BY <1>6, <4>1, <5>1, <5>2, <5>3, TopIsSelected
      <4>2. CASE file.kind \notin NullKinds
        <5>1. NullFiles(v) = NullFiles(versions.now)
          BY <1>6, <4>2 DEF NullFiles
        <5> QED
          BY <5>1, SameNulls
      <4> QED
        BY <4>1, <4>2
    <3> HIDE DEF v
    <3> QED
      BY <3>1, <3>2, <3>3 DEF VisibleFiles
  <2> QED
    BY <2>1, <2>2
<1>12. ShelfGood'
  <2>1. \A f \in Shelf' : /\ f.body \in 1..written /\ f.body \notin staged
                          /\ f.notesId = WrittenId(f.body)
    BY <1>4, <1>6, <1>9 DEF NotesInv, ShelfGood
  <2>2. \A f, g \in Shelf' : f.body = g.body => f = g
    BY <1>4, <1>6, <1>9 DEF NotesInv, ShelfGood
  <2>3. \A f \in versions'.now : f.kind \notin ObjectKinds => f.notesId[1] = "path"
    BY <1>4, <1>6, <1>10 DEF NotesInv, ShelfGood, Shelf
  <2> QED
    BY <1>1, <2>1, <2>2, <2>3 DEF ShelfGood
<1>13. DraftsGood'
  BY <1>1, <1>3 DEF NotesInv, DraftsGood
<1>14. NotesGood'
  BY <1>1, <1>5, <1>6, <1>11 DEF NotesInv, NotesGood, Unlinking
<1> QED
  BY <1>1, <1>8, <1>12, <1>13, <1>14 DEF NotesInv

(***************************************************************************)
(* The theorem                                                             *)
(***************************************************************************)
LEMMA NextKeepsNotes ==
    ASSUME "complete" \notin Operations, FilesInv, FilesInv', PromiseInv, NotesInv,
           faults' = <<>>, [Next]_vars
    PROVE  NotesInv'
<1>1. CASE UNCHANGED vars
  <2>1. SameNotes /\ UNCHANGED <<staged, written, op>>
    BY <1>1 DEF vars, directories, SameNotes, NotesInv
  <2>2. Shelf' = Shelf /\ VisibleFiles' = VisibleFiles
    BY <2>1, SameShelf DEF SameNotes
  <2>3. HolderGood'
    BY <2>1, <2>2 DEF NotesInv, HolderGood, SameNotes, history
  <2> QED
    BY <2>1, <2>3, SameNotesKept
<1>2. CASE Stage \/ \E b \in staged : Unstage(b)
  BY <1>2, StageNotes
<1>3. CASE Begin
  <2>1. ASSUME NEW b \in staged, NEW kind \in {"put", "create", "copy"},
               BeginPut(b, kind)
        PROVE  NotesInv'
    BY <2>1, BeginPutNotes
  <2>2. ASSUME NEW kind \in {"retag", "annotate", "unannotate"},
               NEW selector \in Selectors, BeginUpdate(kind, selector)
        PROVE  NotesInv'
    BY <2>2, BeginUpdateNotes
  <2>3. ~BeginComplete
    BY DEF BeginComplete
  <2> QED
    BY <1>3, <2>1, <2>2, <2>3, GateNotes DEF Begin
<1>4. CASE Proceed
  <2>1. ASSUME NEW f \in Superseded, RemoveSuperseded(f)
        PROVE  NotesInv'
    BY <2>1, RemoveSupersededNotes
  <2> QED
    BY <1>4, <2>1, SyncDirectoryNotes, FinishNotes, CopyNotesNotes, PublishNotes,
       RetireNotesNotes, RemoveLegacyNotes, EntombNotes, DeleteNothingNotes,
       PublishMarkerNotes, RemoveNotesNotes, UnlinkNotes, GateNotes, RetagNotes,
       AnnotateNotes, UnannotateNotes DEF Proceed
<1>5. CASE SyncFails \/ Crash \/ PowerLoss
  <2>1. \E kind : faults' = Append(faults, kind) /\ faults \in Seq(FaultKinds)
    BY <1>5 DEF SyncFails, Crash, PowerLoss, Fault
  <2> QED
    BY <2>1
<1>6. CASE Reopen
  BY <1>6 DEF Reopen, NotesInv
<1> QED
  BY <1>1, <1>2, <1>3, <1>4, <1>5, <1>6 DEF Next

LEMMA InitNotes ==
    ASSUME Init
    PROVE  NotesInv
<1>1. /\ open /\ op = None /\ objects.now = None /\ versions.now = {}
      /\ notes.now = {} /\ staged = {} /\ written = 0 /\ noted = {}
  BY DEF Init, history, Fresh
<1>2. Shelf = {}
  BY <1>1 DEF Shelf
<1>3. VisibleFiles = {}
  BY <1>1 DEF VisibleFiles, OpaqueFiles, NullFiles, SelectNull, IsObject
<1> QED
  BY <1>1, <1>2, <1>3 DEF NotesInv, ShelfGood, DraftsGood, NotesGood, HolderGood

\* A fault is never forgotten.
LEMMA FaultsStay ==
    ASSUME faults \in Seq(FaultKinds), [Next]_vars, faults' = <<>>
    PROVE  faults = <<>>
<1>1. CASE SyncFails \/ Crash \/ PowerLoss
  BY <1>1 DEF SyncFails, Crash, PowerLoss, Fault
<1>2. CASE ~(SyncFails \/ Crash \/ PowerLoss)
  BY <1>2
  DEF Next, Stage, Unstage, Begin, BeginPut, BeginComplete, BeginDelete,
      BeginUpdate, PutStatus, Proceed, SyncDirectory, Finish, CopyNotes,
      Publish, RetireNotes, RemoveSuperseded, RemoveLegacy, Entomb,
      DeleteNothing, PublishMarker, RemoveNotes, Unlink, EndBatch, Retag,
      Annotate, Unannotate, Reopen, vars
<1> QED
  BY <1>1, <1>2

\* As long as nothing has failed and the gate is free, every generation that
\* readers see has the annotation acknowledged for it, unless it was deleted
\* since, and none has one written for another.  Completions of multipart
\* uploads are left out: they name annotations after the place a generation is
\* published at, and a later generation at this place finds them.  Faults are
\* left out because a deletion removes the annotations before the generation,
\* and a fault between the two leaves the generation without them.
THEOREM AnnotationsFollow ==
    "complete" \notin Operations => (Spec => [](faults = <<>> => NotesFollow))
<1> SUFFICES ASSUME "complete" \notin Operations
             PROVE  Spec => [](faults = <<>> => NotesFollow)
  OBVIOUS
<1> DEFINE Inv == faults = <<>> => PromiseInv /\ NotesInv
<1>1. Init /\ FilesInv => Inv
  BY InitPromise, InitNotes
<1>2. /\ "complete" \notin Operations
      /\ BarriersGood /\ FilesInv /\ FilesInv' /\ Inv /\ [Next]_vars
      => Inv'
  <2> SUFFICES ASSUME "complete" \notin Operations, BarriersGood, FilesInv,
                      FilesInv', Inv, [Next]_vars, faults' = <<>>
               PROVE  PromiseInv' /\ NotesInv'
    OBVIOUS
  <2>1. faults = <<>>
    BY FaultsStay DEF BarriersGood
  <2>2. Orderly
    BY <2>1 DEF BarriersGood, Undamaged, Orderly
  <2>3. PromiseInv'
    BY <2>1, <2>2, NextKeepsPromise
  <2>4. NotesInv'
    BY <2>1, NextKeepsNotes
  <2> QED
    BY <2>3, <2>4
<1>3. FilesInv /\ Inv => (faults = <<>> => NotesFollow)
  <2> SUFFICES ASSUME FilesInv, NotesInv, op = None, NEW f \in VisibleFiles
               PROVE  /\ f.body \in noted => f.notesId \in notes.now
                      /\ f.notesId \in notes.now => f.body \in everNoted
    BY DEF NotesFollow
  <2>1. f.notesId = WrittenId(f.body)
    BY VisibleShelf DEF NotesInv, ShelfGood
  <2>2. f.notesId \in notes.now => f.body \in everNoted
    BY <2>1, WrittenIds DEF NotesInv, NotesGood
  <2>3. f.body \in noted => f.notesId \in notes.now
    BY DEF NotesInv, NotesGood, Unlinking
  <2> QED
    BY <2>2, <2>3
<1> QED
  BY <1>1, <1>2, <1>3, FilesInvariant, BarriersInvariant, PTL DEF Spec

=============================================================================

--------------------------- MODULE SqliteStoreProofs ---------------------------
(***************************************************************************)
(* For every number of clients, files, rows and calls, and every sequence  *)
(* of faults: a file that a committed row names is there and complete,     *)
(* also after a power loss, and a start leaves no other; nothing leaks     *)
(* until something fails; and the steps implement DurableVersions.         *)
(***************************************************************************)
EXTENDS SqliteStore, FiniteSetTheorems, SequenceTheorems, TLAPS

Statuses == {"Unconfigured", "Enabled", "Suspended"}

Kinds == AllOperations \union {"none", "released"}

Writes == {"stage", "flush", "rename", "sync", "commit"}

Phases == Writes \union {"idle", "refused", "retire", "settle", "forgiven", "again"}

CallRecord ==
    [kind : Kinds, phase : Phases, file : Nat, note : Nat, retire : Seq(Nat),
     checked : BOOLEAN, committed : BOOLEAN, ok : BOOLEAN]

RowRecord == [id : Nat, order : Nat, marker : BOOLEAN, payload : Nat, note : Nat]

\* The call has a file that is not committed yet.
Active(c) == calls[c].phase \in Writes

\* The other files: no call will write, rename or delete one as its own.
Settled == (1..created) \ {calls[c].file : c \in {d \in Clients : Active(d)}}

\* Files that must stay.
Safe == Held \union Leased

TypeGood ==
    /\ rows \subseteq RowRecord /\ sequence \in Nat /\ status \in Statuses
    /\ leases \in [1..MaxFiles -> Nat]
    /\ created \in 0..MaxFiles
    /\ calls \in [Clients -> CallRecord]

\* What must stay is there and on the device.
SafeStays ==
    /\ \A o \in Outcomes(objects) : Safe \subseteq o /\ 0 \notin o
    /\ Safe \subseteq flushed
    /\ Safe \subseteq Settled

\* A payload is in one row, and is neither an annotation nor lent.  So it may
\* be unlinked without asking once its row is gone.
PayloadsAlone ==
    \A r \in rows : r.payload # 0 =>
        /\ r.payload \notin Leased
        /\ \A s \in rows : /\ s.note # r.payload
                           /\ s.payload = r.payload => s = r

\* How far the file of a call has come.
FileSound(c) ==
    /\ calls[c].file \in 1..created
    /\ \A d \in Clients \ {c} : Active(d) => calls[d].file # calls[c].file
    /\ calls[c].phase \in {"rename", "sync", "commit"} =>
          calls[c].file \in flushed
    /\ calls[c].phase = "sync" => calls[c].file \in objects.now
    /\ calls[c].phase = "commit" =>
          \A o \in Outcomes(objects) : calls[c].file \in o

\* What a call still has to unlink is settled, and what it unlinks without
\* asking is needed by nobody.
CallSound(c) ==
    /\ Active(c) => FileSound(c) /\ calls[c].retire = <<>>
    /\ calls[c].note # 0 => calls[c].note \in Leased
    /\ calls[c].retire \in Seq(Settled)
    /\ calls[c].phase = "again" => calls[c].checked
    /\ ~calls[c].checked => /\ calls[c].retire # <<>>
                            /\ Head(calls[c].retire) \notin Safe

\* No call and no lease outlives the process.
ClosedQuiet ==
    ~open => Leased = {} /\ \A c \in Clients : calls[c] = NoCall

SqliteInv ==
    /\ TypeGood /\ SafeStays /\ PayloadsAlone /\ ClosedQuiet
    /\ \A c \in Clients : CallSound(c)
\* A directory has what must stay, and the files of calls other than c.
Present(dir, c) ==
    /\ \A o \in Outcomes(dir) : Safe \subseteq o /\ 0 \notin o
    /\ \A d \in Clients \ {c} :
        /\ calls[d].phase = "sync" => calls[d].file \in dir.now
        /\ calls[d].phase = "commit" =>
              \A o \in Outcomes(dir) : calls[d].file \in o

(***************************************************************************)
(* Directories                                                             *)
(***************************************************************************)
LEMMA ChangedDirectory ==
    ASSUME NEW d, NEW v
    PROVE  /\ Change(d, v).now = v
           /\ Outcomes(Change(d, v)) \subseteq {v} \union Outcomes(d)
BY DEF Change, Outcomes

LEMMA SyncedDirectory ==
    ASSUME NEW d
    PROVE  /\ Synced(d).now = d.now /\ d.now \in Outcomes(d)
           /\ Outcomes(Synced(d)) = {d.now}
BY DEF Synced, Outcomes

LEMMA SamePresent ==
    ASSUME SqliteInv, NEW c \in Clients
    PROVE  Present(objects, c) /\ Present(Synced(objects), c)
<1>1. Present(objects, c)
  BY DEF Present, SqliteInv, SafeStays, CallSound, FileSound, Active, Writes
<1>2. /\ Synced(objects).now = objects.now /\ objects.now \in Outcomes(objects)
      /\ Outcomes(Synced(objects)) = {objects.now}
  BY SyncedDirectory
<1> QED
  BY <1>1, <1>2 DEF Present

LEMMA ChangedPresent ==
    ASSUME SqliteInv, NEW c \in Clients, NEW v, Safe \subseteq v, 0 \notin v,
           \A d \in Clients \ {c} :
              /\ calls[d].phase = "sync" => calls[d].file \in v
              /\ calls[d].phase = "commit" => calls[d].file \in v
    PROVE  Present(Change(objects, v), c)
<1>1. /\ Change(objects, v).now = v
      /\ Outcomes(Change(objects, v)) \subseteq {v} \union Outcomes(objects)
  BY ChangedDirectory
<1>2. Present(objects, c)
  BY SamePresent
<1> QED
  BY <1>1, <1>2 DEF Present

LEMMA LinkedPresent ==
    ASSUME SqliteInv, NEW c \in Clients, NEW f, f # 0
    PROVE  Present(Change(objects, objects.now \union {f}), c)
<1>1. Present(objects, c) /\ objects.now \in Outcomes(objects)
  BY SamePresent, SyncedDirectory
<1> QED
  BY <1>1, ChangedPresent DEF Present

\* A file may go that is neither needed nor that of another call.
LEMMA UnlinkedPresent ==
    ASSUME SqliteInv, NEW c \in Clients, NEW f, f \notin Safe,
           \A d \in Clients \ {c} : Active(d) => calls[d].file # f
    PROVE  Present(Change(objects, objects.now \ {f}), c)
<1>1. Present(objects, c) /\ objects.now \in Outcomes(objects)
  BY SamePresent, SyncedDirectory
<1>2. \A d \in Clients \ {c} :
        calls[d].phase \in {"sync", "commit"} => calls[d].file # f
  BY DEF Active, Writes
<1> QED
  BY <1>1, <1>2, ChangedPresent DEF Present

\* The file of a call that is not committed is nobody else's.
LEMMA OwnFile ==
    ASSUME SqliteInv, NEW c \in Clients, Active(c)
    PROVE  /\ calls[c].file \in 1..created
           /\ calls[c].file \notin Safe /\ calls[c].file \notin Settled
           /\ \A d \in Clients \ {c} : Active(d) => calls[d].file # calls[c].file
           /\ calls[c].retire = <<>> /\ calls[c].checked
<1>1. CallSound(c) /\ FileSound(c) /\ calls[c].retire = <<>>
  BY DEF SqliteInv, CallSound
<1>2. calls[c].file \notin Settled
  BY DEF Settled
<1>3. calls[c].checked
  BY <1>1 DEF CallSound
<1> QED
  BY <1>1, <1>2, <1>3 DEF FileSound, SqliteInv, SafeStays

\* A settled file is not that of a call.
LEMMA SettledFile ==
    ASSUME NEW f \in Settled
    PROVE  f \in 1..created /\ \A d \in Clients : Active(d) => calls[d].file # f
BY DEF Settled
(***************************************************************************)
(* Steps of one call.  The other calls stay sound if the directory keeps   *)
(* their files and what becomes needed is no settled file.                 *)
(***************************************************************************)
\* Only call c changes, and the file it may have is its own or a new one.
OnlyCall(c) ==
    /\ calls' \in [Clients -> CallRecord]
    /\ \A d \in Clients \ {c} : calls'[d] = calls[d]
    /\ \/ created' = created /\ (Active(c)' => /\ Active(c)
                                             /\ calls'[c].file = calls[c].file)
       \/ created' = created + 1 /\ calls'[c].file = created' /\ ~Active(c)

LEMMA SettledGrows ==
    ASSUME SqliteInv, NEW c \in Clients, OnlyCall(c)
    PROVE  Settled \subseteq Settled'
<1>1. created \in Nat /\ created' \in Nat
  BY DEF OnlyCall, SqliteInv, TypeGood
<1>2. SUFFICES ASSUME NEW f \in Settled PROVE f \in Settled'
  OBVIOUS
<1>3. f \in 1..created' /\ f # created + 1
  BY <1>1 DEF OnlyCall, Settled
<1>4. ASSUME NEW d \in Clients, Active(d)' PROVE calls'[d].file # f
  <2>1. CASE d = c
    BY <1>3, <1>4, <2>1 DEF OnlyCall, Settled
  <2>2. CASE d # c
    <3>1. calls'[d] = calls[d]
      BY <2>2 DEF OnlyCall
    <3> QED
      BY <1>4, <3>1 DEF Active, Settled
  <2> QED
    BY <2>1, <2>2
<1> QED
  BY <1>3, <1>4 DEF Settled

LEMMA OthersKeep ==
    ASSUME SqliteInv, NEW c \in Clients, OnlyCall(c),
           flushed \subseteq flushed', Leased \subseteq Leased',
           Present(objects', c), Safe' \intersect Settled \subseteq Safe
    PROVE  \A d \in Clients \ {c} : CallSound(d)'
<1> SUFFICES ASSUME NEW d \in Clients \ {c} PROVE CallSound(d)'
  OBVIOUS
<1>1. CallSound(d) /\ calls'[d] = calls[d] /\ Active(d)' = Active(d)
  BY DEF SqliteInv, OnlyCall, Active
<1>2. created \in Nat /\ created' \in Nat /\ created <= created'
  BY DEF OnlyCall, SqliteInv, TypeGood
<1>3. ASSUME Active(d) PROVE FileSound(d)'
  <2>1. FileSound(d)
    BY <1>1, <1>3 DEF CallSound
  <2>2. calls'[d].file \in 1..created'
    BY <1>1, <1>2, <2>1 DEF FileSound
  <2>3. ASSUME NEW e \in Clients \ {d}, Active(e)'
        PROVE  calls'[e].file # calls'[d].file
    <3>1. CASE e = c
      BY <1>1, <1>2, <2>1, <2>3, <3>1 DEF FileSound, OnlyCall
    <3>2. CASE e # c
      <4>1. calls'[e] = calls[e]
        BY <3>2 DEF OnlyCall
      <4> QED
        BY <1>1, <2>1, <2>3, <4>1 DEF FileSound, Active
    <3> QED
      BY <3>1, <3>2
  <2>4. calls'[d].phase \in {"rename", "sync", "commit"} =>
            calls'[d].file \in flushed'
    BY <1>1, <2>1 DEF FileSound
  <2>5. calls'[d].phase = "sync" => calls'[d].file \in objects'.now
    BY <1>1 DEF Present
  <2>6. calls'[d].phase = "commit" =>
            \A o \in Outcomes(objects') : calls'[d].file \in o
    BY <1>1 DEF Present
  <2> QED
    BY <2>2, <2>3, <2>4, <2>5, <2>6 DEF FileSound
<1>4. calls'[d].note # 0 => calls'[d].note \in Leased'
  BY <1>1 DEF CallSound
<1>5. calls'[d].retire \in Seq(Settled')
  BY <1>1, SettledGrows, SeqMonotonic DEF CallSound
<1>6. ~calls'[d].checked => /\ calls'[d].retire # <<>>
                            /\ Head(calls'[d].retire) \notin Safe'
  <2>1. ASSUME ~calls[d].checked PROVE Head(calls[d].retire) \in Settled
    BY <1>1, <2>1 DEF CallSound
  <2> QED
    BY <1>1, <2>1 DEF CallSound
<1>7. calls'[d].phase = "again" => calls'[d].checked
  BY <1>1 DEF CallSound
<1>8. Active(d)' => calls'[d].retire = <<>>
  BY <1>1 DEF CallSound
<1> QED
  BY <1>1, <1>3, <1>4, <1>5, <1>6, <1>7, <1>8 DEF CallSound

\* A step of a call that commits nothing and takes no lease.
Waits(c) ==
    LET call == calls'[c]
    IN  /\ call.note # 0 => call.note \in Leased
        /\ call.retire \in Seq(Settled)
        /\ call.phase = "again" => call.checked
        /\ ~call.checked => call.retire # <<>> /\ Head(call.retire) \notin Safe
        /\ Active(c)' =>
              /\ call.retire = <<>>
              /\ call.phase \in {"rename", "sync", "commit"} =>
                    call.file \in flushed'
              /\ call.phase = "sync" => call.file \in objects'.now
              /\ call.phase = "commit" =>
                    \A o \in Outcomes(objects') : call.file \in o

LEMMA StepKeeps ==
    ASSUME SqliteInv, NEW c \in Clients, OnlyCall(c), created' = created,
           open, open', UNCHANGED <<rows, sequence, status>>,
           leases' \in [1..MaxFiles -> Nat], Leased' = Leased,
           flushed \subseteq flushed', Present(objects', c), Waits(c)
    PROVE  SqliteInv'
<1>1. Held' = Held /\ Safe' = Safe
  BY DEF Held, Safe
<1>2. \A d \in Clients \ {c} : CallSound(d)'
  BY <1>1, OthersKeep
<1>3. Settled \subseteq Settled'
  BY SettledGrows
<1>4. CallSound(c)'
  <2>1. ASSUME Active(c)' PROVE FileSound(c)'
    <3>1. FileSound(c) /\ calls'[c].file = calls[c].file
      BY <2>1, SMTT(20) DEF SqliteInv, CallSound, OnlyCall, TypeGood
    <3>2. \A d \in Clients \ {c} : Active(d)' = Active(d) /\ calls'[d] = calls[d]
      BY DEF OnlyCall, Active
    <3> QED
      BY <2>1, <3>1, <3>2 DEF FileSound, Waits
  <2>2. calls'[c].retire \in Seq(Settled')
    BY <1>3, SeqMonotonic DEF Waits
  <2> QED
    BY <1>1, <2>1, <2>2 DEF CallSound, Waits
<1>5. SafeStays'
  BY <1>1, <1>3 DEF SqliteInv, SafeStays, Present
<1>6. TypeGood' /\ PayloadsAlone' /\ ClosedQuiet'
  BY DEF SqliteInv, TypeGood, PayloadsAlone, ClosedQuiet, OnlyCall
<1> QED
  BY <1>2, <1>4, <1>5, <1>6 DEF SqliteInv
(***************************************************************************)
(* A call that goes on to another phase with the same files                *)
(***************************************************************************)
Moved(c, phase) ==
    /\ calls' \in [Clients -> CallRecord]
    /\ \A d \in Clients \ {c} : calls'[d] = calls[d]
    /\ calls'[c].phase = phase
    /\ calls'[c].file = calls[c].file /\ calls'[c].note = calls[c].note
    /\ calls'[c].retire = calls[c].retire
    /\ calls'[c].checked = calls[c].checked

LEMMA GotoMoves ==
    ASSUME SqliteInv, NEW c \in Clients, NEW phase \in Phases, Goto(c, phase)
    PROVE  Moved(c, phase)
<1> DEFINE r == [calls[c] EXCEPT !.phase = phase]
<1>1. calls \in [Clients -> CallRecord] /\ calls[c] \in CallRecord
  BY DEF SqliteInv, TypeGood
<1>2. r \in CallRecord
  BY <1>1 DEF CallRecord
<1>3. /\ r.phase = phase /\ r.file = calls[c].file /\ r.note = calls[c].note
      /\ r.retire = calls[c].retire /\ r.checked = calls[c].checked
  BY <1>1 DEF CallRecord
<1>4. calls' = [calls EXCEPT ![c] = r]
  BY DEF Goto
<1> HIDE DEF r
<1> QED
  BY <1>1, <1>2, <1>3, <1>4 DEF Moved

LEMMA FailMoves ==
    ASSUME SqliteInv, NEW c \in Clients, NEW phase \in Phases, Fail(c, phase)
    PROVE  Moved(c, phase)
<1> DEFINE r == [calls[c] EXCEPT !.phase = phase, !.ok = FALSE]
<1>1. calls \in [Clients -> CallRecord] /\ calls[c] \in CallRecord
  BY DEF SqliteInv, TypeGood
<1>2. r \in CallRecord
  BY <1>1 DEF CallRecord
<1>3. /\ r.phase = phase /\ r.file = calls[c].file /\ r.note = calls[c].note
      /\ r.retire = calls[c].retire /\ r.checked = calls[c].checked
  BY <1>1 DEF CallRecord
<1>4. calls' = [calls EXCEPT ![c] = r]
  BY DEF Fail
<1> HIDE DEF r
<1> QED
  BY <1>1, <1>2, <1>3, <1>4 DEF Moved

LEMMA MovedKeeps ==
    ASSUME SqliteInv, NEW c \in Clients, NEW phase \in Phases, Moved(c, phase),
           UNCHANGED <<catalog, created, open>>, open,
           flushed \subseteq flushed', Present(objects', c),
           phase \in Writes => Active(c),
           phase = "again" => calls[c].retire = <<>>,
           phase \in {"rename", "sync", "commit"} => calls[c].file \in flushed',
           phase = "sync" => calls[c].file \in objects'.now,
           phase = "commit" => \A o \in Outcomes(objects') : calls[c].file \in o
    PROVE  SqliteInv'
<1>1. OnlyCall(c)
  BY DEF OnlyCall, Moved, Active
<1>2. CallSound(c)
  BY DEF SqliteInv
<1>3. Waits(c)
  BY <1>2 DEF Waits, Moved, Active, CallSound
<1>4. leases' \in [1..MaxFiles -> Nat] /\ Leased' = Leased
  BY DEF catalog, Leased, SqliteInv, TypeGood
<1> QED
  BY <1>1, <1>3, <1>4, StepKeeps DEF catalog

LEMMA StageKeeps ==
    ASSUME SqliteInv, NEW c \in Clients, Stage(c)
    PROVE  SqliteInv'
<1>1. Moved(c, "flush")
  BY GotoMoves DEF Stage, Phases, Writes
<1>2. Active(c) /\ Present(objects', c)
  BY SamePresent DEF Stage, In, Active, Writes
<1> QED
  BY <1>1, <1>2, MovedKeeps DEF Stage, In, Phases, Writes

LEMMA FlushKeeps ==
    ASSUME SqliteInv, NEW c \in Clients, Flush(c)
    PROVE  SqliteInv'
<1>1. Moved(c, "rename")
  BY GotoMoves DEF Flush, Phases, Writes
<1>2. Active(c) /\ Present(objects', c)
  BY SamePresent DEF Flush, In, Active, Writes
<1> QED
  BY <1>1, <1>2, MovedKeeps DEF Flush, In, Phases, Writes

LEMMA AbandonKeeps ==
    ASSUME SqliteInv, NEW c \in Clients, Abandon(c)
    PROVE  SqliteInv'
<1>1. Moved(c, "retire")
  BY FailMoves DEF Abandon, Phases
<1>2. Present(objects', c)
  BY SamePresent DEF Abandon
<1> QED
  BY <1>1, <1>2, MovedKeeps DEF Abandon, In, Phases, Writes

LEMMA RenameKeeps ==
    ASSUME SqliteInv, NEW c \in Clients, Rename(c)
    PROVE  SqliteInv'
<1>1. Moved(c, "sync")
  BY GotoMoves DEF Rename, Phases, Writes
<1>2. Active(c) /\ calls[c].file \in flushed /\ calls[c].file # 0
  BY DEF Rename, In, Active, Writes, SqliteInv, CallSound, FileSound
<1>3. objects'.now = objects.now \union {calls[c].file}
  BY ChangedDirectory DEF Rename
<1>4. Present(objects', c)
  BY <1>2, LinkedPresent DEF Rename
<1> QED
  BY <1>1, <1>2, <1>3, <1>4, MovedKeeps DEF Rename, In, Phases, Writes

LEMMA SyncNameKeeps ==
    ASSUME SqliteInv, NEW c \in Clients, SyncName(c)
    PROVE  SqliteInv'
<1>1. Moved(c, "commit")
  BY GotoMoves DEF SyncName, Phases, Writes
<1>2. Active(c) /\ calls[c].file \in flushed /\ calls[c].file \in objects.now
  BY DEF SyncName, In, Active, Writes, SqliteInv, CallSound, FileSound
<1>3. /\ Present(objects', c)
      /\ \A o \in Outcomes(objects') : calls[c].file \in o
  BY <1>2, SamePresent, SyncedDirectory DEF SyncName
<1> QED
  BY <1>1, <1>2, <1>3, MovedKeeps DEF SyncName, In, Phases, Writes

LEMMA RefuseKeeps ==
    ASSUME SqliteInv, NEW c \in Clients, Refuse(c)
    PROVE  SqliteInv'
<1>1. Moved(c, "refused")
  BY FailMoves DEF Refuse, Phases
<1>2. Active(c)
  BY DEF Refuse, In, Active, Writes
<1>3. Present(objects', c)
  BY <1>2, OwnFile, UnlinkedPresent DEF Refuse
<1> QED
  BY <1>1, <1>3, MovedKeeps DEF Refuse, In, Phases, Writes

LEMMA SyncRefusedKeeps ==
    ASSUME SqliteInv, NEW c \in Clients, SyncRefused(c) \/ SyncRetired(c)
    PROVE  SqliteInv'
<1>1. /\ open /\ Goto(c, "retire") /\ objects' = Synced(objects)
      /\ UNCHANGED <<catalog, flushed, created, open>>
  BY DEF SyncRefused, SyncRetired, In
<1>2. Moved(c, "retire")
  BY <1>1, GotoMoves DEF Phases
<1>3. Present(objects', c)
  BY <1>1, SamePresent
<1> QED
  BY <1>1, <1>2, <1>3, MovedKeeps DEF Phases, Writes

LEMMA SyncFailsKeeps ==
    ASSUME SqliteInv, NEW c \in Clients, SyncFails(c)
    PROVE  SqliteInv'
<1>1. /\ open /\ UNCHANGED <<catalog, flushed, created, open>>
      /\ Fail(c, "retire") \/ Goto(c, "retire")
  BY DEF SyncFails, In
<1>2. Moved(c, "retire")
  BY <1>1, GotoMoves, FailMoves DEF Phases
<1>3. Present(objects', c)
  <2>1. CASE UNCHANGED objects
    BY <2>1, SamePresent
  <2>2. CASE /\ Active(c)
             /\ objects' = Change(objects, objects.now \ {calls[c].file})
    BY <2>2, OwnFile, UnlinkedPresent
  <2> QED
    BY <2>1, <2>2 DEF SyncFails, In, Active, Writes
<1> QED
  BY <1>1, <1>2, <1>3, MovedKeeps DEF Phases, Writes

LEMMA CommitFailsKeeps ==
    ASSUME SqliteInv, NEW c \in Clients, CommitFails(c)
    PROVE  SqliteInv'
<1>1. Moved(c, "retire")
  BY FailMoves DEF CommitFails, Phases
<1>2. Active(c)
  BY DEF CommitFails, In, Active, Writes
<1>3. Present(objects', c)
  BY <1>2, OwnFile, UnlinkedPresent DEF CommitFails
<1> QED
  BY <1>1, <1>3, MovedKeeps DEF CommitFails, In, Phases, Writes
(***************************************************************************)
(* After the commit                                                        *)
(***************************************************************************)
LEMMA CallBecomes ==
    ASSUME SqliteInv, NEW c \in Clients, NEW r \in CallRecord,
           calls' = [calls EXCEPT ![c] = r]
    PROVE  /\ calls' \in [Clients -> CallRecord] /\ calls'[c] = r
           /\ \A d \in Clients \ {c} : calls'[d] = calls[d]
BY DEF SqliteInv, TypeGood

LEMMA NoCallIsRecord ==
    /\ NoCall \in CallRecord
    /\ NoCall.phase = "idle" /\ NoCall.note = 0 /\ NoCall.retire = <<>>
    /\ NoCall.checked
<1>1. <<>> \in Seq(Nat)
  OBVIOUS
<1>2. "none" \in Kinds /\ "idle" \in Phases
  BY DEF Kinds, Phases
<1> QED
  BY <1>1, <1>2 DEF NoCall, CallRecord

\* A call that is past its commit, or has none, and goes on as r.
LEMMA PastCommitKeeps ==
    ASSUME SqliteInv, NEW c \in Clients, NEW r \in CallRecord,
           calls' = [calls EXCEPT ![c] = r],
           r.phase \notin Writes, r.phase = "again" => r.checked,
           r.note # 0 => r.note \in Leased, r.retire \in Seq(Settled),
           ~r.checked => r.retire # <<>> /\ Head(r.retire) \notin Safe,
           UNCHANGED <<rows, sequence, status, created, flushed>>,
           open, open', leases' \in [1..MaxFiles -> Nat], Leased' = Leased,
           Present(objects', c)
    PROVE  SqliteInv'
<1>1. /\ calls' \in [Clients -> CallRecord] /\ calls'[c] = r
      /\ \A d \in Clients \ {c} : calls'[d] = calls[d]
  BY CallBecomes
<1>2. OnlyCall(c) /\ Waits(c)
  BY <1>1 DEF OnlyCall, Waits, Active
<1> QED
  BY <1>2, StepKeeps

\* What is left to unlink, and the next file of it.
LEMMA NextRetired ==
    ASSUME SqliteInv, NEW c \in Clients, calls[c].retire # <<>>
    PROVE  /\ Head(calls[c].retire) \in Settled
           /\ Tail(calls[c].retire) \in Seq(Settled)
           /\ Tail(calls[c].retire) \in Seq(Nat)
<1>1. calls[c].retire \in Seq(Settled) /\ Settled \subseteq Nat
  BY DEF SqliteInv, CallSound, Settled, TypeGood
<1>2. Head(calls[c].retire) \in Settled /\ Tail(calls[c].retire) \in Seq(Settled)
  BY <1>1
<1> QED
  BY <1>1, <1>2, SeqMonotonic

LEMMA SameLeases ==
    ASSUME SqliteInv, UNCHANGED leases
    PROVE  leases' \in [1..MaxFiles -> Nat] /\ Leased' = Leased
BY DEF SqliteInv, TypeGood, Leased

LEMMA RetireKeeps ==
    ASSUME SqliteInv, NEW c \in Clients, Retire(c)
    PROVE  SqliteInv'
<1> DEFINE p == Head(calls[c].retire)
           phase == AfterUnlink(calls[c])
           r == [calls[c] EXCEPT !.phase = phase, !.checked = TRUE,
                                 !.retire = Tail(@)]
<1>1. /\ open /\ open' /\ calls[c].retire # <<>>
      /\ calls' = [calls EXCEPT ![c] = r]
      /\ UNCHANGED <<catalog, created, flushed>>
      /\ \/ UNCHANGED objects
         \/ /\ ~(calls[c].checked /\ Referenced(p))
            /\ objects' = Change(objects, objects.now \ {p})
  BY DEF Retire, In
<1>2. /\ calls[c] \in CallRecord /\ CallSound(c)
      /\ p \in Settled /\ Tail(calls[c].retire) \in Seq(Settled)
      /\ Tail(calls[c].retire) \in Seq(Nat)
  BY <1>1, NextRetired DEF SqliteInv, TypeGood
<1>3. phase \in Phases \ (Writes \union {"again"})
  BY DEF AfterUnlink, Phases, Writes
<1> HIDE DEF phase
<1>4. r \in CallRecord
  BY <1>2, <1>3 DEF CallRecord
<1>5. /\ r.phase = phase /\ r.checked /\ r.retire = Tail(calls[c].retire)
      /\ r.note = calls[c].note
  BY <1>2 DEF CallRecord
<1>6. Present(objects', c)
  <2>1. CASE UNCHANGED objects
    BY <2>1, SamePresent
  <2>2. CASE /\ ~(calls[c].checked /\ Referenced(p))
             /\ objects' = Change(objects, objects.now \ {p})
    <3>1. p \notin Safe
      BY <1>2, <2>2 DEF CallSound, Referenced, Safe, Held
    <3>2. \A d \in Clients \ {c} : Active(d) => calls[d].file # p
      BY <1>2 DEF Settled
    <3> HIDE DEF p
    <3> QED
      BY <2>2, <3>1, <3>2, UnlinkedPresent
  <2> QED
    BY <1>1, <2>1, <2>2
<1> HIDE DEF r
<1> QED
  BY <1>1, <1>2, <1>3, <1>4, <1>5, <1>6, PastCommitKeeps, SameLeases
  DEF catalog, CallSound

LEMMA CheckFailsKeeps ==
    ASSUME SqliteInv, NEW c \in Clients, CheckFails(c)
    PROVE  SqliteInv'
<1> DEFINE phase == AfterUnlink(calls[c])
           gone == [calls[c] EXCEPT !.retire = <<>>, !.ok = FALSE]
           next == [calls[c] EXCEPT !.phase = phase, !.retire = Tail(@)]
<1>1. /\ open /\ open' /\ calls[c].retire # <<>> /\ calls[c].checked
      /\ calls[c].phase = "retire"
      /\ \/ calls' = [calls EXCEPT ![c] = gone]
         \/ calls' = [calls EXCEPT ![c] = next]
      /\ UNCHANGED <<catalog, created, flushed, objects>>
  BY DEF CheckFails, In, files
<1>2. /\ calls[c] \in CallRecord /\ CallSound(c)
      /\ Tail(calls[c].retire) \in Seq(Settled)
      /\ Tail(calls[c].retire) \in Seq(Nat)
  BY <1>1, NextRetired DEF SqliteInv, TypeGood
<1>3. phase \in Phases \ (Writes \union {"again"})
  BY DEF AfterUnlink, Phases, Writes
<1> HIDE DEF phase
<1>4. Present(objects', c)
  BY <1>1, SamePresent
<1>5. CASE calls' = [calls EXCEPT ![c] = gone]
  <2>1. <<>> \in Seq(Nat) /\ <<>> \in Seq(Settled)
    OBVIOUS
  <2>2. gone \in CallRecord
    BY <1>2, <2>1 DEF CallRecord
  <2>3. /\ gone.phase = "retire" /\ gone.checked /\ gone.retire = <<>>
        /\ gone.note = calls[c].note
    BY <1>1, <1>2 DEF CallRecord
  <2> HIDE DEF gone
  <2> QED
    BY <1>1, <1>2, <1>4, <1>5, <2>1, <2>2, <2>3, PastCommitKeeps, SameLeases
    DEF catalog, CallSound, Writes
<1>6. CASE calls' = [calls EXCEPT ![c] = next]
  <2>1. next \in CallRecord
    BY <1>2, <1>3 DEF CallRecord
  <2>2. /\ next.phase = phase /\ next.checked /\ next.note = calls[c].note
        /\ next.retire = Tail(calls[c].retire)
    BY <1>1, <1>2 DEF CallRecord
  <2> HIDE DEF next
  <2> QED
    BY <1>1, <1>2, <1>3, <1>4, <1>6, <2>1, <2>2, PastCommitKeeps, SameLeases
    DEF catalog, CallSound
<1> QED
  BY <1>1, <1>5, <1>6

LEMMA ReturnKeeps ==
    ASSUME SqliteInv, NEW c \in Clients, Return(c)
    PROVE  SqliteInv'
<1>1. /\ open /\ open' /\ calls' = [calls EXCEPT ![c] = NoCall]
      /\ UNCHANGED <<catalog, created, flushed, objects>>
  BY DEF Return, Retired, In, files
<1>2. <<>> \in Seq(Settled)
  OBVIOUS
<1>3. Present(objects', c)
  BY <1>1, SamePresent
<1> QED
  BY <1>1, <1>2, <1>3, NoCallIsRecord, PastCommitKeeps, SameLeases
  DEF catalog, Writes

\* The last lease of a payload is never given back, so what is lent stays lent.
LEMMA ReleaseKeeps ==
    ASSUME SqliteInv, NEW c \in Clients, Release(c)
    PROVE  SqliteInv'
<1> DEFINE p == calls[c].note
           given == [calls[c] EXCEPT !.phase = "retire", !.kind = "released",
                                     !.retire = <<p>>, !.note = 0]
           kept == [calls[c] EXCEPT !.phase = "retire", !.note = 0]
<1>1. /\ open /\ open'
      /\ UNCHANGED <<rows, sequence, status, created, flushed, objects>>
      /\ \/ calls[c].phase = "retire" /\ calls[c].retire = <<>>
         \/ calls[c].phase = "again"
  BY DEF Release, Retired, In, files
<1>2. /\ calls[c] \in CallRecord /\ CallSound(c) /\ calls[c].checked
      /\ p \in Leased /\ p \in Settled /\ p \in Nat
  <2>1. calls[c] \in CallRecord /\ CallSound(c)
    BY DEF SqliteInv, TypeGood
  <2>2. p \in Leased
    BY <2>1 DEF Release, CallSound
  <2>3. p \in Settled
    BY <2>2 DEF SqliteInv, SafeStays, Safe
  <2> QED
    BY <1>1, <2>1, <2>2, <2>3 DEF CallSound, CallRecord
<1>3. Present(objects', c)
  BY <1>1, SamePresent
<1>4. CASE /\ leases[p] > 1
           /\ leases' = [leases EXCEPT ![p] = @ - 1]
           /\ calls' = [calls EXCEPT ![c] = given]
  <2>1. leases' \in [1..MaxFiles -> Nat] /\ Leased' = Leased
    BY <1>2, <1>4 DEF Leased, SqliteInv, TypeGood
  <2>2. <<p>> \in Seq(Nat) /\ <<p>> \in Seq(Settled)
    BY <1>2
  <2>3. "released" \in Kinds /\ "retire" \in Phases
    BY DEF Kinds, Phases
  <2>4. given \in CallRecord
    BY <1>2, <2>2, <2>3 DEF CallRecord
  <2>5. /\ given.phase = "retire" /\ given.checked /\ given.note = 0
        /\ given.retire = <<p>>
    BY <1>2 DEF CallRecord
  <2> HIDE DEF given
  <2> QED
    BY <1>1, <1>3, <1>4, <2>1, <2>2, <2>4, <2>5, PastCommitKeeps DEF Writes
<1>5. CASE UNCHANGED leases /\ calls[c].phase = "retire" /\ Fail(c, "again")
  <2>1. Moved(c, "again")
    BY <1>5, FailMoves DEF Phases
  <2> QED
    BY <1>1, <1>3, <1>5, <2>1, MovedKeeps DEF catalog, Phases, Writes
<1>6. CASE UNCHANGED leases /\ calls' = [calls EXCEPT ![c] = kept]
  <2>1. "retire" \in Phases
    BY DEF Phases
  <2>2. kept \in CallRecord
    BY <1>2, <2>1 DEF CallRecord
  <2>3. /\ kept.phase = "retire" /\ kept.checked /\ kept.note = 0
        /\ kept.retire = calls[c].retire
    BY <1>2 DEF CallRecord
  <2> HIDE DEF kept
  <2> QED
    BY <1>1, <1>2, <1>3, <1>6, <2>2, <2>3, PastCommitKeeps, SameLeases
    DEF Writes, CallSound
<1> QED
  BY <1>4, <1>5, <1>6 DEF Release
(***************************************************************************)
(* Files as sequences                                                      *)
(***************************************************************************)
\* A finite set becomes a sequence of its elements.
LEMMA SetSequence ==
    ASSUME NEW S, IsFiniteSet(S)
    PROVE  /\ SetToSeq(S) \in Seq(S)
           /\ S # {} => SetToSeq(S) # <<>>
<1> DEFINE n == Cardinality(S)
<1>1. n \in Nat /\ ExistsBijection(1..n, S)
  BY FS_CardinalityType
<1>2. PICK f \in Bijection(1..n, S) : TRUE
  BY <1>1 DEF ExistsBijection
<1>3. f \in [1..n -> S] /\ IsInjective(f)
  BY <1>2 DEF Bijection, Injection
<1>4. SetToSeq(S) \in [1..n -> S]
  BY <1>3 DEF SetToSeq
<1>5. SetToSeq(S) \in Seq(S) /\ Len(SetToSeq(S)) = n
  BY <1>1, <1>4
<1>6. S # {} => n # 0
  BY FS_EmptySet
<1> QED
  BY <1>5, <1>6

LEMMA HeldSequence ==
    ASSUME SqliteInv, NEW S, S \subseteq Held
    PROVE  /\ SetToSeq(S) \in Seq(S) /\ SetToSeq(S) \in Seq(Settled)
           /\ S # {} => SetToSeq(S) # <<>>
<1>1. Held \subseteq Settled /\ Settled \subseteq 1..created /\ created \in Nat
  BY DEF SqliteInv, SafeStays, Safe, Settled, TypeGood
<1>2. IsFiniteSet(1..created)
  BY <1>1, FS_Interval
<1>3. IsFiniteSet(S)
  BY <1>1, <1>2, FS_Subset
<1> QED
  BY <1>1, <1>3, SetSequence, SeqMonotonic

LEMMA IsHeld ==
    /\ \A f : f \in Held <=> f # 0 /\ \E r \in rows : f = r.payload \/ f = r.note
    /\ \A f : f \in Held' <=> f # 0 /\ \E r \in rows' : f = r.payload \/ f = r.note
BY DEF Held

\* The files of some rows.
LEMMA FilesHeld ==
    ASSUME SqliteInv, NEW set, set \subseteq rows
    PROVE  /\ {r.payload : r \in set} \ {0} \subseteq Held
           /\ {r.note : r \in set} \ {0} \subseteq Held
           /\ PayloadsOf(set) \in Seq(Settled) /\ NotesOf(set) \in Seq(Settled)
<1>1. /\ {r.payload : r \in set} \ {0} \subseteq Held
      /\ {r.note : r \in set} \ {0} \subseteq Held
  BY IsHeld
<1>2. ({r.payload : r \in set} \union {r.note : r \in set}) \ {0} \subseteq Held
  BY <1>1
<1> QED
  BY <1>1, <1>2, HeldSequence DEF PayloadsOf, NotesOf

(***************************************************************************)
(* Transactions                                                            *)
(***************************************************************************)
LEMMA RowsKeep ==
    ASSUME SqliteInv, NEW c \in Clients, OnlyCall(c), open,
           UNCHANGED <<objects, flushed, leases, open, created>>,
           TypeGood', PayloadsAlone', CallSound(c)',
           \/ Held' \subseteq Safe
           \/ /\ calls[c].phase = "commit" /\ ~Active(c)'
              /\ Held' \subseteq Safe \union {calls[c].file}
    PROVE  SqliteInv'
<1>1. Leased' = Leased /\ Outcomes(objects') = Outcomes(objects)
  BY DEF Leased
<1>2. Settled \subseteq Settled'
  BY SettledGrows
<1>3. CASE Held' \subseteq Safe
  <2>1. Safe' \subseteq Safe
    BY <1>1, <1>3 DEF Safe
  <2>2. SafeStays'
    BY <1>1, <1>2, <2>1 DEF SqliteInv, SafeStays
  <2>3. \A d \in Clients \ {c} : CallSound(d)'
    BY <1>1, <2>1, SamePresent, OthersKeep
  <2> QED
    BY <2>2, <2>3 DEF SqliteInv, ClosedQuiet
<1>4. CASE /\ calls[c].phase = "commit" /\ ~Active(c)'
           /\ Held' \subseteq Safe \union {calls[c].file}
  <2> DEFINE f == calls[c].file
  <2>1. Safe' \subseteq Safe \union {f}
    BY <1>1, <1>4 DEF Safe
  <2>2. Active(c) /\ FileSound(c) /\ f \notin Settled /\ f \in 1..created
    BY <1>4, OwnFile DEF Active, Writes, SqliteInv, CallSound
  <2>3. f \in flushed /\ \A o \in Outcomes(objects) : f \in o
    BY <1>4, <2>2 DEF FileSound
  <2>4. f \in Settled'
    <3>1. \A d \in Clients \ {c} : Active(d)' = Active(d) /\ calls'[d] = calls[d]
      BY DEF OnlyCall, Active
    <3> QED
      BY <1>4, <2>2, <3>1 DEF FileSound, Settled
  <2>5. SafeStays'
    BY <1>1, <1>2, <2>1, <2>3, <2>4 DEF SqliteInv, SafeStays
  <2>6. \A d \in Clients \ {c} : CallSound(d)'
    BY <1>1, <2>1, <2>2, SamePresent, OthersKeep
  <2> QED
    BY <2>5, <2>6 DEF SqliteInv, ClosedQuiet
<1> QED
  BY <1>3, <1>4

LEMMA CommittedCall ==
    ASSUME SqliteInv, NEW c \in Clients, NEW retired \in Seq(Settled),
           NEW checked \in BOOLEAN, Committed(c, retired, checked)
    PROVE  /\ calls' \in [Clients -> CallRecord]
           /\ \A d \in Clients \ {c} : calls'[d] = calls[d]
           /\ calls'[c].phase = "retire" /\ ~Active(c)'
           /\ calls'[c].retire = retired /\ calls'[c].checked = checked
           /\ calls'[c].note = calls[c].note
<1> DEFINE r == [calls[c] EXCEPT !.phase = "retire", !.retire = retired,
                                 !.checked = checked, !.committed = TRUE]
<1>1. calls[c] \in CallRecord /\ Settled \subseteq Nat
  BY DEF SqliteInv, TypeGood, Settled
<1>2. retired \in Seq(Nat) /\ "retire" \in Phases
  BY <1>1, SeqMonotonic DEF Phases
<1>3. r \in CallRecord
  BY <1>1, <1>2 DEF CallRecord
<1>4. /\ r.phase = "retire" /\ r.retire = retired /\ r.checked = checked
      /\ r.note = calls[c].note
  BY <1>1 DEF CallRecord
<1>5. calls' = [calls EXCEPT ![c] = r]
  BY DEF Committed
<1> HIDE DEF r
<1> QED
  BY <1>3, <1>4, <1>5, CallBecomes DEF Active, Writes

LEMMA CommitPutKeeps ==
    ASSUME SqliteInv, NEW c \in Clients, CommitPut(c)
    PROVE  SqliteInv'
<1> DEFINE f == calls[c].file
           note == PublishedNote(calls[c])
           new == Row(NewId, f, note)
<1>1. /\ calls[c].phase = "commit" /\ open
      /\ UNCHANGED <<objects, flushed, leases, open, created, status>>
      /\ rows' = (rows \ ReplacedRows) \union {new}
      /\ sequence' = sequence + 1
      /\ Committed(c, RetiredByPut, PreviousPayload = {})
  BY DEF CommitPut, In, files
<1>2. /\ f \in Nat /\ f \notin Safe /\ f \notin Settled
      /\ note \in Nat /\ note \in Leased \union {0}
  <2>1. Active(c) /\ CallSound(c) /\ calls[c] \in CallRecord
    BY <1>1 DEF Active, Writes, SqliteInv, TypeGood
  <2> QED
    BY <2>1, OwnFile DEF CallSound, CallRecord, PublishedNote
<1>3. ReplacedRows \subseteq rows
  BY DEF ReplacedRows, NullRows, SqliteInv, TypeGood, Statuses
<1>4. /\ new \in RowRecord /\ new.payload = f /\ new.note = note
  BY <1>2 DEF Row, RowRecord, NewId, NullVersion, SqliteInv, TypeGood
<1> HIDE DEF new
<1>5. /\ PreviousPayload \subseteq Held
      /\ SetToSeq(PreviousPayload) \in Seq(PreviousPayload)
      /\ SetToSeq(PreviousPayload) \in Seq(Settled)
      /\ PreviousPayload # {} => SetToSeq(PreviousPayload) # <<>>
      /\ NotesOf(ReplacedRows) \in Seq(Settled)
  BY <1>3, FilesHeld, HeldSequence DEF PreviousPayload
<1>6. RetiredByPut \in Seq(Settled)
  BY <1>5, ConcatProperties DEF RetiredByPut
<1>7. ASSUME PreviousPayload # {}
      PROVE  RetiredByPut # <<>> /\ Head(RetiredByPut) \in PreviousPayload
  <2> DEFINE s == SetToSeq(PreviousPayload)  t == NotesOf(ReplacedRows)
  <2>1. s \in Seq(PreviousPayload) /\ s \in Seq(Settled) /\ s # <<>> /\ t \in Seq(Settled)
    BY <1>5, <1>7
  <2> HIDE DEF s, t
  <2>2. s \o t # <<>> /\ Head(s \o t) = Head(s) /\ Head(s) \in PreviousPayload
    BY <2>1
  <2> QED
    BY <2>2 DEF RetiredByPut, s, t
<1>8. /\ calls' \in [Clients -> CallRecord] /\ ~Active(c)'
      /\ \A d \in Clients \ {c} : calls'[d] = calls[d]
      /\ calls'[c].phase = "retire" /\ calls'[c].note = calls[c].note
      /\ calls'[c].retire = RetiredByPut
      /\ calls'[c].checked = (PreviousPayload = {})
  BY <1>1, <1>6, CommittedCall
<1>9. OnlyCall(c)
  BY <1>1, <1>8 DEF OnlyCall
<1>10. TypeGood'
  BY <1>1, <1>4, <1>8 DEF SqliteInv, TypeGood
<1>11. Leased' = Leased
  BY <1>1 DEF Leased
<1>12. Held' \subseteq Held \union {f, note}
  BY <1>1, <1>4, IsHeld
<1>13. PayloadsAlone'
  <2>1. f \notin Leased /\ (f # 0 => f # note)
    BY <1>2 DEF Safe
  <2>2. ASSUME NEW r \in rows, r.payload # 0
        PROVE  r.payload # f /\ r.payload # note /\ r.payload \notin Leased
    <3>1. r.payload \in Held
      BY <2>2, IsHeld
    <3> QED
      BY <1>2, <2>2, <3>1 DEF SqliteInv, PayloadsAlone, Safe
  <2>3. ASSUME NEW r \in rows, f # 0 PROVE r.payload # f /\ r.note # f
    <3>1. f \notin Held
      BY <1>2 DEF Safe
    <3> QED
      BY <2>3, <3>1, IsHeld
  <2>4. \A s \in rows' : s \in rows \/ s = new
    BY <1>1
  <2>5. ASSUME NEW r \in rows', r.payload # 0
        PROVE  /\ r.payload \notin Leased'
               /\ \A s \in rows' : /\ s.note # r.payload
                                   /\ s.payload = r.payload => s = r
    <3>1. CASE r \in rows
      BY <1>4, <1>11, <2>2, <2>4, <2>5, <3>1 DEF SqliteInv, PayloadsAlone
    <3>2. CASE r = new
      BY <1>4, <1>11, <2>1, <2>3, <2>4, <2>5, <3>2
    <3> QED
      BY <2>4, <3>1, <3>2
  <2> QED
    BY <2>5 DEF PayloadsAlone
<1>14. ASSUME NEW p \in PreviousPayload PROVE p \notin Safe'
  <2>1. PICK r \in ReplacedRows : r.payload = p /\ p # 0
    BY <1>14 DEF PreviousPayload
  <2>2. p \in Held /\ p \in Settled
    BY <1>5, <1>14 DEF SqliteInv, SafeStays, Safe
  <2>3. p \notin Leased /\ \A s \in rows \ ReplacedRows : s.payload # p /\ s.note # p
    BY <1>3, <2>1 DEF SqliteInv, PayloadsAlone
  <2>4. p # f /\ p # note
    BY <1>2, <2>1, <2>2, <2>3
  <2>5. p \notin Held'
    BY <1>1, <1>4, <2>3, <2>4 DEF Held
  <2> QED
    BY <1>11, <2>3, <2>5 DEF Safe
<1>15. CallSound(c)'
  <2>1. RetiredByPut \in Seq(Settled')
    BY <1>6, <1>9, SettledGrows, SeqMonotonic
  <2>2. calls'[c].note # 0 => calls'[c].note \in Leased'
    BY <1>8, <1>11 DEF SqliteInv, CallSound
  <2> QED
    BY <1>7, <1>8, <1>14, <2>1, <2>2 DEF CallSound
<1>16. Held' \subseteq Safe \union {f}
  BY <1>2, <1>12, IsHeld DEF Safe
<1> QED
  BY <1>1, <1>8, <1>9, <1>10, <1>13, <1>15, <1>16, RowsKeep
LEMMA CommitAnnotationKeeps ==
    ASSUME SqliteInv, NEW c \in Clients, NEW selector, CommitAnnotation(c, selector)
    PROVE  SqliteInv'
<1> DEFINE f == calls[c].file
<1>1. /\ calls[c].phase = "commit" /\ open
      /\ UNCHANGED <<objects, flushed, leases, open, created, sequence, status>>
  BY DEF CommitAnnotation, In, files
<1>2. PICK r \in rows :
        /\ rows' = (rows \ {r}) \union {[r EXCEPT !.note = f]}
        /\ Committed(c, NotesOf({r}), TRUE)
  BY DEF CommitAnnotation, SelectedData, Selected, NewestRows
<1> DEFINE new == [r EXCEPT !.note = f]
<1>3. f \in Nat /\ f \notin Safe /\ f \notin Settled
  <2>1. Active(c) /\ calls[c] \in CallRecord
    BY <1>1 DEF Active, Writes, SqliteInv, TypeGood
  <2> QED
    BY <2>1, OwnFile DEF CallRecord
<1>4. new \in RowRecord /\ new.payload = r.payload /\ new.note = f
  BY <1>3 DEF RowRecord, SqliteInv, TypeGood
<1> HIDE DEF new
<1>5. NotesOf({r}) \in Seq(Settled)
  BY FilesHeld
<1>6. /\ calls' \in [Clients -> CallRecord] /\ ~Active(c)'
      /\ \A d \in Clients \ {c} : calls'[d] = calls[d]
      /\ calls'[c].phase = "retire" /\ calls'[c].note = calls[c].note
      /\ calls'[c].retire = NotesOf({r}) /\ calls'[c].checked
  BY <1>2, <1>5, CommittedCall
<1>7. OnlyCall(c) /\ Leased' = Leased
  BY <1>1, <1>6 DEF OnlyCall, Leased
<1>8. \A s \in rows' : s \in rows \ {r} \/ s = new
  BY <1>2 DEF new
<1>9. TypeGood'
  BY <1>1, <1>4, <1>6, <1>8 DEF SqliteInv, TypeGood
<1>10. Held' \subseteq Safe \union {f}
  BY <1>4, <1>8, IsHeld DEF Safe
<1>11. PayloadsAlone'
  <2>1. ASSUME NEW q \in rows, q.payload # 0
        PROVE  q.payload \notin Leased' /\ q.payload # f
    <3>1. q.payload \in Held
      BY <2>1, IsHeld
    <3> QED
      BY <1>3, <1>7, <2>1, <3>1 DEF SqliteInv, PayloadsAlone, Safe
  <2>2. ASSUME NEW q \in rows', q.payload # 0
        PROVE  /\ q.payload \notin Leased'
               /\ \A s \in rows' : /\ s.note # q.payload
                                   /\ s.payload = q.payload => s = q
    <3>1. PICK p \in rows : /\ p.payload = q.payload
                            /\ IF p = r THEN q = new ELSE q = p
      BY <1>4, <1>8, <2>2
    <3>2. \A s \in rows' : \E t \in rows : /\ t.payload = s.payload
                                          /\ IF t = r THEN s = new ELSE s = t
      BY <1>4, <1>8
    <3>3. \A t \in rows : /\ t.note # p.payload
                          /\ t.payload = p.payload => t = p
      BY <2>2, <3>1 DEF SqliteInv, PayloadsAlone
    <3> QED
      BY <1>4, <2>1, <2>2, <3>1, <3>2, <3>3
  <2> QED
    BY <2>2 DEF PayloadsAlone
<1>12. CallSound(c)'
  <2>1. NotesOf({r}) \in Seq(Settled')
    BY <1>5, <1>7, SettledGrows, SeqMonotonic
  <2> QED
    BY <1>6, <1>7, <2>1 DEF SqliteInv, CallSound
<1> QED
  BY <1>1, <1>6, <1>7, <1>9, <1>10, <1>11, <1>12, RowsKeep

\* A call that removes rows, or writes rows without files, and retires files.
LEMMA RemovalKeeps ==
    ASSUME SqliteInv, NEW c \in Clients, NEW call \in CallRecord, open,
           calls[c] = NoCall, calls' = [calls EXCEPT ![c] = call],
           call.phase = "retire", call.note = 0, call.checked,
           call.retire \in Seq(Settled), TypeGood',
           UNCHANGED <<objects, flushed, leases, open, created>>,
           \A r \in rows' :
              \/ r.payload = 0 /\ r.note = 0
              \/ \E q \in rows : r = q \/ r = [q EXCEPT !.note = 0],
           \A r, s \in rows' : r.payload # 0 /\ s.payload = r.payload => s = r
    PROVE  SqliteInv'
<1>1. /\ calls' \in [Clients -> CallRecord] /\ calls'[c] = call
      /\ \A d \in Clients \ {c} : calls'[d] = calls[d]
  BY CallBecomes
<1>2. OnlyCall(c) /\ Leased' = Leased
  BY <1>1 DEF OnlyCall, Active, Writes, Leased
<1>3. call.retire \in Seq(Settled')
  BY <1>2, SettledGrows, SeqMonotonic
<1>4. CallSound(c)'
  BY <1>1, <1>3 DEF CallSound, Active, Writes
<1>5. \A r \in rows' : \/ r.payload = 0 /\ r.note = 0
                       \/ \E q \in rows : /\ r.payload = q.payload
                                          /\ r.note = q.note \/ r.note = 0
  <2>1. ASSUME NEW q \in rows
        PROVE  LET r == [q EXCEPT !.note = 0]
               IN  r.payload = q.payload /\ r.note = 0
    BY DEF SqliteInv, TypeGood, RowRecord
  <2>2. ASSUME NEW r \in rows', NEW q \in rows, r = [q EXCEPT !.note = 0]
        PROVE  r.payload = q.payload /\ r.note = 0
    BY <2>1, <2>2
  <2>3. ASSUME NEW r \in rows', NEW q \in rows, r = q
        PROVE  r.payload = q.payload /\ r.note = q.note
    BY <2>3
  <2> QED
    BY <2>2, <2>3
<1>6. Held' \subseteq Safe
  BY <1>5, IsHeld DEF Safe
<1>7. PayloadsAlone'
  <2>1. ASSUME NEW r \in rows', r.payload # 0
        PROVE  r.payload \notin Leased' /\ \A s \in rows' : s.note # r.payload
    <3>1. PICK q \in rows : q.payload = r.payload
      BY <1>5, <2>1
    <3>2. q.payload \notin Leased /\ \A p \in rows : p.note # q.payload
      BY <2>1, <3>1 DEF SqliteInv, PayloadsAlone
    <3> QED
      BY <1>2, <1>5, <2>1, <3>1, <3>2
  <2> QED
    BY <2>1 DEF PayloadsAlone
<1> QED
  BY <1>2, <1>4, <1>6, <1>7, RowsKeep

LEMMA RemovingCall ==
    ASSUME SqliteInv, NEW retired \in Seq(Settled), NEW kind \in Kinds
    PROVE  LET call == [NoCall EXCEPT !.kind = kind, !.phase = "retire",
                          !.retire = retired, !.committed = TRUE]
           IN  /\ call \in CallRecord /\ call.phase = "retire"
               /\ call.note = 0 /\ call.checked /\ call.retire = retired
<1>1. Settled \subseteq Nat
  BY DEF Settled, SqliteInv, TypeGood
<1>2. retired \in Seq(Nat) /\ "retire" \in Phases
  BY <1>1, SeqMonotonic DEF Phases
<1> QED
  BY <1>2, NoCallIsRecord DEF CallRecord

LEMMA DeleteKeeps ==
    ASSUME SqliteInv, NEW c \in Clients, NEW kind, NEW selector,
           Delete(c, kind, selector)
    PROVE  SqliteInv'
<1> DEFINE marker == /\ selector = CurrentVersion
                     /\ status # "Unconfigured"
           removed == IF marker THEN ReplacedRows ELSE Selected(selector)
           new == [Row(NewId, 0, 0) EXCEPT !.marker = TRUE]
           call == [NoCall EXCEPT !.kind = kind, !.phase = "retire",
                      !.retire = PayloadsOf(removed), !.committed = TRUE]
<1>1. /\ open /\ calls[c] = NoCall
      /\ calls' = [calls EXCEPT ![c] = call]
      /\ UNCHANGED <<objects, flushed, leases, open, created, status>>
      /\ rows' = (rows \ removed) \union IF marker THEN {new} ELSE {}
      /\ sequence' = IF marker THEN sequence + 1 ELSE sequence
      /\ kind \in Kinds
  BY DEF Delete, Begin, files, Kinds, AllOperations
<1>2. removed \subseteq rows
  BY DEF Selected, NewestRows, ReplacedRows, NullRows, SqliteInv, TypeGood, Statuses
<1> HIDE DEF removed, marker
<1>3. PayloadsOf(removed) \in Seq(Settled)
  BY <1>2, FilesHeld
<1>4. /\ call \in CallRecord /\ call.phase = "retire" /\ call.note = 0
      /\ call.checked /\ call.retire = PayloadsOf(removed)
  BY <1>1, <1>3, RemovingCall
<1>5. new \in RowRecord /\ new.payload = 0 /\ new.note = 0
  <2>1. Row(NewId, 0, 0) \in RowRecord
    BY DEF Row, RowRecord, NewId, NullVersion, SqliteInv, TypeGood
  <2>2. Row(NewId, 0, 0).payload = 0 /\ Row(NewId, 0, 0).note = 0
    BY DEF Row
  <2> QED
    BY <2>1, <2>2 DEF RowRecord
<1> HIDE DEF new, call
<1>6. \A r \in rows' : r \in rows \/ r = new
  BY <1>1
<1>7. TypeGood'
  <2>1. sequence' \in Nat
    BY <1>1 DEF SqliteInv, TypeGood
  <2>2. calls' \in [Clients -> CallRecord]
    BY <1>1, <1>4, CallBecomes
  <2> QED
    BY <1>1, <1>5, <1>6, <2>1, <2>2 DEF SqliteInv, TypeGood
<1>8. \A r, s \in rows' : r.payload # 0 /\ s.payload = r.payload => s = r
  BY <1>5, <1>6 DEF SqliteInv, PayloadsAlone
<1> QED
  BY <1>1, <1>3, <1>4, <1>5, <1>6, <1>7, <1>8, RemovalKeeps

LEMMA UnannotateKeeps ==
    ASSUME SqliteInv, NEW c \in Clients, NEW selector, Unannotate(c, selector)
    PROVE  SqliteInv'
<1>1. PICK r \in rows :
        /\ rows' = (rows \ {r}) \union {[r EXCEPT !.note = 0]}
        /\ Begin(c, [NoCall EXCEPT !.kind = "unannotate", !.phase = "retire",
                       !.retire = NotesOf({r}), !.committed = TRUE])
  BY DEF Unannotate, SelectedData, Selected, NewestRows
<1> DEFINE new == [r EXCEPT !.note = 0]
           call == [NoCall EXCEPT !.kind = "unannotate", !.phase = "retire",
                      !.retire = NotesOf({r}), !.committed = TRUE]
<1>2. /\ open /\ calls[c] = NoCall
      /\ calls' = [calls EXCEPT ![c] = call]
      /\ UNCHANGED <<objects, flushed, leases, open, created, sequence, status>>
  BY <1>1 DEF Unannotate, Begin, files
<1>3. NotesOf({r}) \in Seq(Settled) /\ "unannotate" \in Kinds
  BY FilesHeld DEF Kinds, AllOperations
<1>4. /\ call \in CallRecord /\ call.phase = "retire" /\ call.note = 0
      /\ call.checked /\ call.retire = NotesOf({r})
  BY <1>3, RemovingCall
<1>5. new \in RowRecord /\ new.payload = r.payload
  BY DEF RowRecord, SqliteInv, TypeGood
<1> HIDE DEF call
<1>6. \A s \in rows' : s \in rows \ {r} \/ s = new
  BY <1>1
<1>7. TypeGood'
  <2>1. calls' \in [Clients -> CallRecord]
    BY <1>2, <1>4, CallBecomes
  <2> HIDE DEF new
  <2> QED
    BY <1>2, <1>5, <1>6, <2>1 DEF SqliteInv, TypeGood
<1>8. \A p, s \in rows' : p.payload # 0 /\ s.payload = p.payload => s = p
  <2> HIDE DEF new
  <2> QED
    BY <1>5, <1>6 DEF SqliteInv, PayloadsAlone
<1>9. \A s \in rows' : \E q \in rows : s = q \/ s = [q EXCEPT !.note = 0]
  BY <1>6
<1> QED
  BY <1>2, <1>3, <1>4, <1>7, <1>8, <1>9, RemovalKeeps
(***************************************************************************)
(* Calls that begin to write                                               *)
(***************************************************************************)
LEMMA BeginWritingKeeps ==
    ASSUME SqliteInv, NEW c \in Clients, NEW kind \in Kinds,
           NEW note \in Nat, note # 0 => \E q \in rows : q.note = note,
           BeginWriting(c, kind, note), open,
           UNCHANGED <<rows, sequence, status, objects, flushed, open>>,
           leases' \in [1..MaxFiles -> Nat], Leased' = Leased \union ({note} \ {0})
    PROVE  SqliteInv'
<1> DEFINE call == Writing(kind, note)
<1>1. /\ calls[c] = NoCall /\ created' = created + 1 /\ created < MaxFiles
      /\ calls' = [calls EXCEPT ![c] = call]
  BY DEF BeginWriting, Begin
<1>2. created \in Nat /\ created' \in 0..MaxFiles /\ created' \in Nat
  BY <1>1, SqliteAssumption DEF SqliteInv, TypeGood
<1>3. /\ call \in CallRecord /\ call.phase = "stage" /\ call.file = created'
      /\ call.note = note /\ call.checked /\ call.retire = <<>>
  <2>1. "stage" \in Phases
    BY DEF Phases, Writes
  <2> QED
    BY <1>1, <1>2, <2>1, NoCallIsRecord DEF Writing, CallRecord
<1> HIDE DEF call
<1>4. /\ calls' \in [Clients -> CallRecord] /\ calls'[c] = call
      /\ \A d \in Clients \ {c} : calls'[d] = calls[d]
  BY <1>1, <1>3, CallBecomes
<1>5. ~Active(c)
  BY <1>1, NoCallIsRecord DEF Active, Writes
<1>6. OnlyCall(c)
  BY <1>1, <1>3, <1>4, <1>5 DEF OnlyCall
<1>7. Held' = Held /\ Safe' = Safe /\ Leased \subseteq Leased'
  <2>1. Held' = Held /\ (note # 0 => note \in Held)
    BY IsHeld
  <2> QED
    BY <2>1 DEF Safe
<1>8. \A d \in Clients \ {c} : CallSound(d)'
  BY <1>6, <1>7, SamePresent, OthersKeep
<1>9. Settled \subseteq Settled'
  BY <1>6, SettledGrows
<1>10. CallSound(c)'
  <2>1. ASSUME NEW d \in Clients \ {c}, Active(d)'
        PROVE  calls'[d].file # calls'[c].file
    <3>1. calls[d].file \in 1..created
      BY <1>4, <2>1, OwnFile DEF Active
    <3> QED
      BY <1>1, <1>2, <1>3, <1>4, <3>1
  <2>2. FileSound(c)'
    BY <1>1, <1>2, <1>3, <1>4, <2>1 DEF FileSound
  <2>3. <<>> \in Seq(Settled')
    OBVIOUS
  <2>4. note # 0 => note \in Leased'
    OBVIOUS
  <2> QED
    BY <1>3, <1>4, <2>2, <2>3, <2>4 DEF CallSound
<1>11. SafeStays'
  BY <1>7, <1>9 DEF SqliteInv, SafeStays
<1>12. TypeGood'
  BY <1>2, <1>4 DEF SqliteInv, TypeGood
<1>13. PayloadsAlone'
  BY DEF SqliteInv, PayloadsAlone
<1> QED
  BY <1>8, <1>10, <1>11, <1>12, <1>13 DEF SqliteInv, ClosedQuiet

LEMMA BeginWriteKeeps ==
    ASSUME SqliteInv, NEW c \in Clients, NEW kind, BeginWrite(c, kind)
    PROVE  SqliteInv'
<1>1. /\ kind \in Kinds /\ BeginWriting(c, kind, 0) /\ open
      /\ UNCHANGED <<rows, sequence, status, objects, flushed, open, leases>>
  BY DEF BeginWrite, BeginWriting, Begin, catalog, files, Kinds, AllOperations
<1> QED
  BY <1>1, SameLeases, BeginWritingKeeps

\* The lease that a copy takes on the annotation of its source.
LEMMA LeaseTaken ==
    ASSUME SqliteInv, NEW r \in rows, Lease(r)
    PROVE  /\ leases' \in [1..MaxFiles -> Nat]
           /\ Leased' = Leased \union ({r.note} \ {0})
           /\ r.note \in Nat
           /\ r.note # 0 => r.note \in Held
<1>1. r.note \in Nat /\ (r.note # 0 => r.note \in Held)
  BY IsHeld DEF SqliteInv, TypeGood, RowRecord
<1>2. r.note # 0 => r.note \in 1..MaxFiles
  <2>1. r.note # 0 => r.note \in 1..created
    BY <1>1 DEF SqliteInv, SafeStays, Safe, Settled
  <2> QED
    BY <1>1, <2>1, SqliteAssumption DEF SqliteInv, TypeGood
<1>3. leases \in [1..MaxFiles -> Nat]
  BY DEF SqliteInv, TypeGood
<1>4. /\ leases' \in [1..MaxFiles -> Nat]
      /\ \A p \in 1..MaxFiles : leases'[p] > 0 <=> leases[p] > 0 \/ p = r.note
  BY <1>3 DEF Lease
<1> QED
  BY <1>1, <1>2, <1>4 DEF Leased

LEMMA BeginCopyKeeps ==
    ASSUME SqliteInv, NEW c \in Clients, NEW kind, NEW selector,
           BeginCopy(c, kind, selector)
    PROVE  SqliteInv'
<1>1. PICK r \in rows : BeginWriting(c, kind, r.note) /\ Lease(r)
  BY DEF BeginCopy, SelectedData, Selected, NewestRows
<1>2. /\ open /\ kind \in Kinds
      /\ UNCHANGED <<rows, sequence, status, objects, flushed, open>>
  BY <1>1 DEF BeginCopy, BeginWriting, Begin, files, Kinds, AllOperations
<1> QED
  BY <1>1, <1>2, LeaseTaken, BeginWritingKeeps

LEMMA RefuseCopyKeeps ==
    ASSUME SqliteInv, NEW c \in Clients, NEW selector, RefuseCopy(c, selector)
    PROVE  SqliteInv'
<1>1. PICK r \in rows :
        /\ Begin(c, [NoCall EXCEPT !.kind = "copy", !.phase = "retire",
                                   !.note = r.note, !.ok = FALSE])
        /\ Lease(r)
  BY DEF RefuseCopy, SelectedData, Selected, NewestRows
<1> DEFINE call == [NoCall EXCEPT !.kind = "copy", !.phase = "retire",
                                 !.note = r.note, !.ok = FALSE]
<1>2. /\ open /\ calls[c] = NoCall /\ calls' = [calls EXCEPT ![c] = call]
      /\ UNCHANGED <<rows, sequence, status, objects, flushed, created, open>>
  BY <1>1 DEF RefuseCopy, Begin, files
<1>3. /\ leases' \in [1..MaxFiles -> Nat] /\ r.note \in Nat
      /\ Leased' = Leased \union ({r.note} \ {0})
      /\ r.note # 0 => r.note \in Held
  BY <1>1, LeaseTaken
<1>4. /\ call \in CallRecord /\ call.phase = "retire" /\ call.note = r.note
      /\ call.checked /\ call.retire = <<>>
  <2>1. "copy" \in Kinds /\ "retire" \in Phases
    BY DEF Kinds, AllOperations, Phases
  <2> QED
    BY <1>3, <2>1, NoCallIsRecord DEF CallRecord
<1> HIDE DEF call
<1>5. /\ calls' \in [Clients -> CallRecord] /\ calls'[c] = call
      /\ \A d \in Clients \ {c} : calls'[d] = calls[d]
  BY <1>2, <1>4, CallBecomes
<1>6. OnlyCall(c) /\ ~Active(c)'
  BY <1>2, <1>4, <1>5 DEF OnlyCall, Active, Writes
<1>7. Held' = Held /\ Safe' = Safe /\ Leased \subseteq Leased'
  <2>1. Held' = Held
    BY <1>2 DEF Held
  <2> QED
    BY <1>3, <2>1 DEF Safe
<1>8. \A d \in Clients \ {c} : CallSound(d)'
  BY <1>2, <1>6, <1>7, SamePresent, OthersKeep
<1>9. Settled \subseteq Settled'
  BY <1>6, SettledGrows
<1>10. CallSound(c)'
  <2>1. <<>> \in Seq(Settled')
    OBVIOUS
  <2>2. call.note # 0 => call.note \in Leased'
    BY <1>3, <1>4
  <2> QED
    BY <1>4, <1>5, <1>6, <2>1, <2>2 DEF CallSound
<1>11. SafeStays'
  BY <1>2, <1>7, <1>9 DEF SqliteInv, SafeStays
<1>12. TypeGood'
  BY <1>2, <1>3, <1>5 DEF SqliteInv, TypeGood
<1>13. PayloadsAlone'
  <2>1. ASSUME NEW q \in rows, q.payload # 0 PROVE q.payload \notin Leased'
    <3>1. q.payload # r.note /\ q.payload \notin Leased
      BY <2>1 DEF SqliteInv, PayloadsAlone
    <3> QED
      BY <1>3, <3>1
  <2> QED
    BY <1>2, <2>1 DEF SqliteInv, PayloadsAlone
<1> QED
  BY <1>2, <1>8, <1>10, <1>11, <1>12, <1>13 DEF SqliteInv, ClosedQuiet

LEMMA PutStatusKeeps ==
    ASSUME SqliteInv, NEW new \in {"Enabled", "Suspended"}, PutStatus(new)
    PROVE  SqliteInv'
<1>1. /\ UNCHANGED <<rows, sequence, leases, objects, flushed, calls, created, open>>
      /\ status' \in Statuses
  BY DEF PutStatus, files, Statuses
<1>2. Held' = Held /\ Leased' = Leased /\ Safe' = Safe /\ Settled' = Settled
  BY <1>1 DEF Held, Leased, Safe, Settled, Active
<1>3. \A c \in Clients : CallSound(c)'
  BY <1>1, <1>2 DEF SqliteInv, CallSound, FileSound, Active
<1> QED
  BY <1>1, <1>2, <1>3
  DEF SqliteInv, TypeGood, SafeStays, PayloadsAlone, ClosedQuiet

(***************************************************************************)
(* Faults and the start                                                    *)
(***************************************************************************)
\* Without calls and leases, the files of the rows are what must stay.
LEMMA QuietKeeps ==
    ASSUME SqliteInv, \A c \in Clients : calls'[c] = NoCall,
           calls' \in [Clients -> CallRecord],
           leases' \in [1..MaxFiles -> Nat], Leased' = {},
           UNCHANGED <<rows, sequence, status, flushed, created>>,
           \A o \in Outcomes(objects') : Held \subseteq o /\ 0 \notin o
    PROVE  SqliteInv'
<1>1. Held' = Held /\ Safe' = Held
  BY DEF Held, Safe
<1>2. \A c \in Clients : ~Active(c)'
  BY NoCallIsRecord DEF Active, Writes
<1>3. Settled \subseteq Settled'
  BY <1>2 DEF Settled
<1>4. SafeStays'
  BY <1>1, <1>3 DEF SqliteInv, SafeStays, Safe
<1>5. \A c \in Clients : CallSound(c)'
  <2>1. <<>> \in Seq(Settled')
    OBVIOUS
  <2> QED
    BY <1>2, <2>1, NoCallIsRecord DEF CallSound
<1>6. TypeGood' /\ PayloadsAlone' /\ ClosedQuiet'
  BY DEF SqliteInv, TypeGood, PayloadsAlone, ClosedQuiet
<1> QED
  BY <1>4, <1>5, <1>6 DEF SqliteInv

LEMMA StoppedKeeps ==
    ASSUME SqliteInv, Crash \/ PowerLoss
    PROVE  SqliteInv'
<1>1. /\ calls' = [c \in Clients |-> NoCall] /\ leases' = [p \in 1..MaxFiles |-> 0]
      /\ UNCHANGED <<rows, sequence, status, flushed, created>>
  BY DEF Crash, PowerLoss, Stopped, files
<1>2. leases' \in [1..MaxFiles -> Nat] /\ Leased' = {}
  BY <1>1 DEF Leased
<1>3. Outcomes(objects') \subseteq Outcomes(objects)
  <2>1. CASE Crash
    BY <2>1 DEF Crash, files
  <2>2. CASE PowerLoss
    BY <2>2 DEF PowerLoss, Outcomes
  <2> QED
    BY <2>1, <2>2
<1>4. \A o \in Outcomes(objects') : Held \subseteq o /\ 0 \notin o
  BY <1>3 DEF SqliteInv, SafeStays, Safe
<1>5. calls' \in [Clients -> CallRecord] /\ \A c \in Clients : calls'[c] = NoCall
  BY <1>1, NoCallIsRecord
<1> QED
  BY <1>1, <1>2, <1>4, <1>5, QuietKeeps

LEMMA StartKeeps ==
    ASSUME SqliteInv, \/ \E f \in 1..MaxFiles : CleanStaging(f) \/ CleanObjects(f)
                      \/ Open
    PROVE  SqliteInv'
<1>1. ~open /\ UNCHANGED <<catalog, flushed, calls, created>>
  BY DEF CleanStaging, CleanObjects, Open
<1>2. /\ \A c \in Clients : calls'[c] = NoCall
      /\ calls' \in [Clients -> CallRecord] /\ Leased' = {}
      /\ leases' \in [1..MaxFiles -> Nat]
  <2>1. leases' \in [1..MaxFiles -> Nat] /\ Leased' = Leased
    BY <1>1, SameLeases DEF catalog
  <2> QED
    BY <1>1, <2>1 DEF SqliteInv, ClosedQuiet, TypeGood
<1>3. \A o \in Outcomes(objects) : Held \subseteq o /\ 0 \notin o
  BY DEF SqliteInv, SafeStays, Safe
<1>4. objects.now \in Outcomes(objects)
  BY SyncedDirectory
<1>5. \A o \in Outcomes(objects') : Held \subseteq o /\ 0 \notin o
  <2>1. CASE UNCHANGED objects
    BY <1>3, <2>1
  <2>2. CASE objects' = Synced(objects)
    BY <1>3, <2>2, SyncedDirectory
  <2>3. ASSUME NEW f \in 1..MaxFiles, ~Kept(f),
               objects' = Change(objects, objects.now \ {f})
        PROVE  \A o \in Outcomes(objects') : Held \subseteq o /\ 0 \notin o
    <3>1. f \notin Held
      BY <2>3 DEF Kept, Referenced, Held
    <3> QED
      BY <1>3, <1>4, <2>3, <3>1, ChangedDirectory
  <2> QED
    BY <2>1, <2>2, <2>3 DEF CleanStaging, CleanObjects, Open
<1> QED
  BY <1>1, <1>2, <1>5, QuietKeeps DEF catalog

(***************************************************************************)
(* The theorems                                                            *)
(***************************************************************************)
LEMMA InitInv == Init => SqliteInv
<1> SUFFICES ASSUME Init PROVE SqliteInv
  OBVIOUS
<1>1. Held = {} /\ Leased = {} /\ \A c \in Clients : calls[c] = NoCall
  BY DEF Init, Held, Leased
<1>2. \A c \in Clients : ~Active(c) /\ CallSound(c)
  <2>1. <<>> \in Seq(Settled)
    OBVIOUS
  <2> QED
    BY <1>1, <2>1, NoCallIsRecord DEF CallSound, Active, Writes
<1>3. TypeGood
  BY NoCallIsRecord, SqliteAssumption DEF Init, TypeGood, Statuses
<1>4. SafeStays
  BY <1>1 DEF Init, Outcomes, SafeStays, Safe
<1> QED
  BY <1>2, <1>3, <1>4 DEF SqliteInv, Init, PayloadsAlone, ClosedQuiet

LEMMA NextInv == SqliteInv /\ [Next]_vars => SqliteInv'
<1> SUFFICES ASSUME SqliteInv, [Next]_vars PROVE SqliteInv'
  OBVIOUS
<1>1. ASSUME NEW c \in Clients, Call(c) PROVE SqliteInv'
  BY <1>1, BeginWriteKeeps, BeginCopyKeeps, RefuseCopyKeeps, DeleteKeeps, UnannotateKeeps DEF Call
<1>2. ASSUME NEW c \in Clients, Step(c) PROVE SqliteInv'
  BY <1>2, StageKeeps, FlushKeeps, AbandonKeeps, RenameKeeps, SyncNameKeeps,
     CommitPutKeeps, RefuseKeeps, SyncRefusedKeeps, CommitAnnotationKeeps,
     RetireKeeps, ReleaseKeeps, ReturnKeeps DEF Step
<1>3. ASSUME NEW c \in Clients, Failure(c) PROVE SqliteInv'
  BY <1>3, SyncFailsKeeps, CommitFailsKeeps, CheckFailsKeeps DEF Failure
<1>4. ASSUME NEW new \in {"Enabled", "Suspended"}, PutStatus(new) PROVE SqliteInv'
  BY <1>4, PutStatusKeeps
<1>5. CASE Crash \/ PowerLoss
  BY <1>5, StoppedKeeps
<1>6. CASE \/ \E f \in 1..MaxFiles : CleanStaging(f) \/ CleanObjects(f)
           \/ Open
  BY <1>6, StartKeeps
<1>7. CASE UNCHANGED vars
  <2>1. UNCHANGED <<rows, sequence, status, leases, objects, flushed, calls,
                    created, open>>
    BY <1>7 DEF vars, catalog, files
  <2>2. Held' = Held /\ Leased' = Leased /\ Safe' = Safe /\ Settled' = Settled
    BY <2>1 DEF Held, Leased, Safe, Settled, Active
  <2>3. \A c \in Clients : CallSound(c)'
    BY <2>1, <2>2 DEF SqliteInv, CallSound, FileSound, Active
  <2> QED
    BY <2>1, <2>2, <2>3
    DEF SqliteInv, TypeGood, SafeStays, PayloadsAlone, ClosedQuiet
<1> QED
  BY <1>1, <1>2, <1>3, <1>4, <1>5, <1>6, <1>7 DEF Next

\* The inductive invariant holds in every reachable state.
THEOREM SqliteInvariant == Spec => []SqliteInv
<1> QED
  BY InitInv, NextInv, PTL DEF Spec

\* However many clients put, copy, annotate and delete the versions of a key,
\* and whatever crashes, power losses and errors come between their steps, each
\* file a committed row names is there and on the device, and a power loss
\* brings it back.
THEOREM RowsAreReadable == Spec => []RowsReadable
<1>1. SqliteInv => RowsReadable
  BY DEF SqliteInv, SafeStays, Safe, RowsReadable
<1> QED
  BY <1>1, SqliteInvariant, PTL

\* When Open is done, the directory holds the files of the rows and no other.
THEOREM StartsReclaim == Spec => StartReclaims
<1> DEFINE Done == objects'.now = Held' /\ staging' = {}
<1>1. ASSUME SqliteInv, [Next]_vars, ~open, open'
      PROVE  Done
  <2>1. CASE Open
    <3>1. /\ staging' = {} /\ objects'.now = objects.now /\ rows' = rows
          /\ \A f \in objects.now : Kept(f)
      BY <2>1, SyncedDirectory DEF Open, catalog
    <3>2. Leased = {} /\ Held \subseteq objects.now /\ 0 \notin objects.now
      BY <1>1, SyncedDirectory DEF SqliteInv, ClosedQuiet, SafeStays, Safe
    <3> QED
      BY <3>1, <3>2 DEF Kept, Referenced, Held
  <2>2. CASE ~Open
    <3>1. open' = open \/ ~open'
      BY <1>1, <2>2
      DEF Next, Call, Step, Failure, BeginWrite, BeginCopy, RefuseCopy, Delete,
          Unannotate,
          Stage, Flush, Abandon, Rename, SyncName, CommitPut, Refuse,
          SyncRefused, CommitAnnotation, Retire, SyncRetired, Release, Return,
          SyncFails, CommitFails, CheckFails, PutStatus, Crash, PowerLoss,
          Stopped, CleanStaging, CleanObjects, vars
    <3> QED
      BY <1>1, <3>1
  <2> QED
    BY <2>1, <2>2
<1>2. SqliteInv /\ [Next]_vars => [~open /\ open' => Done]_vars
  BY <1>1
<1> QED
  BY <1>2, SqliteInvariant, PTL DEF Spec, StartReclaims

(***************************************************************************)
(* Nothing leaks.  Each file of the directories is needed, or it is the    *)
(* work of a call that will publish it or unlink it.                       *)
(***************************************************************************)
\* The file is in staging/ and call c will rename or delete it.
Carries(c, f) == calls[c].phase \in {"flush", "rename"} /\ f = calls[c].file

\* The file has its name and call c will commit it or unlink it.
Accounts(c, f) ==
    \/ calls[c].phase \in {"sync", "commit"} /\ f = calls[c].file
    \/ f \in Range(calls[c].retire)

LeakFree ==
    faults = <<>> =>
        /\ open
        /\ \A f \in staging : \E c \in Clients : Carries(c, f)
        /\ \A f \in objects.now : f \in Safe \/ \E c \in Clients : Accounts(c, f)
        /\ \A c \in Clients : calls[c].phase = "again" => calls[c].retire = <<>>

LEMMA RangeOfSequence ==
    ASSUME NEW T, NEW s \in Seq(T), s # <<>>
    PROVE  \A f \in Range(s) : f = Head(s) \/ f \in Range(Tail(s))
<1>1. Len(s) \in Nat \ {0} /\ DOMAIN s = 1..Len(s) /\ Head(s) = s[1]
  OBVIOUS
<1>2. /\ DOMAIN Tail(s) = 1..(Len(s) - 1)
      /\ \A i \in 1..(Len(s) - 1) : Tail(s)[i] = s[i + 1]
  BY <1>1
<1>3. ASSUME NEW i \in 1..Len(s), i # 1 PROVE s[i] \in Range(Tail(s))
  <2>1. i - 1 \in 1..(Len(s) - 1) /\ Tail(s)[i - 1] = s[i]
    BY <1>1, <1>2, <1>3
  <2> QED
    BY <1>2, <2>1 DEF Range
<1> QED
  BY <1>1, <1>3 DEF Range

LEMMA RangeOfConcat ==
    ASSUME NEW T, NEW s \in Seq(T), NEW t \in Seq(T)
    PROVE  Range(s) \union Range(t) \subseteq Range(s \o t)
<1>1. /\ Len(s) \in Nat /\ Len(t) \in Nat
      /\ DOMAIN s = 1..Len(s) /\ DOMAIN t = 1..Len(t)
      /\ DOMAIN (s \o t) = 1..(Len(s) + Len(t))
  OBVIOUS
<1>2. ASSUME NEW i \in 1..Len(s) PROVE s[i] \in Range(s \o t)
  <2>1. i \in 1..(Len(s) + Len(t)) /\ (s \o t)[i] = s[i]
    BY <1>1
  <2> QED
    BY <1>1, <2>1 DEF Range
<1>3. ASSUME NEW i \in 1..Len(t) PROVE t[i] \in Range(s \o t)
  <2>1. Len(s) + i \in 1..(Len(s) + Len(t)) /\ (s \o t)[Len(s) + i] = t[i]
    BY <1>1
  <2> QED
    BY <1>1, <2>1 DEF Range
<1> QED
  BY <1>1, <1>2, <1>3 DEF Range

LEMMA RangeOfSet ==
    ASSUME NEW S, IsFiniteSet(S)
    PROVE  Range(SetToSeq(S)) = S
<1> DEFINE n == Cardinality(S)
           s == SetToSeq(S)
<1>1. n \in Nat /\ ExistsBijection(1..n, S)
  BY FS_CardinalityType
<1>2. PICK f \in Bijection(1..n, S) : TRUE
  BY <1>1 DEF ExistsBijection
<1>3. f \in [1..n -> S] /\ IsInjective(f)
  BY <1>2 DEF Bijection, Injection
<1>4. s \in Injection(1..n, S)
  BY <1>3 DEF SetToSeq, Injection
<1>5. Cardinality(1..n) = n
  BY <1>1, FS_Interval
<1>6. s \in Surjection(1..n, S)
  BY <1>4, <1>5, FS_Injection
<1> QED
  BY <1>6 DEF Surjection, Range

LEMMA RangeOfOne == \A f : Range(<<f>>) = {f}
<1> SUFFICES ASSUME NEW f PROVE Range(<<f>>) = {f}
  OBVIOUS
<1>1. DOMAIN <<f>> = {1} /\ <<f>>[1] = f
  OBVIOUS
<1> QED
  BY <1>1 DEF Range

LEMMA HeldRange ==
    ASSUME SqliteInv, NEW S, S \subseteq Held
    PROVE  Range(SetToSeq(S)) = S
<1>1. Held \subseteq Settled /\ Settled \subseteq 1..created /\ created \in Nat
  BY DEF SqliteInv, SafeStays, Safe, Settled, TypeGood
<1>2. IsFiniteSet(1..created)
  BY <1>1, FS_Interval
<1>3. IsFiniteSet(S)
  BY <1>1, <1>2, FS_Subset
<1> QED
  BY <1>3, RangeOfSet

\* What a transaction takes from some rows is in the sequence it retires.
LEMMA RetiredRange ==
    ASSUME SqliteInv, NEW set, set \subseteq rows
    PROVE  /\ Range(PayloadsOf(set)) =
                ({r.payload : r \in set} \union {r.note : r \in set}) \ {0}
           /\ Range(NotesOf(set)) = {r.note : r \in set} \ {0}
<1>1. /\ {r.payload : r \in set} \ {0} \subseteq Held
      /\ {r.note : r \in set} \ {0} \subseteq Held
  BY IsHeld
<1>2. ({r.payload : r \in set} \union {r.note : r \in set}) \ {0} \subseteq Held
  BY <1>1
<1> QED
  BY <1>1, <1>2, HeldRange DEF PayloadsOf, NotesOf

\* A step of call c leaves nothing behind if what it adds is its own work and
\* what it stops working on is gone or needed.
Accounted(c) ==
    /\ faults = <<>> /\ open'
    /\ \A f \in staging' : \/ Carries(c, f)'
                           \/ f \in staging /\ ~Carries(c, f)
    /\ \A f \in objects'.now :
        \/ f \in Safe' \/ Accounts(c, f)'
        \/ f \in objects.now /\ f \notin Safe /\ ~Accounts(c, f)
    /\ calls'[c].phase = "again" => calls'[c].retire = <<>>

LEMMA AccountedKeeps ==
    ASSUME LeakFree, NEW c \in Clients,
           \A d \in Clients \ {c} : calls'[d] = calls[d],
           faults' = <<>> => Accounted(c)
    PROVE  LeakFree'
<1> SUFFICES ASSUME faults' = <<>>
             PROVE  /\ open'
                    /\ \A f \in staging' : \E d \in Clients : Carries(d, f)'
                    /\ \A f \in objects'.now :
                          f \in Safe' \/ \E d \in Clients : Accounts(d, f)'
                    /\ \A d \in Clients :
                          calls'[d].phase = "again" => calls'[d].retire = <<>>
  BY DEF LeakFree
<1>1. Accounted(c) /\ faults = <<>>
  BY DEF Accounted
<1>2. \A d \in Clients \ {c} : \A f : /\ Carries(d, f)' <=> Carries(d, f)
                                     /\ Accounts(d, f)' <=> Accounts(d, f)
  BY DEF Carries, Accounts
<1>3. ASSUME NEW f \in staging' PROVE \E d \in Clients : Carries(d, f)'
  <2>1. CASE f \in staging /\ ~Carries(c, f)
    <3>1. PICK d \in Clients : Carries(d, f)
      BY <1>1, <2>1 DEF LeakFree
    <3>2. calls'[d] = calls[d]
      BY <2>1, <3>1 DEF Carries
    <3> QED
      BY <3>1, <3>2 DEF Carries
  <2> QED
    BY <1>1, <1>3, <2>1 DEF Accounted
<1>4. ASSUME NEW f \in objects'.now
      PROVE  f \in Safe' \/ \E d \in Clients : Accounts(d, f)'
  <2>1. CASE f \in Safe' \/ Accounts(c, f)'
    BY <2>1
  <2>2. CASE f \in objects.now /\ f \notin Safe /\ ~Accounts(c, f)
    <3>1. PICK d \in Clients : Accounts(d, f)
      BY <1>1, <2>2 DEF LeakFree
    <3> QED
      BY <1>2, <2>2, <3>1
  <2> QED
    BY <1>1, <1>4, <2>1, <2>2 DEF Accounted
<1>5. \A d \in Clients : calls'[d].phase = "again" => calls'[d].retire = <<>>
  BY <1>1 DEF Accounted, LeakFree
<1> QED
  BY <1>1, <1>3, <1>4, <1>5 DEF Accounted

LEMMA SameSafe ==
    ASSUME UNCHANGED <<rows, leases>>
    PROVE  Held' = Held /\ Leased' = Leased /\ Safe' = Safe
BY DEF Held, Leased, Safe

\* A call that only goes on to another phase.
LEMMA MovedLeakFree ==
    ASSUME LeakFree, NEW c \in Clients, NEW phase, Moved(c, phase),
           open, UNCHANGED <<rows, leases, open, faults>>,
           \A f \in staging' :
              \/ f = calls[c].file /\ phase \in {"flush", "rename"}
              \/ f \in staging /\ ~Carries(c, f),
           \A f \in objects'.now :
              \/ f = calls[c].file /\ phase \in {"sync", "commit"}
              \/ /\ f \in objects.now
                 /\ calls[c].phase \in {"sync", "commit"} => f # calls[c].file,
           phase = "again" => calls[c].retire = <<>>
    PROVE  LeakFree'
<1> SUFFICES ASSUME faults' = <<>> PROVE Accounted(c)
  BY AccountedKeeps DEF Moved
<1>1. Safe' = Safe
  BY SameSafe
<1>2. ASSUME NEW f \in staging'
      PROVE  \/ Carries(c, f)'
             \/ f \in staging /\ ~Carries(c, f)
  <2>1. CASE f = calls[c].file /\ phase \in {"flush", "rename"}
    BY <2>1 DEF Moved, Carries
  <2> QED
    BY <1>2, <2>1
<1>3. ASSUME NEW f \in objects'.now
      PROVE  \/ f \in Safe' \/ Accounts(c, f)'
             \/ f \in objects.now /\ f \notin Safe /\ ~Accounts(c, f)
  BY <1>1, <1>3 DEF Moved, Accounts
<1> QED
  BY <1>2, <1>3 DEF Accounted, Moved

LEMMA WriteLeakFree ==
    ASSUME SqliteInv, LeakFree, NEW c \in Clients,
           \/ Stage(c) \/ Flush(c) \/ Abandon(c) \/ Rename(c) \/ SyncName(c)
           \/ Refuse(c) \/ SyncRefused(c) \/ SyncRetired(c)
    PROVE  LeakFree'
<1>1. \A d : Change(objects, d).now = d
  BY ChangedDirectory
<1>2. Synced(objects).now = objects.now
  BY SyncedDirectory
<1>3. CASE Stage(c)
  <2>1. Moved(c, "flush")
    BY <1>3, GotoMoves DEF Stage, Phases, Writes
  <2> QED
    BY <1>3, <2>1, MovedLeakFree DEF Stage, In, catalog, Carries
<1>4. CASE Flush(c)
  <2>1. Moved(c, "rename")
    BY <1>4, GotoMoves DEF Flush, Phases, Writes
  <2> QED
    BY <1>4, <2>1, MovedLeakFree DEF Flush, In, catalog, Carries
<1>5. CASE Abandon(c)
  <2>1. Moved(c, "retire")
    BY <1>5, FailMoves DEF Abandon, Phases
  <2> QED
    BY <1>5, <2>1, MovedLeakFree DEF Abandon, In, catalog, Carries
<1>6. CASE Rename(c)
  <2>1. Moved(c, "sync")
    BY <1>6, GotoMoves DEF Rename, Phases, Writes
  <2> QED
    BY <1>1, <1>6, <2>1, MovedLeakFree DEF Rename, In, catalog, Carries
<1>7. CASE SyncName(c)
  <2>1. Moved(c, "commit")
    BY <1>7, GotoMoves DEF SyncName, Phases, Writes
  <2> QED
    BY <1>2, <1>7, <2>1, MovedLeakFree DEF SyncName, In, catalog, Carries
<1>8. CASE Refuse(c)
  <2>1. Moved(c, "refused")
    BY <1>8, FailMoves DEF Refuse, Phases
  <2> QED
    BY <1>1, <1>8, <2>1, MovedLeakFree DEF Refuse, In, catalog, Carries
<1>9. CASE SyncRefused(c) \/ SyncRetired(c)
  <2>1. Goto(c, "retire") /\ open /\ objects' = Synced(objects)
        /\ calls[c].phase \in {"refused", "settle", "forgiven"}
        /\ UNCHANGED <<catalog, staging, open, faults>>
    BY <1>9 DEF SyncRefused, SyncRetired, In
  <2>2. Moved(c, "retire")
    BY <2>1, GotoMoves DEF Phases
  <2> QED
    BY <1>2, <2>1, <2>2, MovedLeakFree DEF catalog, Carries
<1> QED
  BY <1>3, <1>4, <1>5, <1>6, <1>7, <1>8, <1>9

LEMMA FaultLeakFree ==
    ASSUME faults \in Seq(FaultKinds), NEW kind \in FaultKinds, Fault(kind)
    PROVE  LeakFree'
<1>1. Append(faults, kind) # <<>>
  BY AppendProperties
<1> QED
  BY <1>1 DEF Fault, LeakFree

LEMMA FaultsTyped ==
    ASSUME faults \in Seq(FaultKinds), [Next]_vars
    PROVE  faults' \in Seq(FaultKinds)
<1>1. ASSUME NEW c \in Clients, Call(c) PROVE UNCHANGED faults
  <2>1. ASSUME NEW selector \in Selectors, NEW kind, Delete(c, kind, selector)
        PROVE  UNCHANGED faults
    BY <2>1 DEF Delete
  <2>2. ASSUME NEW kind, BeginWrite(c, kind) PROVE UNCHANGED faults
    BY <2>2 DEF BeginWrite
  <2>3. ASSUME NEW selector, NEW kind,
               BeginCopy(c, kind, selector) \/ RefuseCopy(c, selector)
        PROVE  UNCHANGED faults
    BY <2>3 DEF BeginCopy, RefuseCopy
  <2>4. ASSUME NEW selector, Unannotate(c, selector) PROVE UNCHANGED faults
    BY <2>4, Zenon DEF Unannotate
  <2> QED
    BY <1>1, <2>1, <2>2, <2>3, <2>4 DEF Call
<1>2. ASSUME NEW c \in Clients, Step(c)
      PROVE  UNCHANGED faults \/ Fault("busy")
  BY <1>2 DEF Step, Stage, Flush, Abandon, Rename, SyncName, CommitPut, Refuse,
              SyncRefused, CommitAnnotation, Retire, SyncRetired, Release, Return
<1>3. ASSUME NEW c \in Clients, Failure(c)
      PROVE  Fault("device") \/ Fault("catalog")
  BY <1>3 DEF Failure, SyncFails, CommitFails, CheckFails
<1>4. \/ UNCHANGED faults
      \/ \E kind \in FaultKinds : Fault(kind)
  BY <1>1, <1>2, <1>3 DEF Next, PutStatus, Crash, PowerLoss, CleanStaging,
     CleanObjects, Open, vars, FaultKinds
<1> QED
  BY <1>4 DEF Fault

\* The next retired file is unlinked, or it is needed.
LEMMA RetireLeakFree ==
    ASSUME SqliteInv, LeakFree, faults \in Seq(FaultKinds), NEW c \in Clients,
           Retire(c)
    PROVE  LeakFree'
<1> DEFINE p == Head(calls[c].retire)
           phase == AfterUnlink(calls[c])
           r == [calls[c] EXCEPT !.phase = phase, !.checked = TRUE,
                                 !.retire = Tail(@)]
<1>1. /\ open /\ open' /\ calls[c].phase = "retire" /\ calls[c].retire # <<>>
      /\ calls' = [calls EXCEPT ![c] = r]
      /\ UNCHANGED <<rows, leases, staging>>
  BY DEF Retire, In, catalog
<1>2. /\ calls[c] \in CallRecord /\ p \in Settled /\ 0 \notin Settled
      /\ calls[c].retire \in Seq(Nat)
  <2>1. calls[c] \in CallRecord /\ created \in Nat
    BY DEF SqliteInv, TypeGood
  <2>2. calls[c].retire \in Seq(Nat)
    BY <2>1 DEF CallRecord
  <2>3. p \in Settled
    BY <1>1, NextRetired
  <2> HIDE DEF p
  <2> QED
    BY <2>1, <2>2, <2>3 DEF Settled
<1>3. phase \notin Writes \union {"again"}
  BY DEF AfterUnlink, Writes
<1> HIDE DEF phase
<1>4. /\ r.phase = phase /\ r.retire = Tail(calls[c].retire)
      /\ calls'[c] = r
      /\ \A d \in Clients \ {c} : calls'[d] = calls[d]
  BY <1>1, <1>2 DEF CallRecord, SqliteInv, TypeGood
<1>5. CASE \E kind \in FaultKinds : Fault(kind)
  BY <1>5, FaultLeakFree
<1>6. CASE /\ UNCHANGED faults
           /\ objects' = IF calls[c].checked /\ Referenced(p) THEN objects
                         ELSE Change(objects, objects.now \ {p})
  <2>1. Safe' = Safe
    BY <1>1, SameSafe
  <2>2. p \in objects'.now => p \in Safe'
    <3>1. Change(objects, objects.now \ {p}).now = objects.now \ {p}
      BY ChangedDirectory
    <3>2. Referenced(p) => p \in Safe
      BY <1>2 DEF Referenced, Safe, Held
    <3> HIDE DEF p
    <3> QED
      BY <1>6, <2>1, <3>1, <3>2
  <2>3. objects'.now \subseteq objects.now
    <3>1. Change(objects, objects.now \ {p}).now = objects.now \ {p}
      BY ChangedDirectory
    <3> HIDE DEF p
    <3> QED
      BY <1>6, <3>1
  <2>4. ASSUME NEW f \in objects'.now
        PROVE  \/ f \in Safe' \/ Accounts(c, f)'
               \/ f \in objects.now /\ f \notin Safe /\ ~Accounts(c, f)
    <3>1. ~Accounts(c, f) \/ f \in Range(calls[c].retire)
      BY <1>1 DEF Accounts
    <3>2. f \in Range(calls[c].retire) => f = p \/ f \in Range(Tail(calls[c].retire))
      BY <1>1, <1>2, RangeOfSequence
    <3>3. f \in Range(Tail(calls[c].retire)) => Accounts(c, f)'
      BY <1>4 DEF Accounts
    <3> HIDE DEF p
    <3> QED
      BY <2>1, <2>2, <2>3, <2>4, <3>1, <3>2, <3>3
  <2>5. \A f \in staging : ~Carries(c, f)
    BY <1>1 DEF Carries
  <2> HIDE DEF p, r
  <2>6. faults' = <<>> => Accounted(c)
    BY <1>1, <1>3, <1>4, <1>6, <2>4, <2>5 DEF Accounted
  <2> QED
    BY <1>4, <2>6, AccountedKeeps
<1> QED
  BY <1>5, <1>6 DEF Retire, FaultKinds

\* A step of call c that leaves the directories alone.
LEMMA SameFilesLeakFree ==
    ASSUME LeakFree, NEW c \in Clients,
           \A d \in Clients \ {c} : calls'[d] = calls[d],
           open', UNCHANGED <<objects, staging, faults>>,
           \A f : ~Carries(c, f),
           \A f : f \in Safe \/ Accounts(c, f) => f \in Safe' \/ Accounts(c, f)',
           calls'[c].phase = "again" => calls'[c].retire = <<>>
    PROVE  LeakFree'
<1>1. \A f \in objects'.now :
        \/ f \in Safe' \/ Accounts(c, f)'
        \/ f \in objects.now /\ f \notin Safe /\ ~Accounts(c, f)
  OBVIOUS
<1>2. faults' = <<>> => Accounted(c)
  BY <1>1 DEF Accounted
<1> QED
  BY <1>2, AccountedKeeps

LEMMA NoWork ==
    ASSUME NEW c \in Clients, calls[c].phase \notin Writes, calls[c].retire = <<>>
    PROVE  \A f : ~Carries(c, f) /\ ~Accounts(c, f)
<1>1. Range(<<>>) = {}
  BY DEF Range
<1> QED
  BY <1>1 DEF Carries, Accounts, Writes

LEMMA ReleaseLeakFree ==
    ASSUME SqliteInv, LeakFree, NEW c \in Clients, Release(c) \/ Return(c)
    PROVE  LeakFree'
<1>1. /\ open /\ open' /\ UNCHANGED <<rows, objects, staging, faults>>
      /\ \/ calls[c].phase = "retire" /\ calls[c].retire = <<>>
         \/ calls[c].phase = "again"
  <2>1. ASSUME Release(c) PROVE <1>1!:
    BY <2>1 DEF Release, Retired, In, files
  <2>2. ASSUME Return(c) PROVE <1>1!:
    BY <2>2 DEF Return, Retired, In, catalog, files
  <2> QED
    BY <2>1, <2>2
<1>2. calls \in [Clients -> CallRecord]
  BY DEF SqliteInv, TypeGood
<1>3. \A d \in Clients \ {c} : calls'[d] = calls[d]
  BY <1>2 DEF Release, Return, Fail
<1>4. Safe \subseteq Safe'
  <2>1. leases' = leases \/ \E p : /\ leases' = [leases EXCEPT ![p] = @ - 1]
                                  /\ leases[p] > 1
    BY DEF Release, Return, catalog
  <2>2. leases \in [1..MaxFiles -> Nat]
    BY DEF SqliteInv, TypeGood
  <2>3. ASSUME NEW q \in 1..MaxFiles, leases[q] > 0 PROVE leases'[q] > 0
    <3>1. CASE leases' = leases
      BY <2>3, <3>1
    <3>2. ASSUME NEW p, leases' = [leases EXCEPT ![p] = @ - 1], leases[p] > 1
          PROVE  leases'[q] > 0
      <4>1. leases[q] \in Nat
        BY <2>2
      <4>2. CASE p = q
        BY <2>2, <3>2, <4>1, <4>2
      <4>3. CASE p # q
        BY <2>2, <2>3, <3>2, <4>3
      <4> QED
        BY <4>2, <4>3
    <3> QED
      BY <2>1, <3>1, <3>2
  <2>4. Leased \subseteq Leased'
    BY <2>3 DEF Leased
  <2> QED
    BY <1>1, <2>4 DEF Safe, Held
<1>5. CASE faults = <<>>
  <2>1. calls[c].retire = <<>>
    BY <1>1, <1>5 DEF LeakFree
  <2>2. \A f : ~Carries(c, f) /\ ~Accounts(c, f)
    BY <1>1, <2>1, NoWork DEF Writes
  <2>3. calls'[c].phase = "again" => calls'[c].retire = <<>>
    <3>1. Return(c) => calls'[c].phase = "idle"
      BY <1>2, NoCallIsRecord DEF Return
    <3>2. ASSUME Fail(c, "again") PROVE calls'[c].retire = <<>>
      BY <2>1, <3>2, FailMoves DEF Moved, Phases
    <3>3. ASSUME Release(c), ~Fail(c, "again") PROVE calls'[c].phase = "retire"
      BY <1>2, <3>3, SMTT(20) DEF Release, CallRecord
    <3> QED
      BY <3>1, <3>2, <3>3
  <2> QED
    BY <1>1, <1>3, <1>4, <2>2, <2>3, SameFilesLeakFree
<1>6. CASE faults # <<>>
  BY <1>1, <1>6 DEF LeakFree
<1> QED
  BY <1>5, <1>6

LEMMA BeginLeakFree ==
    ASSUME SqliteInv, LeakFree, NEW c \in Clients,
           \/ \E kind : BeginWrite(c, kind)
           \/ \E selector :
                 (\E kind : BeginCopy(c, kind, selector)) \/ RefuseCopy(c, selector)
    PROVE  LeakFree'
<1> DEFINE Starts(call) == call.phase \in {"stage", "retire"} /\ Begin(c, call)
<1>1. /\ open' /\ UNCHANGED <<rows, objects, staging, faults>>
      /\ \E call : Starts(call)
      /\ Leased \subseteq Leased'
  <2>1. ASSUME NEW kind, NEW note, BeginWriting(c, kind, note)
        PROVE  \E call : Starts(call)
    <3>1. Starts(Writing(kind, note))
      BY <2>1 DEF BeginWriting, Writing, NoCall
    <3> HIDE DEF Starts
    <3> QED
      BY <3>1
  <2>2. ASSUME NEW kind, BeginWrite(c, kind)
        PROVE  <1>1!:
    <3>1. /\ open' /\ UNCHANGED <<rows, objects, staging, faults, leases>>
          /\ BeginWriting(c, kind, 0)
      BY <2>2 DEF BeginWrite, BeginWriting, Begin, catalog, files
    <3> HIDE DEF Starts
    <3> QED
      BY <2>1, <3>1, SameLeases
  <2>3. ASSUME NEW selector, NEW kind,
               BeginCopy(c, kind, selector) \/ RefuseCopy(c, selector)
        PROVE  <1>1!:
    <3>1. PICK r \in rows :
            /\ Lease(r)
            /\ \/ BeginWriting(c, kind, r.note)
               \/ Begin(c, [NoCall EXCEPT !.kind = "copy", !.phase = "retire",
                                          !.note = r.note, !.ok = FALSE])
      BY <2>3 DEF BeginCopy, RefuseCopy, SelectedData, Selected, NewestRows
    <3>2. \E call : Starts(call)
      <4> DEFINE refused == [NoCall EXCEPT !.kind = "copy", !.phase = "retire",
                                          !.note = r.note, !.ok = FALSE]
      <4>1. BeginWriting(c, kind, r.note) \/ Starts(refused)
        BY <3>1 DEF NoCall
      <4> HIDE DEF Starts, refused
      <4> QED
        BY <2>1, <4>1
    <3>3. UNCHANGED <<rows, files, open, faults>>
      BY <2>3 DEF BeginCopy, RefuseCopy
    <3>4. open' /\ UNCHANGED <<rows, objects, staging, faults>>
      BY <3>1, <3>3 DEF BeginWriting, Begin, files
    <3> HIDE DEF Starts
    <3> QED
      BY <3>1, <3>2, <3>4, LeaseTaken
  <2> QED
    BY <2>2, <2>3
<1>2. PICK call : Starts(call)
  BY <1>1
<1>3. /\ calls[c] = NoCall /\ calls' = [calls EXCEPT ![c] = call]
      /\ calls \in [Clients -> CallRecord]
  BY <1>2 DEF Begin, SqliteInv, TypeGood
<1>5. \A f : ~Carries(c, f) /\ ~Accounts(c, f)
  BY <1>3, NoCallIsRecord, NoWork DEF Writes
<1>6. Safe \subseteq Safe'
  BY <1>1 DEF Safe, Held
<1>7. /\ calls'[c].phase # "again"
      /\ \A d \in Clients \ {c} : calls'[d] = calls[d]
  BY <1>2, <1>3
<1> QED
  BY <1>1, <1>5, <1>6, <1>7, SameFilesLeakFree

\* A file that a transaction takes from the rows is one it retires.
LEMMA PutLeakFree ==
    ASSUME SqliteInv, LeakFree, NEW c \in Clients, CommitPut(c)
    PROVE  LeakFree'
<1> DEFINE f == calls[c].file
           new == Row(NewId, f, PublishedNote(calls[c]))
<1>1. /\ calls[c].phase = "commit" /\ open'
      /\ UNCHANGED <<objects, staging, leases, faults>>
      /\ rows' = (rows \ ReplacedRows) \union {new}
      /\ Committed(c, RetiredByPut, PreviousPayload = {})
  BY DEF CommitPut, In, files
<1>2. f # 0 /\ calls[c].retire = <<>>
  <2>1. Active(c) /\ created \in Nat
    BY <1>1 DEF Active, Writes, SqliteInv, TypeGood
  <2> QED
    BY <2>1, OwnFile
<1>3. ReplacedRows \subseteq rows
  BY DEF ReplacedRows, NullRows, SqliteInv, TypeGood, Statuses
<1>4. /\ PreviousPayload \subseteq Held
      /\ SetToSeq(PreviousPayload) \in Seq(Settled)
      /\ NotesOf(ReplacedRows) \in Seq(Settled)
  BY <1>3, FilesHeld, HeldSequence DEF PreviousPayload
<1>5. /\ RetiredByPut \in Seq(Settled)
      /\ PreviousPayload \union ({r.note : r \in ReplacedRows} \ {0})
            \subseteq Range(RetiredByPut)
  BY <1>3, <1>4, HeldRange, RetiredRange, ConcatProperties, RangeOfConcat
  DEF RetiredByPut
<1>6. /\ \A d \in Clients \ {c} : calls'[d] = calls[d]
      /\ calls'[c].phase = "retire" /\ calls'[c].retire = RetiredByPut
  BY <1>1, <1>5, CommittedCall
<1>7. f \in Held'
  <2>1. new.payload = f
    BY DEF Row
  <2> HIDE DEF new
  <2> QED
    BY <1>1, <1>2, <2>1, IsHeld
<1> HIDE DEF new
<1>8. ASSUME NEW g \in Held PROVE g \in Held' \/ g \in Range(RetiredByPut)
  <2>1. PICK r \in rows : g # 0 /\ (g = r.payload \/ g = r.note)
    BY <1>8, IsHeld
  <2>2. CASE r \in ReplacedRows
    BY <1>5, <2>1, <2>2 DEF PreviousPayload
  <2>3. CASE r \notin ReplacedRows
    BY <1>1, <2>1, <2>3, IsHeld
  <2> QED
    BY <2>2, <2>3
<1>9. Leased' = Leased
  BY <1>1 DEF Leased
<1>10. \A g : Accounts(c, g) => g = f
  <2>1. Range(<<>>) = {}
    BY DEF Range
  <2> QED
    BY <1>2, <2>1 DEF Accounts
<1>11. \A g : g \in Safe \/ Accounts(c, g) => g \in Safe' \/ Accounts(c, g)'
  BY <1>6, <1>7, <1>8, <1>9, <1>10 DEF Safe, Accounts
<1>12. \A g : ~Carries(c, g)
  BY <1>1 DEF Carries
<1> QED
  BY <1>1, <1>6, <1>11, <1>12, SameFilesLeakFree

LEMMA AnnotationLeakFree ==
    ASSUME SqliteInv, LeakFree, NEW c \in Clients, NEW selector,
           CommitAnnotation(c, selector)
    PROVE  LeakFree'
<1> DEFINE f == calls[c].file
<1>1. /\ calls[c].phase = "commit" /\ open'
      /\ UNCHANGED <<objects, staging, leases, faults>>
  BY DEF CommitAnnotation, In, files
<1>2. PICK r \in rows :
        /\ rows' = (rows \ {r}) \union {[r EXCEPT !.note = f]}
        /\ Committed(c, NotesOf({r}), TRUE)
  BY DEF CommitAnnotation, SelectedData, Selected, NewestRows
<1> DEFINE new == [r EXCEPT !.note = f]
<1>3. f # 0 /\ calls[c].retire = <<>>
  <2>1. Active(c) /\ created \in Nat
    BY <1>1 DEF Active, Writes, SqliteInv, TypeGood
  <2> QED
    BY <2>1, OwnFile
<1>4. new.payload = r.payload /\ new.note = f /\ new \in rows'
  BY <1>2 DEF RowRecord, SqliteInv, TypeGood
<1> HIDE DEF new
<1>5. NotesOf({r}) \in Seq(Settled) /\ Range(NotesOf({r})) = {r.note} \ {0}
  BY FilesHeld, RetiredRange
<1>6. /\ \A d \in Clients \ {c} : calls'[d] = calls[d]
      /\ calls'[c].phase = "retire" /\ calls'[c].retire = NotesOf({r})
  BY <1>2, <1>5, CommittedCall
<1>7. f \in Held'
  BY <1>3, <1>4, IsHeld
<1>8. ASSUME NEW g \in Held PROVE g \in Held' \/ g \in Range(NotesOf({r}))
  <2>1. PICK q \in rows : g # 0 /\ (g = q.payload \/ g = q.note)
    BY <1>8, IsHeld
  <2>2. CASE q = r
    BY <1>4, <1>5, <2>1, <2>2, IsHeld
  <2>3. CASE q # r
    BY <1>2, <2>1, <2>3, IsHeld
  <2> QED
    BY <2>2, <2>3
<1>9. Leased' = Leased
  BY <1>1 DEF Leased
<1>10. \A g : Accounts(c, g) => g = f
  <2>1. Range(<<>>) = {}
    BY DEF Range
  <2> QED
    BY <1>3, <2>1 DEF Accounts
<1>11. \A g : g \in Safe \/ Accounts(c, g) => g \in Safe' \/ Accounts(c, g)'
  BY <1>6, <1>7, <1>8, <1>9, <1>10 DEF Safe, Accounts
<1>12. \A g : ~Carries(c, g)
  BY <1>1 DEF Carries
<1> QED
  BY <1>1, <1>6, <1>11, <1>12, SameFilesLeakFree

LEMMA RemovalLeakFree ==
    ASSUME SqliteInv, LeakFree, NEW c \in Clients, NEW call,
           calls[c] = NoCall, calls' = [calls EXCEPT ![c] = call],
           call.phase = "retire", open',
           UNCHANGED <<objects, staging, leases, faults>>,
           Held \subseteq Held' \union Range(call.retire)
    PROVE  LeakFree'
<1>1. calls'[c] = call /\ \A d \in Clients \ {c} : calls'[d] = calls[d]
  BY DEF SqliteInv, TypeGood
<1>2. \A f : ~Carries(c, f) /\ ~Accounts(c, f)
  BY NoCallIsRecord, NoWork DEF Writes
<1>3. Leased' = Leased
  BY DEF Leased
<1>4. \A f : f \in Safe \/ Accounts(c, f) => f \in Safe' \/ Accounts(c, f)'
  BY <1>1, <1>2, <1>3 DEF Safe, Accounts
<1> QED
  BY <1>1, <1>2, <1>4, SameFilesLeakFree

LEMMA DeleteLeakFree ==
    ASSUME SqliteInv, LeakFree, NEW c \in Clients, NEW kind, NEW selector,
           Delete(c, kind, selector)
    PROVE  LeakFree'
<1> DEFINE marker == /\ selector = CurrentVersion
                     /\ status # "Unconfigured"
           removed == IF marker THEN ReplacedRows ELSE Selected(selector)
           call == [NoCall EXCEPT !.kind = kind, !.phase = "retire",
                      !.retire = PayloadsOf(removed), !.committed = TRUE]
<1>1. /\ calls[c] = NoCall /\ open'
      /\ calls' = [calls EXCEPT ![c] = call]
      /\ UNCHANGED <<objects, staging, leases, faults>>
      /\ rows \ removed \subseteq rows'
  BY DEF Delete, Begin, files
<1>2. removed \subseteq rows
  BY DEF Selected, NewestRows, ReplacedRows, NullRows, SqliteInv, TypeGood, Statuses
<1> HIDE DEF removed, marker
<1>3. Range(PayloadsOf(removed)) =
            ({r.payload : r \in removed} \union {r.note : r \in removed}) \ {0}
  BY <1>2, RetiredRange
<1>4. call.phase = "retire" /\ call.retire = PayloadsOf(removed)
  BY DEF NoCall
<1> HIDE DEF call
<1>5. ASSUME NEW g \in Held PROVE g \in Held' \/ g \in Range(call.retire)
  <2>1. PICK q \in rows : g # 0 /\ (g = q.payload \/ g = q.note)
    BY <1>5, IsHeld
  <2>2. CASE q \in removed
    BY <1>3, <1>4, <2>1, <2>2
  <2>3. CASE q \notin removed
    BY <1>1, <2>1, <2>3, IsHeld
  <2> QED
    BY <2>2, <2>3
<1> QED
  BY <1>1, <1>4, <1>5, RemovalLeakFree

LEMMA UnannotateLeakFree ==
    ASSUME SqliteInv, LeakFree, NEW c \in Clients, NEW selector,
           Unannotate(c, selector)
    PROVE  LeakFree'
<1>1. PICK r \in rows :
        /\ rows' = (rows \ {r}) \union {[r EXCEPT !.note = 0]}
        /\ Begin(c, [NoCall EXCEPT !.kind = "unannotate", !.phase = "retire",
                       !.retire = NotesOf({r}), !.committed = TRUE])
  <2>1. SelectedData(selector) \subseteq rows
    BY DEF SelectedData, Selected, NewestRows
  <2> QED
    BY <2>1, Zenon DEF Unannotate
<1> DEFINE new == [r EXCEPT !.note = 0]
           call == [NoCall EXCEPT !.kind = "unannotate", !.phase = "retire",
                      !.retire = NotesOf({r}), !.committed = TRUE]
<1>2. /\ open' /\ calls[c] = NoCall
      /\ calls' = [calls EXCEPT ![c] = call]
      /\ UNCHANGED <<objects, staging, leases, faults>>
  BY <1>1 DEF Unannotate, Begin, files
<1>3. Range(NotesOf({r})) = {r.note} \ {0}
  BY RetiredRange
<1>4. call.phase = "retire" /\ call.retire = NotesOf({r})
  BY DEF NoCall
<1>5. new.payload = r.payload /\ new \in rows'
  BY <1>1 DEF RowRecord, SqliteInv, TypeGood
<1> HIDE DEF call, new
<1>6. ASSUME NEW g \in Held PROVE g \in Held' \/ g \in Range(call.retire)
  <2>1. PICK q \in rows : g # 0 /\ (g = q.payload \/ g = q.note)
    BY <1>6, IsHeld
  <2>2. CASE q = r
    BY <1>3, <1>4, <1>5, <2>1, <2>2, IsHeld
  <2>3. CASE q # r
    BY <1>1, <2>1, <2>3, IsHeld
  <2> QED
    BY <2>2, <2>3
<1> QED
  BY <1>2, <1>4, <1>6, RemovalLeakFree

LEMMA NextLeakFree ==
    ASSUME SqliteInv, LeakFree, faults \in Seq(FaultKinds), [Next]_vars
    PROVE  LeakFree'
<1>1. ASSUME NEW c \in Clients, Call(c) PROVE LeakFree'
  BY <1>1, BeginLeakFree, DeleteLeakFree, UnannotateLeakFree DEF Call
<1>2. ASSUME NEW c \in Clients, Step(c) PROVE LeakFree'
  BY <1>2, WriteLeakFree, PutLeakFree, AnnotationLeakFree, RetireLeakFree,
     ReleaseLeakFree DEF Step
<1>3. ASSUME NEW kind \in FaultKinds, Fault(kind) PROVE LeakFree'
  BY <1>3, FaultLeakFree
<1>4. ASSUME NEW c \in Clients, Failure(c) PROVE LeakFree'
  BY <1>3, <1>4 DEF Failure, SyncFails, CommitFails, CheckFails, FaultKinds
<1>5. CASE Crash \/ PowerLoss
  BY <1>3, <1>5 DEF Crash, PowerLoss, FaultKinds
<1>6. CASE \/ \E f \in 1..MaxFiles : CleanStaging(f) \/ CleanObjects(f)
           \/ Open
  BY <1>6 DEF CleanStaging, CleanObjects, Open, LeakFree
<1>7. CASE \/ \E new \in {"Enabled", "Suspended"} : PutStatus(new)
           \/ UNCHANGED vars
  <2>1. UNCHANGED <<rows, leases, objects, staging, calls, open, faults>>
    BY <1>7 DEF PutStatus, vars, catalog, files
  <2> QED
    BY <2>1, SameSafe DEF LeakFree, Carries, Accounts
<1> QED
  BY <1>1, <1>2, <1>4, <1>5, <1>6, <1>7 DEF Next

\* A file that no row names and no copy holds is the work of a call in
\* progress, whatever the clients do at once, until something fails.
THEOREM NothingIsLeaked == Spec => []NothingLeaks
<1> DEFINE Inv == SqliteInv /\ faults \in Seq(FaultKinds) /\ LeakFree
<1>1. Init => Inv
  <2> SUFFICES ASSUME Init PROVE Inv
    OBVIOUS
  <2>1. faults \in Seq(FaultKinds)
    BY DEF Init
  <2>2. LeakFree
    BY NoCallIsRecord DEF Init, LeakFree
  <2> QED
    BY <2>1, <2>2, InitInv
<1>2. Inv /\ [Next]_vars => Inv'
  BY NextInv, FaultsTyped, NextLeakFree
<1>3. Inv => NothingLeaks
  BY DEF LeakFree, NothingLeaks, Carries, Accounts, Safe
<1> QED
  BY <1>1, <1>2, <1>3, PTL DEF Spec

(***************************************************************************)
(* The promise of DurableVersions.  A version is one row, publication      *)
(* orders are given out once, and each row is readable: so the table is    *)
(* what the rows say.                                                      *)
(***************************************************************************)
RowsGood ==
    /\ sequence <= MaxRows
    /\ \A r \in rows : r.order \in 1..sequence /\ r.id \in {0, r.order}
    /\ \A r, s \in rows : r.id = s.id \/ r.order = s.order => r = s
    /\ status = "Unconfigured" => \A r \in rows : r.id = 0

\* The value of a readable row.
Readable(r) == [body |-> r.payload, marker |-> r.marker,
                tag |-> IF r.note = 0 THEN 0 ELSE 1, order |-> r.order]

Promised == [body : 0..MaxFiles, marker : BOOLEAN, tag : {0, 1}, order : 1..MaxRows]

LEMMA ReadableRows ==
    SqliteInv /\ RowsGood => \A r \in rows :
        /\ r.id \in 0..MaxRows /\ r.order \in 1..MaxRows
        /\ Value(r) = Readable(r) /\ Readable(r) \in Promised
<1> SUFFICES ASSUME SqliteInv, RowsGood, NEW r \in rows
             PROVE  /\ r.id \in 0..MaxRows /\ r.order \in 1..MaxRows
                    /\ Value(r) = Readable(r) /\ Readable(r) \in Promised
  OBVIOUS
<1>1. /\ r \in RowRecord /\ sequence \in Nat /\ created \in 0..MaxFiles
      /\ MaxFiles \in Nat /\ MaxRows \in Nat
  BY SqliteAssumption DEF SqliteInv, TypeGood
<1>2. r.id \in 0..MaxRows /\ r.order \in 1..MaxRows
  BY <1>1 DEF RowsGood
<1>3. {r.payload, r.note} \ {0} \subseteq Held
  BY IsHeld
<1>4. /\ Held \subseteq objects.now /\ Held \subseteq flushed
      /\ Held \subseteq 1..created
  BY SyncedDirectory DEF SqliteInv, SafeStays, Safe, Settled
<1>5. Value(r) = Readable(r)
  BY <1>3, <1>4 DEF Value, Readable
<1>6. r.payload \in 0..MaxFiles /\ r.marker \in BOOLEAN
  BY <1>1, <1>3, <1>4 DEF RowRecord
<1> QED
  BY <1>2, <1>5, <1>6 DEF Readable, Promised

\* The table has the values of the rows and no other.
TableSays ==
    /\ Table \in [0..MaxRows -> Promised \union {None}]
    /\ \A r \in rows : r.id \in 0..MaxRows /\ Table[r.id] = Readable(r)
    /\ \A k \in 0..MaxRows : (\A r \in rows : r.id # k) => Table[k] = None

LEMMA TableOfRows == SqliteInv /\ RowsGood => TableSays
<1> SUFFICES ASSUME SqliteInv, RowsGood PROVE TableSays
  OBVIOUS
<1> DEFINE Found(k) == {r \in rows : r.id = k}
<1>1. \A k \in 0..MaxRows :
        Table[k] = IF Found(k) = {} THEN None ELSE Value(CHOOSE r \in Found(k) : TRUE)
  BY DEF Table
<1>2. \A r \in rows : r.id \in 0..MaxRows /\ Value(r) = Readable(r) /\ Readable(r) \in Promised
  BY ReadableRows
<1>3. ASSUME NEW r \in rows PROVE Table[r.id] = Readable(r)
  <2>1. Found(r.id) = {r}
    BY DEF RowsGood
  <2>2. (CHOOSE s \in {r} : TRUE) = r
    OBVIOUS
  <2> HIDE DEF Found
  <2> QED
    BY <1>1, <1>2, <2>1, <2>2
<1>4. ASSUME NEW k \in 0..MaxRows, \A r \in rows : r.id # k PROVE Table[k] = None
  BY <1>1, <1>4
<1>5. \A k \in 0..MaxRows : Table[k] \in Promised \union {None}
  <2> SUFFICES ASSUME NEW k \in 0..MaxRows PROVE Table[k] \in Promised \union {None}
    OBVIOUS
  <2>1. CASE \E r \in rows : r.id = k
    BY <1>2, <1>3, <2>1
  <2> QED
    BY <1>4, <2>1
<1>6. Table = [k \in 0..MaxRows |-> Table[k]]
  BY DEF Table
<1> QED
  BY <1>2, <1>3, <1>4, <1>5, <1>6 DEF TableSays

\* A version keeps its value if its row stays.
LEMMA SameVersion ==
    ASSUME TableSays, TableSays', NEW k \in 0..MaxRows,
           \A r : r \in rows /\ r.id = k <=> r \in rows' /\ r.id = k
    PROVE  Table'[k] = Table[k]
<1>1. CASE \E r \in rows : r.id = k
  BY <1>1 DEF TableSays
<1>2. CASE \A r \in rows : r.id # k
  BY <1>2 DEF TableSays
<1> QED
  BY <1>1, <1>2


(***************************************************************************)
(* What a step makes of the rows: a row is published in the place of the   *)
(* one with its identity, a row is removed, or the note of one is changed. *)
(***************************************************************************)
Published(new) ==
    /\ sequence < MaxRows /\ sequence' = sequence + 1
    /\ new.order = sequence' /\ new.id \in {0, sequence'}
    /\ status = "Unconfigured" => new.id = 0
    /\ rows' = {r \in rows : r.id # new.id} \union {new}

Removed(r) == r \in rows /\ rows' = rows \ {r} /\ UNCHANGED sequence

Retagged(r, new) ==
    /\ r \in rows /\ rows' = (rows \ {r}) \union {new}
    /\ new.id = r.id /\ new.order = r.order /\ new.marker = r.marker
    /\ new.payload = r.payload
    /\ UNCHANGED sequence

RowsStep ==
    /\ \/ UNCHANGED <<rows, sequence>>
       \/ \E new : Published(new)
       \/ \E r : Removed(r)
       \/ \E r, new : Retagged(r, new)
    /\ status' = "Unconfigured" => status = "Unconfigured"

LEMMA RowsStayGood ==
    ASSUME SqliteInv, RowsGood, RowsStep
    PROVE  RowsGood'
<1>1. sequence \in Nat /\ MaxRows \in Nat
  BY SqliteAssumption DEF SqliteInv, TypeGood
<1>2. CASE UNCHANGED <<rows, sequence>>
  BY <1>2 DEF RowsGood, RowsStep
<1>3. ASSUME NEW new, Published(new) PROVE RowsGood'
  <2>1. \A r \in rows' : r = new \/ (r \in rows /\ r.id # new.id)
    BY <1>3 DEF Published
  <2>2. \A r \in rows : r.order \in 1..sequence /\ r.id \in {0, r.order}
    BY DEF RowsGood
  <2>3. sequence' <= MaxRows
    BY <1>1, <1>3 DEF Published
  <2>4. \A r \in rows' : r.order \in 1..sequence' /\ r.id \in {0, r.order}
    BY <1>1, <1>3, <2>1, <2>2 DEF Published
  <2>5. ASSUME NEW r \in rows', NEW s \in rows', r.id = s.id \/ r.order = s.order
        PROVE  r = s
    BY <1>1, <1>3, <2>1, <2>2, <2>5 DEF Published, RowsGood
  <2>6. status' = "Unconfigured" => \A r \in rows' : r.id = 0
    BY <1>3, <2>1 DEF Published, RowsGood, RowsStep
  <2> QED
    BY <2>3, <2>4, <2>5, <2>6 DEF RowsGood
<1>4. ASSUME NEW r, Removed(r) PROVE RowsGood'
  BY <1>4 DEF Removed, RowsGood, RowsStep
<1>5. ASSUME NEW r, NEW new, Retagged(r, new) PROVE RowsGood'
  <2>1. \A s \in rows' : \E t \in rows : /\ s.id = t.id /\ s.order = t.order
                                        /\ IF t = r THEN s = new ELSE s = t
    BY <1>5 DEF Retagged
  <2>2. ASSUME NEW s \in rows', NEW q \in rows', s.id = q.id \/ s.order = q.order
        PROVE  s = q
    <3>1. PICK t \in rows : /\ s.id = t.id /\ s.order = t.order
                            /\ IF t = r THEN s = new ELSE s = t
      BY <2>1
    <3>2. PICK u \in rows : /\ q.id = u.id /\ q.order = u.order
                            /\ IF u = r THEN q = new ELSE q = u
      BY <2>1
    <3>3. t = u
      BY <2>2, <3>1, <3>2 DEF RowsGood
    <3> QED
      BY <3>1, <3>2, <3>3
  <2>3. sequence' = sequence
    BY <1>5 DEF Retagged
  <2>4. \A s \in rows' : s.order \in 1..sequence' /\ s.id \in {0, s.order}
    BY <2>1, <2>3 DEF RowsGood
  <2>5. status' = "Unconfigured" => \A s \in rows' : s.id = 0
    BY <2>1 DEF RowsGood, RowsStep
  <2> QED
    BY <2>2, <2>3, <2>4, <2>5 DEF RowsGood
<1> QED
  BY <1>2, <1>3, <1>4, <1>5 DEF RowsStep

\* The row a put or a marker adds takes the place of those it replaces.
LEMMA ReplacedAre ==
    ASSUME SqliteInv, RowsGood
    PROVE  /\ rows \ ReplacedRows = {r \in rows : r.id # NewId}
           /\ NewId \in {0, sequence + 1}
           /\ status = "Unconfigured" => NewId = 0
<1>1. sequence \in Nat /\ status \in Statuses
  BY DEF SqliteInv, TypeGood
<1>2. \A r \in rows : r.id # sequence + 1
  BY <1>1 DEF RowsGood
<1>3. CASE status = "Enabled"
  BY <1>2, <1>3 DEF NewId, ReplacedRows
<1>4. CASE status = "Suspended"
  BY <1>4 DEF NewId, ReplacedRows, NullRows, NullVersion
<1>5. CASE status = "Unconfigured"
  BY <1>5 DEF NewId, ReplacedRows, NullVersion, RowsGood
<1> QED
  BY <1>1, <1>3, <1>4, <1>5 DEF Statuses

LEMMA PutPublishes ==
    ASSUME SqliteInv, RowsGood, NEW c \in Clients, CommitPut(c)
    PROVE  RowsStep
<1> DEFINE new == Row(NewId, calls[c].file, PublishedNote(calls[c]))
<1>1. new.id = NewId /\ new.order = sequence + 1
  BY DEF Row
<1> HIDE DEF new
<1>2. Published(new)
  BY <1>1, ReplacedAre DEF CommitPut, Published, new
<1> QED
  BY <1>2 DEF CommitPut, RowsStep

LEMMA AnnotationRetags ==
    ASSUME SqliteInv, RowsGood, NEW selector,
           \/ \E c \in Clients : CommitAnnotation(c, selector)
           \/ \E c \in Clients : Unannotate(c, selector)
    PROVE  RowsStep
<1>1. SelectedData(selector) \subseteq rows
  BY DEF SelectedData, Selected, NewestRows
<1>2. \E r \in rows : \E f : rows' = (rows \ {r}) \union {[r EXCEPT !.note = f]}
  BY <1>1, Zenon DEF CommitAnnotation, Unannotate
<1>0. PICK r \in rows : \E f : rows' = (rows \ {r}) \union {[r EXCEPT !.note = f]}
  BY <1>2
<1>6. PICK f : rows' = (rows \ {r}) \union {[r EXCEPT !.note = f]}
  BY <1>0
<1>3. UNCHANGED <<sequence, status>>
  <2>1. ASSUME NEW c, CommitAnnotation(c, selector) PROVE UNCHANGED <<sequence, status>>
    BY <2>1, Zenon DEF CommitAnnotation
  <2>2. ASSUME NEW c, Unannotate(c, selector) PROVE UNCHANGED <<sequence, status>>
    BY <2>2, Zenon DEF Unannotate
  <2> QED
    BY <2>1, <2>2
<1> DEFINE new == [r EXCEPT !.note = f]
<1>4. /\ new.id = r.id /\ new.order = r.order /\ new.marker = r.marker
      /\ new.payload = r.payload
  BY DEF SqliteInv, TypeGood, RowRecord
<1>5. Retagged(r, new)
  BY <1>6, <1>3, <1>4 DEF Retagged
<1> QED
  BY <1>3, <1>5 DEF RowsStep

LEMMA DeleteRemoves ==
    ASSUME SqliteInv, RowsGood, NEW c \in Clients, NEW kind, NEW selector,
           Delete(c, kind, selector)
    PROVE  RowsStep
<1> DEFINE marker == /\ selector = CurrentVersion
                     /\ status # "Unconfigured"
           removed == IF marker THEN ReplacedRows ELSE Selected(selector)
           new == [Row(NewId, 0, 0) EXCEPT !.marker = TRUE]
<1>1. /\ status' = status /\ (marker => sequence < MaxRows)
      /\ rows' = (rows \ removed) \union IF marker THEN {new} ELSE {}
      /\ sequence' = IF marker THEN sequence + 1 ELSE sequence
  BY DEF Delete
<1>2. marker => status # "Unconfigured"
  OBVIOUS
<1> HIDE DEF marker
<1>3. CASE marker
  <2>1. new.id = NewId /\ new.order = sequence + 1
    BY DEF Row
  <2> HIDE DEF new
  <2>2. removed = ReplacedRows
    BY <1>3
  <2> HIDE DEF removed
  <2>3. Published(new)
    BY <1>1, <1>3, <2>1, <2>2, ReplacedAre DEF Published
  <2> QED
    BY <1>1, <2>3 DEF RowsStep
<1>4. CASE ~marker
  <2>1. removed = Selected(selector)
    BY <1>4
  <2>2. ASSUME NEW r \in removed, NEW s \in removed PROVE r = s
    <3>1. r \in rows /\ s \in rows
      BY <2>1 DEF Selected, NewestRows
    <3>2. r.order \in Int /\ s.order \in Int
      BY <3>1 DEF RowsGood
    <3>3. CASE selector = CurrentVersion
      BY <2>1, <3>1, <3>2, <3>3 DEF Selected, NewestRows, RowsGood
    <3>4. CASE selector # CurrentVersion
      BY <2>1, <3>1, <3>4 DEF Selected, RowsGood
    <3> QED
      BY <3>3, <3>4
  <2>3. removed \subseteq rows
    BY <2>1 DEF Selected, NewestRows
  <2> HIDE DEF removed
  <2>4. CASE removed = {}
    BY <1>1, <1>4, <2>4 DEF RowsStep
  <2>5. ASSUME NEW r \in removed PROVE RowsStep
    <3>1. removed = {r}
      BY <2>2, <2>5
    <3>2. Removed(r)
      BY <1>1, <1>4, <2>3, <3>1 DEF Removed
    <3> QED
      BY <1>1, <3>2 DEF RowsStep
  <2> QED
    BY <2>4, <2>5
<1> QED
  BY <1>3, <1>4

LEMMA EveryStepOfRows ==
    ASSUME SqliteInv, RowsGood, [Next]_vars
    PROVE  RowsStep
<1>1. ASSUME NEW c \in Clients, Call(c) PROVE RowsStep
  <2>1. ASSUME NEW kind, BeginWrite(c, kind) PROVE RowsStep
    BY <2>1 DEF BeginWrite, catalog, RowsStep
  <2>2. ASSUME NEW selector, NEW kind,
               BeginCopy(c, kind, selector) \/ RefuseCopy(c, selector)
        PROVE  RowsStep
    BY <2>2 DEF BeginCopy, RefuseCopy, RowsStep
  <2> QED
    BY <1>1, <2>1, <2>2, DeleteRemoves, AnnotationRetags DEF Call
<1>2. ASSUME NEW c \in Clients, Step(c) PROVE RowsStep
  <2>1. CASE \/ Stage(c) \/ Flush(c) \/ Abandon(c) \/ Rename(c) \/ SyncName(c)
             \/ Refuse(c) \/ SyncRefused(c) \/ Retire(c) \/ SyncRetired(c)
             \/ Release(c) \/ Return(c)
    BY <2>1 DEF Stage, Flush, Abandon, Rename, SyncName, Refuse, SyncRefused,
                Retire, SyncRetired, Release, Return, catalog, RowsStep
  <2> QED
    BY <1>2, <2>1, PutPublishes, AnnotationRetags DEF Step
<1>3. ASSUME NEW c \in Clients, Failure(c) PROVE RowsStep
  BY <1>3 DEF Failure, SyncFails, CommitFails, CheckFails, catalog, RowsStep
<1>4. ASSUME NEW new \in {"Enabled", "Suspended"}, PutStatus(new) PROVE RowsStep
  BY <1>4 DEF PutStatus, RowsStep
<1>5. CASE \/ Crash \/ PowerLoss \/ Open \/ UNCHANGED vars
           \/ \E f \in 1..MaxFiles : CleanStaging(f) \/ CleanObjects(f)
  BY <1>5 DEF Crash, PowerLoss, Open, CleanStaging, CleanObjects, vars, catalog,
              RowsStep
<1> QED
  BY <1>1, <1>2, <1>3, <1>4, <1>5 DEF Next

(***************************************************************************)
(* Each of these is an operation that the promise allows.                  *)
(***************************************************************************)
LEMMA PromiseKeys == Promise!Keys = 0..MaxRows
BY SqliteAssumption DEF Promise!Keys

LEMMA MovesOneVersion ==
    ASSUME TableSays, TableSays', NEW k \in 0..MaxRows,
           \A r : r.id # k => (r \in rows <=> r \in rows')
    PROVE  Promise!Move(k)
<1>1. \A j \in 0..MaxRows \ {k} : Table'[j] = Table[j]
  BY SameVersion
<1>2. Table' \in [0..MaxRows -> Promised \union {None}]
  BY DEF TableSays
<1> QED
  BY <1>1, <1>2, PromiseKeys DEF Promise!Move, Promised

LEMMA NoneIsNoValue == \A r : Readable(r) # None
<1> SUFFICES ASSUME NEW r, Readable(r) = None PROVE FALSE
  OBVIOUS
<1>1. DOMAIN Readable(r) = {"body", "marker", "tag", "order"}
  BY DEF Readable
<1>2. DOMAIN None = {"kind"}
  BY DEF None
<1> QED
  BY <1>1, <1>2

\* A version is present if it has a row.
LEMMA PresentVersions ==
    ASSUME TableSays
    PROVE  /\ \A r \in rows : r.id \in Promise!Present
           /\ \A k \in Promise!Present : \E r \in rows : r.id = k
BY PromiseKeys, NoneIsNoValue DEF TableSays, Promise!Present

LEMMA PublishIsPromised ==
    ASSUME SqliteInv, RowsGood, TableSays, TableSays', NEW new, Published(new)
    PROVE  new.id \in Promise!Keys /\ Promise!Publish(new.id)
<1> DEFINE k == new.id
<1>1. sequence \in Nat /\ MaxRows \in Nat
  BY SqliteAssumption DEF SqliteInv, TypeGood
<1>2. k \in 0..MaxRows /\ new \in rows'
  BY <1>1 DEF Published
<1>3. Promise!Move(k)
  <2>1. \A r : r.id # k => (r \in rows <=> r \in rows')
    BY DEF Published
  <2> QED
    BY <1>2, <2>1, MovesOneVersion
<1>4. Table'[k] = Readable(new) /\ Table'[k] # None /\ Table'[k].order = sequence + 1
  BY <1>2, NoneIsNoValue DEF TableSays, Published, Readable
<1>5. \A r \in rows : /\ r.order \in 1..sequence /\ r.id \in {0, r.order}
                      /\ Table[r.id].order = r.order
  <2>1. \A r \in rows : r.order \in 1..sequence /\ r.id \in {0, r.order}
    BY DEF RowsGood
  <2>2. \A r : Readable(r).order = r.order
    BY DEF Readable
  <2>3. \A r \in rows : Table[r.id].order = r.order
    BY <2>2 DEF TableSays
  <2> QED
    BY <2>1, <2>3
<1>6. CASE k # 0
  <2>1. k = sequence + 1
    BY <1>6 DEF Published
  <2>2. Table[k] = None
    BY <1>1, <1>2, <1>5, <2>1 DEF TableSays
  <2>3. \A j \in Promise!Present \ {k} : Table[j].order < sequence + 1
    BY <1>1, <1>5, PresentVersions
  <2> QED
    BY <1>2, <1>3, <1>4, <1>6, <2>1, <2>2, <2>3, PromiseKeys DEF Promise!Publish
<1>7. CASE k = 0
  <2>1. \A j \in Promise!Present : Table[j].order < sequence + 1
    BY <1>1, <1>5, PresentVersions
  <2>2. 0 \in Promise!Present => Table[0].order <= sequence + 1
    BY <1>1, <1>5, PresentVersions
  <2> QED
    BY <1>2, <1>3, <1>4, <1>7, <2>1, <2>2, PromiseKeys DEF Promise!Publish
<1> QED
  BY <1>2, <1>6, <1>7, PromiseKeys

LEMMA RemovalIsPromised ==
    ASSUME RowsGood, TableSays, TableSays', NEW r, Removed(r)
    PROVE  Promise!Remove(r.id)
<1>1. r \in rows /\ rows' = rows \ {r}
  BY DEF Removed
<1>2. r.id \in 0..MaxRows /\ r.id \in Promise!Present
  BY <1>1, PresentVersions DEF TableSays
<1>3. Promise!Move(r.id)
  <2>1. \A s : s.id # r.id => (s \in rows <=> s \in rows')
    BY <1>1
  <2> QED
    BY <1>2, <2>1, MovesOneVersion
<1>4. \A s \in rows' : s.id # r.id
  BY <1>1 DEF RowsGood
<1>5. Table'[r.id] = None
  BY <1>2, <1>4 DEF TableSays
<1> QED
  BY <1>2, <1>3, <1>5 DEF Promise!Remove

LEMMA RetagIsPromised ==
    ASSUME TableSays, TableSays', NEW r, NEW new, Retagged(r, new)
    PROVE  Promise!Retag(r.id)
<1>1. /\ r \in rows /\ new \in rows' /\ rows' = (rows \ {r}) \union {new}
      /\ new.id = r.id
  BY DEF Retagged
<1>2. r.id \in 0..MaxRows /\ r.id \in Promise!Present
  BY <1>1, PresentVersions DEF TableSays
<1>3. Promise!Move(r.id)
  <2>1. \A s : s.id # r.id => (s \in rows <=> s \in rows')
    BY <1>1
  <2> QED
    BY <1>2, <2>1, MovesOneVersion
<1>4. Table[r.id] = Readable(r) /\ Table'[r.id] = Readable(new)
  BY <1>1 DEF TableSays
<1>5. Table'[r.id] = [Table[r.id] EXCEPT !.tag = Table'[r.id].tag]
  BY <1>4 DEF Retagged, Readable
<1> QED
  BY <1>2, <1>3, <1>4, <1>5, NoneIsNoValue DEF Promise!Retag

LEMMA StepIsPromised ==
    ASSUME SqliteInv, RowsGood, TableSays, TableSays', RowsStep
    PROVE  [Promise!Next]_<<Table, [k \in 0..MaxRows |-> {}]>>
<1>1. CASE UNCHANGED <<rows, sequence>>
  <2>1. \A k \in 0..MaxRows : Table'[k] = Table[k]
    BY <1>1, SameVersion
  <2>2. /\ Table = [k \in 0..MaxRows |-> Table[k]]
        /\ Table' = [k \in 0..MaxRows |-> Table'[k]]
    BY DEF Table
  <2>3. Table' = Table
    BY <2>1, <2>2, Zenon
  <2> QED
    BY <2>3
<1>2. ASSUME NEW new, Published(new) PROVE Promise!Next
  BY <1>2, PublishIsPromised DEF Promise!Next
<1>3. ASSUME NEW r, Removed(r) PROVE Promise!Next
  BY <1>3, RemovalIsPromised DEF Promise!Next, Promise!Remove, Promise!Present
<1>4. ASSUME NEW r, NEW new, Retagged(r, new) PROVE Promise!Next
  BY <1>4, RetagIsPromised DEF Promise!Next, Promise!Retag, Promise!Present
<1> QED
  BY <1>1, <1>2, <1>3, <1>4 DEF RowsStep

\* The SQLite backend keeps the promise of DurableVersions: a step changes at
\* most one version, and only to what one operation makes of it, crashes and
\* power losses change none, and no call makes a version of another
\* unreadable.
THEOREM KeepsThePromise == Spec => OldOrNew
<1> DEFINE Inv == SqliteInv /\ RowsGood
           Empty == [k \in 0..MaxRows |-> {}]
<1>1. Init => Inv
  BY InitInv, SqliteAssumption DEF Init, RowsGood
<1>2. Inv /\ [Next]_vars => Inv'
  BY NextInv, EveryStepOfRows, RowsStayGood
<1>3. Inv => TableSays
  BY TableOfRows
<1>4. Inv /\ TableSays /\ TableSays' /\ [Next]_vars => [Promise!Next]_<<Table, Empty>>
  BY EveryStepOfRows, StepIsPromised
<1>5. Init /\ TableSays => Promise!Init
  <2> SUFFICES ASSUME Init, TableSays PROVE Promise!Init
    OBVIOUS
  <2>1. \A k \in 0..MaxRows : Table[k] = None
    BY DEF Init, TableSays
  <2>2. Table = [k \in 0..MaxRows |-> Table[k]]
    BY DEF Table
  <2>3. Table = [k \in 0..MaxRows |-> None]
    BY <2>1, <2>2, Zenon
  <2> QED
    BY <2>3, PromiseKeys DEF Promise!Init
<1> QED
  BY <1>1, <1>2, <1>3, <1>4, <1>5, PTL DEF Spec, OldOrNew, Promise!Spec
===============================================================================

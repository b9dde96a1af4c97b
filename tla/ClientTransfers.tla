---------------------------- MODULE ClientTransfers ----------------------------
(***************************************************************************)
(* Transfer_Many of the client: an ordered batch of uploads and downloads, *)
(* run in waves of tasks that share one client, one deadline and one       *)
(* cancellation scope.  An upload is one request or a multipart upload; a  *)
(* download goes to a temporary file that replaces the destination.        *)
(* Requests travel to a server that may still serve one whose task has     *)
(* given it up.                                                            *)
(*                                                                         *)
(* The server, the transport and the task scope are external: a request is *)
(* sent once and served at most once; a server that refuses a request has  *)
(* done nothing, so an error that it answers after the effect is not       *)
(* modelled; a body that does not say its length is framed by the          *)
(* transport, which raises when it ends too early; and a wait ends when    *)
(* its token is requested or its deadline passes.                          *)
(***************************************************************************)
EXTENDS Integers, Sequences

CONSTANTS
    Plans,       \* the batches: sequences of [kind, parts, sized], one per
                 \* subject, parts being the requests or the pieces that
                 \* carry the body, sized that a download says its length
    WorkerLimit, \* tasks of a wave
    MaxFaults    \* bound: refusals, broken connections, answers that do not
                 \* validate, failures of a local file

Kinds == {"put", "multipart", "download"}
Modes == {"Continue_After_Failure", "Cancel_Remaining"}

ASSUME ClientAssumption ==
    /\ Plans \subseteq Seq([kind : Kinds, parts : Nat \ {0}, sized : BOOLEAN])
    /\ WorkerLimit \in Nat \ {0}
    /\ MaxFaults \in Nat

VARIABLES
    plan,      \* Subjects
    mode,      \* Options.On_Failure
    stage,     \* what Transfer_Many does: "admit", "join" or "returned"
    offset,    \* Offset: subjects of the waves already joined
    results,   \* Results, "none" before they are known
    tasks,     \* the work of each subject
    parent,    \* Token is requested
    group,     \* the token of the current scope is requested
    expired,   \* Deadline has passed
    requests,  \* requests on their way to the server
    uploads,   \* the multipart upload of each subject at the server
    published, \* the parts that reached the destination of each subject
    faults     \* number of faults so far

batch == <<plan, mode, stage, offset, results>>
signals == <<parent, expired>>
server == <<uploads, published>>
vars == <<batch, tasks, signals, group, requests, server, faults>>

Subjects == DOMAIN plan
Parts(s) == 1..plan[s].parts
Requested == parent \/ group

(***************************************************************************)
(* A task: its last request or, for "body", the read of the response; the  *)
(* part it is about; the answer; the outcome and whether the task is over. *)
(***************************************************************************)
NewTask == [op |-> "none", part |-> 0, answer |-> "none",
            verdict |-> "none", done |-> FALSE]

NoUpload == [state |-> "none", parts |-> {}]

Sent == {"put", "create", "part", "complete", "abort", "get"}

WaveEnd == IF offset + WorkerLimit < Len(plan)
           THEN offset + WorkerLimit ELSE Len(plan)

Wave == offset + 1..WaveEnd

Running(s) == stage = "join" /\ s \in Wave /\ ~tasks[s].done

Asks(t, op, part) == [t EXCEPT !.op = op, !.part = part, !.answer = "none"]

\* Mutant: an upload is no longer initiated once its completion is asked.
InitiatedUntilComplete(t) == t.op = "part"

\* An upload that was initiated is aborted before its task fails.
Initiated(t) == t.op \in {"part", "complete"}

Ends(t, verdict) ==
    IF Initiated(t) /\ verdict /= "Completed"
    THEN [Asks(t, "abort", 0) EXCEPT !.verdict = verdict]
    ELSE [t EXCEPT !.verdict = verdict, !.done = TRUE]

\* A wait that ends early leaves its answer unread.
GivenUp(t, verdict) == Ends([t EXCEPT !.answer = "none"], verdict)

\* Execute_Transfer: a task that is over without success cancels its wave.
Spoils(t) == t.done /\ t.verdict /= "Completed" /\ mode = "Cancel_Remaining"

Becomes(s, t) ==
    /\ tasks' = [tasks EXCEPT ![s] = t]
    /\ requests' = IF t.op \in Sent /\ ~t.done /\ t.answer = "none"
                   THEN requests \union
                            {[subject |-> s, op |-> t.op, part |-> t.part]}
                   ELSE requests
    /\ group' = (group \/ Spoils(t))

(***************************************************************************)
(* The steps of a task                                                     *)
(***************************************************************************)
FirstRequest(s) == CASE plan[s].kind = "put" -> "put"
                     [] plan[s].kind = "multipart" -> "create"
                     [] plan[s].kind = "download" -> "get"

\* The task begins, unless the scope is cancelled or the time is over.
Begin(s) ==
    /\ Running(s) /\ tasks[s].op = "none"
    /\ \/ /\ ~Requested /\ ~expired
          /\ Becomes(s, Asks(tasks[s], FirstRequest(s), 0))
       \/ /\ Requested
          /\ Becomes(s, Ends(tasks[s], "Cancelled"))
       \/ /\ expired
          /\ Becomes(s, Ends(tasks[s], "Failed"))
    /\ UNCHANGED <<batch, signals, server, faults>>

\* Each request takes what remains of the deadline.
NextRequest(t, op, part) ==
    IF expired THEN Ends(t, "Failed") ELSE Asks(t, op, part)

AfterPart(s, t) ==
    IF t.part < plan[s].parts
    THEN NextRequest(t, "part", t.part + 1)
    ELSE NextRequest(t, "complete", t.part)

\* Mutant: an answer that does not validate is a rejection.
VerdictOfAny(answer) == "Rejected"

Verdict(answer) == IF answer = "refused" THEN "Rejected" ELSE "Failed"

\* The task reads an answer: success goes on, a refusal rejects the subject,
\* an answer that does not validate raises an exception.
Receive(s) ==
    LET t == tasks[s]
    IN  /\ Running(s) /\ t.answer /= "none" /\ t.op /= "abort"
        /\ \/ /\ t.answer = "ok"
              /\ \/ /\ t.op = "create"
                    /\ Becomes(s, AfterPart(s, [t EXCEPT !.op = "part"]))
                 \/ t.op = "part" /\ Becomes(s, AfterPart(s, t))
                 \/ /\ t.op \in {"put", "complete"}
                    /\ Becomes(s, Ends(t, "Completed"))
                 \/ t.op = "get" /\ Becomes(s, Asks(t, "body", 0))
           \/ t.answer /= "ok" /\ Becomes(s, Ends(t, Verdict(t.answer)))
        /\ UNCHANGED <<batch, signals, server, faults>>

\* The length is compared with the one that the response gave, if it did.
BodyWhole(s, t) == plan[s].sized => t.part = plan[s].parts

\* A piece of the body is written to the temporary file, until the body
\* ends: too early, and the temporary file is deleted.
ReadBody(s) ==
    LET t == tasks[s]
    IN  /\ Running(s) /\ t.op = "body"
        /\ ~Requested /\ ~expired
        /\ \/ /\ t.part < plan[s].parts
              /\ Becomes(s, [t EXCEPT !.part = @ + 1])
              /\ UNCHANGED <<published, faults>>
           \/ /\ \/ t.part = plan[s].parts
                 \/ plan[s].sized /\ faults < MaxFaults
              /\ faults' = IF t.part = plan[s].parts THEN faults ELSE faults + 1
              /\ IF BodyWhole(s, t)
                 THEN /\ published' = [published EXCEPT ![s] = 1..t.part]
                      /\ Becomes(s, Ends(t, "Completed"))
                 ELSE /\ Becomes(s, Ends(t, "Failed"))
                      /\ UNCHANGED published
        /\ UNCHANGED <<batch, signals, uploads>>

\* A wait ends because the token is requested or the time is over.
Interrupt(s) ==
    /\ Running(s) /\ tasks[s].op \notin {"none", "abort"}
    /\ \/ Requested /\ Becomes(s, GivenUp(tasks[s], "Cancelled"))
       \/ expired /\ Becomes(s, GivenUp(tasks[s], "Failed"))
    /\ UNCHANGED <<batch, signals, server, faults>>

\* The connection breaks, or the local file cannot be used.
Fail(s) ==
    /\ Running(s) /\ tasks[s].op /= "abort"
    /\ faults < MaxFaults
    /\ faults' = faults + 1
    /\ Becomes(s, GivenUp(tasks[s], "Failed"))
    /\ UNCHANGED <<batch, signals, server>>

\* An upload closes its file when its answer is read, and when the abort
\* of a rejected one is over: what is raised then replaces the outcome.
CloseFails(s) ==
    LET t == tasks[s]
    IN  /\ Running(s)
        /\ \/ t.op \in {"put", "complete"} /\ t.answer = "ok"
           \/ t.op = "abort" /\ t.verdict = "Rejected"
        /\ faults < MaxFaults
        /\ faults' = faults + 1
        /\ Becomes(s, [t EXCEPT !.verdict = "Failed", !.done = TRUE])
        /\ UNCHANGED <<batch, signals, server>>

\* Mutant: the abort waits as long as it takes.
CleanedUpAnswered(s) ==
    /\ Running(s) /\ tasks[s].op = "abort" /\ tasks[s].answer /= "none"
    /\ Becomes(s, [tasks[s] EXCEPT !.done = TRUE])
    /\ UNCHANGED <<batch, signals, server, faults>>

\* Abort_Best_Effort has a time of its own and ignores how it went.
CleanedUp(s) ==
    /\ Running(s) /\ tasks[s].op = "abort"
    /\ Becomes(s, [tasks[s] EXCEPT !.done = TRUE])
    /\ UNCHANGED <<batch, signals, server, faults>>

(***************************************************************************)
(* The server and the transport                                            *)
(***************************************************************************)
Awaited(m) == LET t == tasks[m.subject]
              IN  Running(m.subject) /\ t.op = m.op /\ t.part = m.part

Answer(m, answer) ==
    /\ requests' = requests \ {m}
    /\ tasks' = IF Awaited(m)
                THEN [tasks EXCEPT ![m.subject].answer = answer]
                ELSE tasks

\* What the server does with a request that it accepts.
Accepts(m) ==
    LET u == uploads[m.subject]
    IN  \/ m.op \in {"put", "create", "get"}
        \/ m.op \in {"part", "abort"} /\ u.state = "open"
        \/ m.op = "complete" /\ u.state = "open" /\ 1..m.part \subseteq u.parts

Performed(m) ==
    LET u == uploads[m.subject]
    IN  CASE m.op = "create" -> [u EXCEPT !.state = "open"]
          [] m.op = "part" -> [u EXCEPT !.parts = @ \union {m.part}]
          [] m.op \in {"complete", "abort"} -> [u EXCEPT !.state = "closed"]
          [] OTHER -> u

Delivered(m) == IF m.op = "put" THEN Parts(m.subject)
                ELSE IF m.op = "complete" THEN 1..m.part
                ELSE published[m.subject]

Serve(m) ==
    /\ \/ /\ Accepts(m)
          /\ uploads' = [uploads EXCEPT ![m.subject] = Performed(m)]
          /\ published' = [published EXCEPT ![m.subject] = Delivered(m)]
          /\ \/ Answer(m, "ok") /\ UNCHANGED faults
             \/ /\ faults < MaxFaults
                /\ faults' = faults + 1
                /\ Answer(m, "invalid")
       \/ /\ ~Accepts(m)
          /\ Answer(m, "refused")
          /\ UNCHANGED <<server, faults>>
       \/ /\ Accepts(m) /\ faults < MaxFaults
          /\ faults' = faults + 1
          /\ Answer(m, "refused")
          /\ UNCHANGED server
    /\ UNCHANGED <<batch, signals, group>>

\* A request that its task has given up may never be served.
Lose(m) ==
    /\ ~Awaited(m)
    /\ requests' = requests \ {m}
    /\ UNCHANGED <<batch, tasks, signals, group, server, faults>>

Cancel ==
    /\ ~parent /\ stage /= "returned"
    /\ parent' = TRUE
    /\ UNCHANGED <<batch, tasks, expired, group, requests, server, faults>>

Expire ==
    /\ ~expired /\ stage /= "returned"
    /\ expired' = TRUE
    /\ UNCHANGED <<batch, tasks, parent, group, requests, server, faults>>

(***************************************************************************)
(* Transfer_Many                                                           *)
(***************************************************************************)
\* Mark_Remaining: the subjects that are not admitted get the same result.
MarkRemaining(known, first, verdict) ==
    [s \in Subjects |-> IF s > first THEN verdict ELSE known[s]]

\* A wave is admitted into a new scope, unless the batch was cancelled
\* before the first one.
Admit ==
    /\ stage = "admit"
    /\ IF offset = 0 /\ parent
       THEN /\ results' = MarkRemaining(results, 0, "Cancelled")
            /\ stage' = "returned"
       ELSE stage' = "join" /\ UNCHANGED results
    /\ group' = FALSE
    /\ UNCHANGED <<plan, mode, offset, tasks, signals, requests, server, faults>>

\* Mutant: a wave that is cancelled is not joined.
WaveDoneOrCancelled ==
    \A s \in Wave : tasks[s].done \/ (tasks[s].op /= "none" /\ Requested)

WaveDone == \A s \in Wave : tasks[s].done

\* Mutant: a rejected subject is not a failure.
WaveRaised == \E s \in Wave : tasks[s].verdict = "Failed"

WaveFailed == \E s \in Wave : tasks[s].verdict /= "Completed"

\* Every task of the wave is over: its result is kept, and the batch goes
\* on, or ends.
Join ==
    /\ stage = "join"
    /\ WaveDone
    /\ LET joined == WaveEnd
           known == [s \in Subjects |-> IF s \in Wave
                                        THEN tasks[s].verdict ELSE results[s]]
       IN  /\ offset' = joined
           /\ \/ /\ parent \/ (mode = "Cancel_Remaining" /\ WaveFailed)
                 /\ results' = MarkRemaining(known, joined, "Cancelled")
                 /\ stage' = "returned"
              \/ /\ ~parent /\ ~(mode = "Cancel_Remaining" /\ WaveFailed)
                 /\ expired
                 /\ results' = MarkRemaining(known, joined, "Failed")
                 /\ stage' = "returned"
              \/ /\ ~parent /\ ~(mode = "Cancel_Remaining" /\ WaveFailed)
                 /\ ~expired
                 /\ results' = known
                 /\ stage' = IF joined < Len(plan)
                             THEN "admit" ELSE "returned"
    /\ UNCHANGED <<plan, mode, tasks, signals, group, requests, server, faults>>

(***************************************************************************)
(* The specification                                                       *)
(***************************************************************************)
Init ==
    /\ plan \in Plans
    /\ mode \in Modes
    /\ stage = IF plan = <<>> THEN "returned" ELSE "admit"
    /\ offset = 0
    /\ results = [s \in Subjects |-> "none"]
    /\ tasks = [s \in Subjects |-> NewTask]
    /\ parent = FALSE /\ group = FALSE /\ expired = FALSE
    /\ requests = {}
    /\ uploads = [s \in Subjects |-> NoUpload]
    /\ published = [s \in Subjects |-> {}]
    /\ faults = 0

TaskStep(s) == Begin(s) \/ Receive(s) \/ ReadBody(s) \/ Interrupt(s) \/ CleanedUp(s)

Next ==
    \/ \E s \in Subjects : TaskStep(s) \/ Fail(s) \/ CloseFails(s)
    \/ \E m \in requests : Serve(m) \/ Lose(m)
    \/ Cancel \/ Expire
    \/ Admit \/ Join

\* The tasks of the client run; nothing is asked of the server.
Fairness ==
    /\ \A s \in UNION {DOMAIN p : p \in Plans} :
          WF_vars(s \in Subjects /\ TaskStep(s))
    /\ WF_vars(Admit)
    /\ WF_vars(Join)

Spec == Init /\ [][Next]_vars /\ Fairness

(***************************************************************************)
(* Invariants                                                              *)
(***************************************************************************)
\* A subject that is reported completed is at its destination, with every
\* part: an upload at the server, a download in the local file.  One that is
\* reported rejected, a download that did not complete and a subject that was
\* not begun never change their destination, whatever requests are still on
\* their way.
ResultsTrue ==
    \A s \in Subjects :
        /\ results[s] = "Completed" => published[s] = Parts(s)
        /\ \/ results[s] = "Rejected"
           \/ plan[s].kind = "download" /\ results[s] \notin {"none", "Completed"}
           \/ tasks[s].op = "none"
           => published[s] = {}

\* When the batch has returned and no request is on its way, a multipart
\* upload that is still open belongs to a subject that was not reported
\* completed.  Either the client never learnt its identity, because the
\* answer to the creation was lost, given up or not valid, and then the
\* subject was reported as failed or cancelled, never as rejected; or the
\* client sent an abort that was lost or that the server refused.
OrphansExplained ==
    stage = "returned" /\ requests = {} =>
        \A s \in Subjects :
            uploads[s].state = "open" =>
                \/ /\ tasks[s].op = "create"
                   /\ tasks[s].answer \in {"none", "invalid"}
                   /\ results[s] \in {"Failed", "Cancelled"}
                \/ /\ tasks[s].op = "abort"
                   /\ tasks[s].answer \in {"none", "refused"}
                   /\ results[s] /= "Completed"

\* Under Cancel_Remaining nothing is asked for a subject after one of an
\* earlier wave did not complete.
StopsAfterFailure ==
    mode = "Cancel_Remaining" =>
        \A s, t \in Subjects :
            /\ (s - 1) \div WorkerLimit < (t - 1) \div WorkerLimit
            /\ tasks[s].done /\ tasks[s].verdict /= "Completed"
            => tasks[t].op = "none"

\* A batch returns joined: each subject has a result, and no task that has
\* begun is still at work with the client and the credentials it borrowed.
JoinedReturn ==
    stage = "returned" =>
        \A s \in Subjects :
            /\ results[s] /= "none"
            /\ tasks[s].done \/ tasks[s].op = "none"
            /\ tasks[s].done => results[s] = tasks[s].verdict

(***************************************************************************)
(* Liveness                                                                *)
(***************************************************************************)
\* A batch that is cancelled, or whose time is over, returns, even if the
\* server never answers again.
InterruptedReturns == parent \/ expired ~> stage = "returned"
================================================================================

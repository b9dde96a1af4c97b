------------------------- MODULE ClientTransferProofs -------------------------
(***************************************************************************)
(* For every set of batches, wave size and number of faults: what a batch  *)
(* reports is true, a batch that has returned is joined, it stops after a  *)
(* wave that failed, and the uploads it leaves open are explained.         *)
(*                                                                         *)
(* The argument is per subject: of the requests that write a destination,  *)
(* put and complete, at most one is ever sent, so a task that read its     *)
(* answer knows what the destination holds, and a task that gave it up     *)
(* never reports it completed or rejected.                                 *)
(***************************************************************************)
EXTENDS ClientTransfers, TLAPS

Verdicts == {"Completed", "Rejected", "Failed", "Cancelled"}
Answers == {"none", "ok", "invalid", "refused"}
Ops == Sent \union {"none", "body"}
Writes == {"put", "complete"}

TaskSet == [op : Ops, part : Nat, answer : Answers,
            verdict : Verdicts \union {"none"}, done : BOOLEAN]

TypeInv ==
    /\ plan \in Plans
    /\ stage \in {"admit", "join", "returned"}
    /\ offset \in 0..Len(plan)
    /\ results \in [Subjects -> Verdicts \union {"none"}]
    /\ tasks \in [Subjects -> TaskSet]
    /\ requests \subseteq [subject : Subjects, op : Sent, part : Nat]
    /\ published \in [Subjects -> SUBSET Nat]

\* A request that writes the destination of s is on its way.
Pending(s, sent) == \E m \in sent : m.subject = s /\ m.op \in Writes

\* A request of s is one its kind of transfer sends, and the one that writes
\* the destination is determined by the plan.
Expected(s, m) ==
    /\ m.op = "put" => plan[s].kind = "put" /\ m.part = 0
    /\ m.op \in {"create", "part", "complete", "abort"} =>
          plan[s].kind = "multipart"
    /\ m.op \in {"get", "body"} => plan[s].kind = "download"
    /\ m.op = "complete" => m.part = plan[s].parts

\* The task has asked for no write, or the write was refused.
Unwritten(t) ==
    \/ t.op \notin Writes \union {"abort"}
    \/ t.verdict = "Rejected"
    \/ t.op \in Writes /\ t.answer = "refused"

\* What the task, its destination and its requests have to do with each other.
Sound(s, t, dest, sent) ==
    /\ Expected(s, t)
    /\ t.op = "create" => t.part = 0
    /\ t.op \in {"part", "body"} => t.part <= plan[s].parts
    /\ ~t.done /\ t.op /= "abort" => t.verdict = "none"
    /\ t.done => t.verdict /= "none"
    /\ t.op = "abort" => t.verdict \notin {"none", "Completed"}
    /\ t.verdict = "Completed" => t.done /\ t.op /= "none" /\ dest = Parts(s)
    /\ Unwritten(t) =>
          ~Pending(s, sent) /\ (dest = {} \/ t.verdict = "Completed")
    /\ t.op \in Writes /\ t.answer = "ok" => dest = Parts(s)
    /\ Pending(s, sent) => /\ dest = {}
                           /\ t.verdict /= "Completed"
                           /\ t.op \in Writes => t.answer = "none"
    /\ \A m \in sent : m.subject = s => Expected(s, m)

SubjectsSound ==
    \A s \in Subjects : Sound(s, tasks[s], published[s], requests)

\* The batch goes through its subjects in order: those joined are over and
\* reported, those not admitted are untouched.
Frontier == IF stage = "join" THEN WaveEnd ELSE offset

WavesInOrder ==
    \A s \in Subjects :
        /\ s <= offset => tasks[s].done /\ results[s] = tasks[s].verdict
        /\ s > Frontier => tasks[s] = NewTask
        /\ s > offset => IF stage = "returned"
                         THEN results[s] \in {"Cancelled", "Failed"}
                         ELSE results[s] = "none"

IInv == TypeInv /\ SubjectsSound /\ WavesInOrder

(***************************************************************************)
(* Facts about one task                                                    *)
(***************************************************************************)
LEMMA PlanFacts ==
    ASSUME TypeInv, NEW s \in Subjects
    PROVE  /\ Len(plan) \in Nat
           /\ s \in 1..Len(plan)
           /\ plan[s].kind \in Kinds
           /\ plan[s].parts \in Nat \ {0}
<1> DEFINE Items == [kind : Kinds, parts : Nat \ {0}, sized : BOOLEAN]
<1>1. plan \in Seq(Items)
  BY ClientAssumption DEF TypeInv
<1>2. plan[s] \in Items /\ Len(plan) \in Nat /\ Subjects = 1..Len(plan)
  <2> HIDE DEF Items
  <2> QED
    BY <1>1 DEF Subjects
<1> QED
  BY <1>2

\* A task and what is on its way stay in order when the task sends its
\* request.
LEMMA SendingSound ==
    ASSUME TypeInv, NEW s \in Subjects, NEW t \in TaskSet, NEW dest,
           Sound(s, t, dest, requests), Becomes(s, t),
           t.op \in Writes /\ ~t.done /\ t.answer = "none" => dest = {}
    PROVE  Sound(s, t, dest, requests')
<1> DEFINE m == [subject |-> s, op |-> t.op, part |-> t.part]
<1>1. CASE requests' = requests
  BY <1>1
<1>2. CASE /\ requests' = requests \union {m}
           /\ t.op \in Sent /\ ~t.done /\ t.answer = "none"
  <2>1. Expected(s, t)
    BY DEF Sound
  <2>2. Expected(s, m)
    BY <2>1 DEF Expected
  <2>3. Pending(s, requests') => Pending(s, requests) \/ t.op \in Writes
    BY <1>2 DEF Pending
  <2>4. \A r \in requests' : r.subject = s => Expected(s, r)
    BY <1>2, <2>2 DEF Sound
  <2>5. t.op \in Writes => t.verdict = "none" /\ dest = {}
    BY <1>2 DEF Sound, Writes
  <2>6. Unwritten(t) =>
           ~Pending(s, requests') /\ (dest = {} \/ t.verdict = "Completed")
    BY <1>2, <2>3, <2>5 DEF Sound, Unwritten
  <2>7. Pending(s, requests') => /\ dest = {}
                                 /\ t.verdict /= "Completed"
                                 /\ t.op \in Writes => t.answer = "none"
    BY <1>2, <2>3, <2>5 DEF Sound
  <2> QED
    BY <2>1, <2>4, <2>6, <2>7 DEF Sound
<1> QED
  BY <1>1, <1>2 DEF Becomes

\* A task that fails, or is rejected when its write was, stays in order.
LEMMA EndsSound ==
    ASSUME NEW s \in Subjects, NEW t \in TaskSet, NEW dest, NEW sent,
           Sound(s, t, dest, sent), ~t.done, t.op /= "abort",
           NEW verdict \in Verdicts,
           verdict = "Completed" =>
              t.op \in Writes /\ dest = Parts(s) /\ ~Pending(s, sent),
           verdict = "Rejected" => ~Pending(s, sent) /\ dest = {}
    PROVE  /\ Ends(t, verdict) \in TaskSet
           /\ Sound(s, Ends(t, verdict), dest, sent)
<1> DEFINE e == Ends(t, verdict)
<1>1. CASE Initiated(t) /\ verdict /= "Completed"
  <2>1. e = [op |-> "abort", part |-> 0, answer |-> "none",
             verdict |-> verdict, done |-> FALSE]
    BY <1>1 DEF Ends, Asks, TaskSet
  <2>2. Expected(s, e)
    BY <1>1, <2>1 DEF Sound, Expected, Initiated
  <2> QED
    BY <1>1, <2>1, <2>2
    DEF Sound, Unwritten, Writes, TaskSet, Ops, Sent, Answers, Verdicts
<1>2. CASE ~(Initiated(t) /\ verdict /= "Completed")
  <2>1. e = [op |-> t.op, part |-> t.part, answer |-> t.answer,
             verdict |-> verdict, done |-> TRUE]
    BY <1>2 DEF Ends, TaskSet
  <2>2. Expected(s, e)
    BY <2>1 DEF Sound, Expected
  <2>3. t.verdict = "none"
    BY DEF Sound
  <2>4. Unwritten(e) =>
           ~Pending(s, sent) /\ (dest = {} \/ e.verdict = "Completed")
    BY <2>1, <2>3 DEF Sound, Unwritten
  <2>5. Pending(s, sent) => /\ dest = {}
                            /\ e.verdict /= "Completed"
                            /\ e.op \in Writes => e.answer = "none"
    BY <2>1 DEF Sound
  <2>6. e \in TaskSet
    BY <2>1 DEF TaskSet
  <2> QED
    BY <2>1, <2>2, <2>4, <2>5, <2>6 DEF Sound, Verdicts, Writes
<1> QED
  BY <1>1, <1>2

\* A task that stops waiting knows nothing, and stays in order.
LEMMA GivenUpSound ==
    ASSUME NEW s \in Subjects, NEW t \in TaskSet, NEW dest, NEW sent,
           Sound(s, t, dest, sent), ~t.done, t.op /= "abort",
           NEW verdict \in {"Failed", "Cancelled"}
    PROVE  /\ GivenUp(t, verdict) \in TaskSet
           /\ Sound(s, GivenUp(t, verdict), dest, sent)
<1> DEFINE u == [t EXCEPT !.answer = "none"]
<1>1. u = [op |-> t.op, part |-> t.part, answer |-> "none",
           verdict |-> t.verdict, done |-> t.done]
  BY DEF TaskSet
<1>2. u \in TaskSet
  BY <1>1 DEF TaskSet, Answers
<1>3. Sound(s, u, dest, sent)
  BY <1>1 DEF Sound, Unwritten, Expected
<1> QED
  BY <1>1, <1>2, <1>3, EndsSound DEF GivenUp, Verdicts

(***************************************************************************)
(* What a step of a task leaves to the others                              *)
(***************************************************************************)
\* The subjects are independent: a step that changes one of them, running
\* or not, and leaves it in order, leaves the whole batch in order.
LEMMA SubjectStepKeeps ==
    ASSUME IInv, NEW s \in Subjects, UNCHANGED batch,
           NEW t \in TaskSet, t = tasks[s] \/ Running(s),
           tasks' = [tasks EXCEPT ![s] = t],
           requests' \subseteq [subject : Subjects, op : Sent, part : Nat],
           \A n \in requests' : n.subject /= s => n \in requests,
           NEW dest \in SUBSET Nat,
           published' = [published EXCEPT ![s] = dest],
           Sound(s, t, dest, requests')
    PROVE  IInv'
<1>1. TypeInv'
  BY DEF IInv, TypeInv, batch, Subjects
<1>2. SubjectsSound'
  <2> SUFFICES ASSUME NEW r \in Subjects
               PROVE  Sound(r, tasks[r], published[r], requests)'
    BY DEF SubjectsSound, batch, Subjects
  <2>1. CASE r = s
    <3>1. tasks'[r] = t /\ published'[r] = dest
      BY <2>1 DEF IInv, TypeInv
    <3> QED
      BY <2>1, <3>1 DEF Sound, Expected, Parts, Pending, Unwritten, batch
  <2>2. CASE r /= s
    <3>1. tasks'[r] = tasks[r] /\ published'[r] = published[r]
      BY <2>2 DEF IInv, TypeInv
    <3>2. Pending(r, requests') => Pending(r, requests)
      BY <2>2 DEF Pending
    <3>3. Sound(r, tasks[r], published[r], requests)
      BY DEF IInv, SubjectsSound
    <3>4. Sound(r, tasks[r], published[r], requests')
      BY <2>2, <3>2, <3>3 DEF Sound
    <3> QED
      BY <3>1, <3>4 DEF Sound, Expected, Parts, Pending, Unwritten, batch
  <2> QED
    BY <2>1, <2>2
<1>3. WavesInOrder'
  <2> SUFFICES ASSUME NEW r \in Subjects
               PROVE  /\ r <= offset =>
                            tasks'[r].done /\ results[r] = tasks'[r].verdict
                      /\ r > Frontier => tasks'[r] = NewTask
                      /\ r > offset => IF stage = "returned"
                                       THEN results[r] \in {"Cancelled", "Failed"}
                                       ELSE results[r] = "none"
    BY DEF WavesInOrder, batch, Subjects, Frontier, WaveEnd
  <2>1. CASE tasks'[r] = tasks[r]
    BY <2>1 DEF IInv, WavesInOrder
  <2>2. CASE r = s /\ Running(s)
    <3>1. stage = "join" /\ r \in offset + 1..WaveEnd
      BY <2>2 DEF Running, Wave
    <3>2. offset \in Nat /\ WaveEnd \in Int /\ r \in Nat
      BY PlanFacts, ClientAssumption DEF IInv, TypeInv, WaveEnd
    <3> QED
      BY <3>1, <3>2 DEF IInv, WavesInOrder, Frontier
  <2> QED
    BY <2>1, <2>2 DEF IInv, TypeInv
<1> QED
  BY <1>1, <1>2, <1>3 DEF IInv

LEMMA TaskStepKeeps ==
    ASSUME IInv, NEW s \in Subjects, Running(s), UNCHANGED batch,
           NEW t \in TaskSet, Becomes(s, t), NEW dest \in SUBSET Nat,
           published' = [published EXCEPT ![s] = dest],
           Sound(s, t, dest, requests')
    PROVE  IInv'
<1> DEFINE m == [subject |-> s, op |-> t.op, part |-> t.part]
<1>1. /\ tasks' = [tasks EXCEPT ![s] = t]
      /\ requests' \subseteq requests \union {m}
      /\ m \notin requests' \/ m \in requests \/ t.op \in Sent
  BY DEF Becomes
<1>2. requests' \subseteq [subject : Subjects, op : Sent, part : Nat]
  BY <1>1 DEF IInv, TypeInv, TaskSet
<1>3. \A n \in requests' : n.subject /= s => n \in requests
  BY <1>1
<1> QED
  BY <1>1, <1>2, <1>3, SubjectStepKeeps

\* The same for a step that leaves the destination alone.
LEMMA QuietStepKeeps ==
    ASSUME IInv, NEW s \in Subjects, Running(s), UNCHANGED <<batch, published>>,
           NEW t \in TaskSet, Becomes(s, t),
           Sound(s, t, published[s], requests),
           t.op \in Writes /\ ~t.done /\ t.answer = "none" => published[s] = {}
    PROVE  IInv'
<1>1. published[s] \in SUBSET Nat
  BY DEF IInv, TypeInv
<1>2. published' = [published EXCEPT ![s] = published[s]]
  BY DEF IInv, TypeInv
<1>3. Sound(s, t, published[s], requests')
  BY SendingSound DEF IInv
<1> QED
  BY <1>1, <1>2, <1>3, TaskStepKeeps

(***************************************************************************)
(* The steps of a task                                                     *)
(***************************************************************************)
LEMMA TaskFacts ==
    ASSUME IInv, NEW s \in Subjects
    PROVE  /\ tasks[s] \in TaskSet
           /\ published[s] \in SUBSET Nat
           /\ Sound(s, tasks[s], published[s], requests)
BY DEF IInv, TypeInv, SubjectsSound

\* The request of a task that goes on: one that has not written yet asks for
\* the next thing, in order.
LEMMA AskingSound ==
    ASSUME IInv, NEW s \in Subjects, NEW t \in TaskSet,
           Sound(s, t, published[s], requests),
           ~t.done, t.op \notin Writes \union {"abort"},
           NEW op \in Sent \union {"body"}, op /= "abort",
           NEW part \in Nat, op = "create" => part = 0,
           op \in {"part", "body"} => part <= plan[s].parts,
           Expected(s, [op |-> op, part |-> part])
    PROVE  /\ Asks(t, op, part) \in TaskSet
           /\ Sound(s, Asks(t, op, part), published[s], requests)
           /\ published[s] = {}
<1> DEFINE a == Asks(t, op, part)
<1>1. /\ a.op = op /\ a.part = part /\ a.answer = "none"
      /\ a.verdict = t.verdict /\ a.done = t.done
  BY DEF Asks, TaskSet
<1>2. a \in TaskSet
  BY DEF Asks, TaskSet, Ops, Answers
<1>3. t.verdict = "none" /\ Unwritten(t)
  BY DEF Sound, Unwritten
<1>4. published[s] = {} /\ ~Pending(s, requests)
  BY <1>3 DEF Sound
<1>5. Expected(s, a)
  BY <1>1 DEF Expected
<1> QED
  BY <1>1, <1>2, <1>3, <1>4, <1>5 DEF Sound

LEMMA BeginKeeps ==
    ASSUME IInv, NEW s \in Subjects, Begin(s)
    PROVE  IInv'
<1> DEFINE t == tasks[s]
<1>1. /\ Running(s) /\ ~t.done /\ t.op = "none"
      /\ UNCHANGED <<batch, published>>
  BY DEF Begin, Running, server
<1>2. t \in TaskSet /\ Sound(s, t, published[s], requests)
  BY TaskFacts
<1>3. CASE Becomes(s, Asks(t, FirstRequest(s), 0))
  <2>1. plan[s].kind \in Kinds
    BY PlanFacts DEF IInv
  <2>2. \/ plan[s].kind = "put" /\ FirstRequest(s) = "put"
        \/ plan[s].kind = "multipart" /\ FirstRequest(s) = "create"
        \/ plan[s].kind = "download" /\ FirstRequest(s) = "get"
    BY <2>1 DEF FirstRequest, Kinds
  <2>3. Expected(s, [op |-> FirstRequest(s), part |-> 0])
    BY <2>2 DEF Expected
  <2>4. /\ Asks(t, FirstRequest(s), 0) \in TaskSet
        /\ Sound(s, Asks(t, FirstRequest(s), 0), published[s], requests)
        /\ published[s] = {}
    BY <1>1, <1>2, <2>2, <2>3, AskingSound DEF Sent, Writes
  <2> QED
    BY <1>1, <1>3, <2>4, QuietStepKeeps
<1>4. ASSUME NEW v \in {"Cancelled", "Failed"}, Becomes(s, Ends(t, v))
      PROVE  IInv'
  <2>1. Ends(t, v) \in TaskSet /\ Sound(s, Ends(t, v), published[s], requests)
    BY <1>1, <1>2, EndsSound DEF Verdicts
  <2>2. Ends(t, v).op \notin Writes
    BY <1>1, <1>2 DEF Ends, Initiated, Writes, TaskSet
  <2> QED
    BY <1>1, <1>4, <2>1, <2>2, QuietStepKeeps
<1> QED
  BY <1>3, <1>4 DEF Begin

\* A task that gives up its request.
LEMMA GivingUpKeeps ==
    ASSUME IInv, NEW s \in Subjects, Running(s), tasks[s].op /= "abort",
           NEW v \in {"Cancelled", "Failed"}, Becomes(s, GivenUp(tasks[s], v)),
           UNCHANGED <<batch, published>>
    PROVE  IInv'
<1> DEFINE t == tasks[s]  g == GivenUp(t, v)
<1>1. ~t.done
  BY DEF Running
<1>2. t \in TaskSet /\ Sound(s, t, published[s], requests)
  BY TaskFacts
<1>3. g \in TaskSet /\ Sound(s, g, published[s], requests)
  BY <1>1, <1>2, GivenUpSound
<1>4. g.op \in Writes => g.done
  BY <1>2 DEF GivenUp, Ends, Initiated, Asks, Writes, TaskSet
<1> QED
  BY <1>3, <1>4, QuietStepKeeps

LEMMA InterruptKeeps ==
    ASSUME IInv, NEW s \in Subjects, Interrupt(s)
    PROVE  IInv'
BY GivingUpKeeps DEF Interrupt, server

LEMMA FailKeeps ==
    ASSUME IInv, NEW s \in Subjects, Fail(s)
    PROVE  IInv'
BY GivingUpKeeps DEF Fail, server

\* An abort that is over.
LEMMA AbortedSound ==
    ASSUME NEW s \in Subjects, NEW t \in TaskSet, NEW dest, NEW sent,
           Sound(s, t, dest, sent), t.op = "abort"
    PROVE  LET c == [t EXCEPT !.done = TRUE]
           IN  c \in TaskSet /\ c.op = "abort" /\ Sound(s, c, dest, sent)
<1> DEFINE c == [t EXCEPT !.done = TRUE]
<1>1. /\ c.op = t.op /\ c.part = t.part /\ c.answer = t.answer
      /\ c.verdict = t.verdict /\ c.done = TRUE
  BY DEF TaskSet
<1>2. c \in TaskSet
  BY DEF TaskSet
<1>3. Sound(s, c, dest, sent)
  BY <1>1 DEF Sound, Expected, Unwritten, Writes
<1> QED
  BY <1>1, <1>2, <1>3

LEMMA CleanedUpKeeps ==
    ASSUME IInv, NEW s \in Subjects, CleanedUp(s)
    PROVE  IInv'
<1> DEFINE t == tasks[s]  c == [t EXCEPT !.done = TRUE]
<1>1. t \in TaskSet /\ Sound(s, t, published[s], requests)
  BY TaskFacts
<1>2. /\ c \in TaskSet /\ c.op = "abort"
      /\ Sound(s, c, published[s], requests)
  BY <1>1, AbortedSound DEF CleanedUp
<1> QED
  BY <1>2, QuietStepKeeps DEF CleanedUp, server, Writes

\* A file that cannot be closed makes a failure of an upload that is at its
\* destination, or of a rejected one.
LEMMA CloseFailsKeeps ==
    ASSUME IInv, NEW s \in Subjects, CloseFails(s)
    PROVE  IInv'
<1> DEFINE t == tasks[s]  c == [t EXCEPT !.verdict = "Failed", !.done = TRUE]
<1>1. /\ t \in TaskSet /\ Sound(s, t, published[s], requests)
      /\ Running(s) /\ ~t.done /\ Becomes(s, c)
      /\ UNCHANGED <<batch, published>>
      /\ \/ t.op \in Writes /\ t.answer = "ok"
         \/ t.op = "abort" /\ t.verdict = "Rejected"
  BY TaskFacts DEF CloseFails, Running, Writes, server
<1>2. /\ c.op = t.op /\ c.part = t.part /\ c.answer = t.answer
      /\ c.verdict = "Failed" /\ c.done = TRUE /\ c \in TaskSet
  BY <1>1 DEF TaskSet, Verdicts
<1> HIDE DEF c
<1>3. Expected(s, c)
  BY <1>1, <1>2 DEF Sound, Expected
<1>4. ~Unwritten(c)
  BY <1>1, <1>2 DEF Unwritten, Writes
<1>5. Sound(s, c, published[s], requests)
  BY <1>1, <1>2, <1>3, <1>4 DEF Sound, Writes
<1> QED
  BY <1>1, <1>2, <1>5, QuietStepKeeps

\* After a part comes the next one, and after the last one the completion.
LEMMA AfterPartSound ==
    ASSUME IInv, NEW s \in Subjects, NEW t \in TaskSet,
           Sound(s, t, published[s], requests), ~t.done, t.op = "part"
    PROVE  /\ AfterPart(s, t) \in TaskSet
           /\ Sound(s, AfterPart(s, t), published[s], requests)
           /\ published[s] = {}
<1>1. /\ t.part \in Nat /\ t.part <= plan[s].parts
      /\ plan[s].parts \in Nat /\ plan[s].kind = "multipart"
  BY PlanFacts DEF IInv, TaskSet, Sound, Expected
<1>2. CASE t.part < plan[s].parts
  <2>1. t.part + 1 \in Nat /\ t.part + 1 <= plan[s].parts
    BY <1>1, <1>2
  <2>2. Expected(s, [op |-> "part", part |-> t.part + 1])
    BY <1>1 DEF Expected
  <2>3. /\ Asks(t, "part", t.part + 1) \in TaskSet
        /\ Sound(s, Asks(t, "part", t.part + 1), published[s], requests)
        /\ published[s] = {}
    BY <2>1, <2>2, AskingSound DEF Sent, Writes
  <2> QED
    BY <1>2, <2>3, EndsSound DEF AfterPart, NextRequest, Verdicts
<1>3. CASE ~(t.part < plan[s].parts)
  <2>1. t.part = plan[s].parts
    BY <1>1, <1>3
  <2>2. Expected(s, [op |-> "complete", part |-> t.part])
    BY <1>1, <2>1 DEF Expected
  <2>3. /\ Asks(t, "complete", t.part) \in TaskSet
        /\ Sound(s, Asks(t, "complete", t.part), published[s], requests)
        /\ published[s] = {}
    BY <1>1, <2>2, AskingSound DEF Sent, Writes
  <2> QED
    BY <1>3, <2>3, EndsSound DEF AfterPart, NextRequest, Verdicts
<1> QED
  BY <1>2, <1>3

\* An upload that was created starts with its first part.
LEMMA CreatedSound ==
    ASSUME IInv, NEW s \in Subjects, NEW t \in TaskSet,
           Sound(s, t, published[s], requests), ~t.done, t.op = "create"
    PROVE  LET u == [t EXCEPT !.op = "part"]
           IN  /\ u \in TaskSet /\ u.op = "part" /\ ~u.done
               /\ Sound(s, u, published[s], requests)
<1> DEFINE u == [t EXCEPT !.op = "part"]
<1>1. /\ u.op = "part" /\ u.part = t.part /\ u.answer = t.answer
      /\ u.verdict = t.verdict /\ u.done = t.done
  BY DEF TaskSet
<1>2. u \in TaskSet
  BY DEF TaskSet, Ops, Sent
<1>3. plan[s].parts \in Nat /\ t.part = 0 /\ plan[s].kind = "multipart"
  BY PlanFacts DEF IInv, Sound, Expected
<1>4. Unwritten(t)
  BY DEF Unwritten, Writes
<1>5. Sound(s, u, published[s], requests)
  BY <1>1, <1>3, <1>4 DEF Sound, Expected, Writes
<1> QED
  BY <1>1, <1>2, <1>5

LEMMA ReceiveKeeps ==
    ASSUME IInv, NEW s \in Subjects, Receive(s)
    PROVE  IInv'
<1> DEFINE t == tasks[s]
<1>1. /\ Running(s) /\ ~t.done /\ t.answer /= "none" /\ t.op /= "abort"
      /\ UNCHANGED <<batch, published>>
  BY DEF Receive, Running, server
<1>2. t \in TaskSet /\ Sound(s, t, published[s], requests)
  BY TaskFacts
<1>3. CASE t.op = "create" /\ Becomes(s, AfterPart(s, [t EXCEPT !.op = "part"]))
  <2> DEFINE u == [t EXCEPT !.op = "part"]
  <2>1. /\ u \in TaskSet /\ u.op = "part" /\ ~u.done
        /\ Sound(s, u, published[s], requests)
    BY <1>1, <1>2, <1>3, CreatedSound
  <2>2. /\ AfterPart(s, u) \in TaskSet
        /\ Sound(s, AfterPart(s, u), published[s], requests)
        /\ published[s] = {}
    BY <2>1, AfterPartSound
  <2> QED
    BY <1>1, <1>3, <2>2, QuietStepKeeps
<1>4. CASE t.op = "part" /\ Becomes(s, AfterPart(s, t))
  BY <1>1, <1>2, <1>4, AfterPartSound, QuietStepKeeps
<1>5. CASE /\ t.op \in Writes /\ t.answer = "ok"
           /\ Becomes(s, Ends(t, "Completed"))
  <2>1. published[s] = Parts(s) /\ ~Pending(s, requests)
    BY <1>2, <1>5 DEF Sound
  <2>2. /\ Ends(t, "Completed") \in TaskSet
        /\ Sound(s, Ends(t, "Completed"), published[s], requests)
    BY <1>1, <1>2, <1>5, <2>1, EndsSound DEF Verdicts
  <2>3. Ends(t, "Completed").done
    BY <1>2 DEF Ends, TaskSet
  <2> QED
    BY <1>1, <1>5, <2>2, <2>3, QuietStepKeeps
<1>6. CASE t.op = "get" /\ Becomes(s, Asks(t, "body", 0))
  <2>1. plan[s].parts \in Nat /\ plan[s].kind = "download"
    BY <1>2, <1>6, PlanFacts DEF IInv, Sound, Expected
  <2>2. Expected(s, [op |-> "body", part |-> 0]) /\ 0 <= plan[s].parts
    BY <2>1 DEF Expected
  <2>3. /\ Asks(t, "body", 0) \in TaskSet
        /\ Sound(s, Asks(t, "body", 0), published[s], requests)
        /\ published[s] = {}
    BY <1>1, <1>2, <1>6, <2>2, AskingSound DEF Writes
  <2> QED
    BY <1>1, <1>6, <2>3, QuietStepKeeps
<1>7. CASE t.answer /= "ok" /\ Becomes(s, Ends(t, Verdict(t.answer)))
  <2> DEFINE v == Verdict(t.answer)
  <2>1. v \in Verdicts /\ v /= "Completed"
    BY DEF Verdict, Verdicts
  <2>2. v = "Rejected" => Unwritten(t) /\ t.verdict = "none"
    BY <1>1, <1>2 DEF Verdict, Unwritten, Sound
  <2>3. v = "Rejected" => ~Pending(s, requests) /\ published[s] = {}
    BY <1>2, <2>2 DEF Sound
  <2>4. Ends(t, v) \in TaskSet /\ Sound(s, Ends(t, v), published[s], requests)
    BY <1>1, <1>2, <2>1, <2>3, EndsSound
  <2>5. Ends(t, v).op \in Writes => Ends(t, v).done
    BY <1>2 DEF Ends, Initiated, Asks, Writes, TaskSet
  <2> QED
    BY <1>1, <1>7, <2>4, <2>5, QuietStepKeeps
<1> QED
  BY <1>3, <1>4, <1>5, <1>6, <1>7 DEF Receive, Writes

\* A download that read its whole body replaces its destination.
LEMMA DownloadedSound ==
    ASSUME IInv, NEW s \in Subjects, NEW t \in TaskSet,
           Sound(s, t, published[s], requests), ~t.done, t.op = "body"
    PROVE  /\ Ends(t, "Completed") \in TaskSet
           /\ Ends(t, "Completed").op = "body"
           /\ Sound(s, Ends(t, "Completed"), Parts(s), requests)
<1> DEFINE e == Ends(t, "Completed")
<1>1. /\ e.op = t.op /\ e.part = t.part /\ e.answer = t.answer
      /\ e.verdict = "Completed" /\ e.done = TRUE
  BY DEF Ends, TaskSet
<1>2. e \in TaskSet
  BY DEF Ends, TaskSet, Verdicts
<1>3. ~Pending(s, requests)
  BY DEF Sound, Unwritten, Writes
<1> QED
  BY <1>1, <1>2, <1>3 DEF Sound, Expected, Writes

\* A piece of the body that is read keeps a download in order.
LEMMA PieceSound ==
    ASSUME IInv, NEW s \in Subjects, NEW t \in TaskSet,
           Sound(s, t, published[s], requests), ~t.done, t.op = "body",
           t.part < plan[s].parts
    PROVE  LET u == [t EXCEPT !.part = @ + 1]
           IN  /\ u \in TaskSet /\ u.op = "body"
               /\ Sound(s, u, published[s], requests)
<1> DEFINE u == [t EXCEPT !.part = @ + 1]
<1>1. /\ u.op = t.op /\ u.part = t.part + 1 /\ u.answer = t.answer
      /\ u.verdict = t.verdict /\ u.done = t.done
  BY DEF TaskSet
<1>2. u \in TaskSet
  BY DEF TaskSet
<1>3. t.part \in Nat /\ plan[s].parts \in Nat
  BY PlanFacts DEF IInv, TaskSet
<1>4. u.part <= plan[s].parts
  BY <1>1, <1>3
<1>5. Unwritten(t)
  BY DEF Unwritten, Writes
<1> QED
  BY <1>1, <1>2, <1>4, <1>5 DEF Sound, Expected, Writes

LEMMA ReadBodyKeeps ==
    ASSUME IInv, NEW s \in Subjects, ReadBody(s)
    PROVE  IInv'
<1> DEFINE t == tasks[s]
<1>1. Running(s) /\ ~t.done /\ t.op = "body" /\ UNCHANGED batch
  BY DEF ReadBody, Running
<1>2. t \in TaskSet /\ Sound(s, t, published[s], requests)
  BY TaskFacts
<1>3. CASE /\ t.part < plan[s].parts
           /\ Becomes(s, [t EXCEPT !.part = @ + 1])
           /\ UNCHANGED published
  <2> DEFINE u == [t EXCEPT !.part = @ + 1]
  <2>1. /\ u \in TaskSet /\ u.op = "body"
        /\ Sound(s, u, published[s], requests)
    BY <1>1, <1>2, <1>3, PieceSound
  <2> QED
    BY <1>1, <1>3, <2>1, QuietStepKeeps DEF Writes
<1>4. CASE /\ t.part = plan[s].parts
           /\ published' = [published EXCEPT ![s] = 1..t.part]
           /\ Becomes(s, Ends(t, "Completed"))
  <2> DEFINE e == Ends(t, "Completed")
  <2>1. e \in TaskSet /\ e.op = "body" /\ Sound(s, e, Parts(s), requests)
    BY <1>1, <1>2, DownloadedSound
  <2>2. Sound(s, e, Parts(s), requests')
    BY <1>4, <2>1, SendingSound DEF Writes, IInv
  <2>3. 1..t.part = Parts(s)
    BY <1>4 DEF Parts
  <2>4. Parts(s) \in SUBSET Nat
    BY DEF Parts
  <2> QED
    BY <1>1, <1>4, <2>1, <2>2, <2>3, <2>4, TaskStepKeeps
<1>5. CASE Becomes(s, Ends(t, "Failed")) /\ UNCHANGED published
  <2>1. /\ Ends(t, "Failed") \in TaskSet
        /\ Sound(s, Ends(t, "Failed"), published[s], requests)
    BY <1>1, <1>2, EndsSound DEF Verdicts
  <2>2. Ends(t, "Failed").op \notin Writes
    BY <1>1, <1>2 DEF Ends, Initiated, Writes, TaskSet
  <2> QED
    BY <1>1, <1>5, <2>1, <2>2, QuietStepKeeps
<1>6. BodyWhole(s, t) /\ (t.part = plan[s].parts \/ plan[s].sized)
        => t.part = plan[s].parts
  BY DEF BodyWhole
<1> QED
  BY <1>3, <1>4, <1>5, <1>6 DEF ReadBody

(***************************************************************************)
(* The steps of the server and the transport                               *)
(***************************************************************************)
\* Only one request of a subject writes its destination.
LEMMA OneWrite ==
    ASSUME IInv, NEW m \in requests, NEW n \in requests,
           m.op \in Writes, n.op \in Writes, n.subject = m.subject
    PROVE  n = m
<1>1. m \in [subject : Subjects, op : Sent, part : Nat]
  BY DEF IInv, TypeInv
<1>2. n \in [subject : Subjects, op : Sent, part : Nat]
  BY DEF IInv, TypeInv
<1>3. Expected(m.subject, m) /\ Expected(m.subject, n)
  BY <1>1 DEF IInv, SubjectsSound, Sound
<1>4. m.op = n.op /\ m.part = n.part
  BY <1>3 DEF Expected, Writes
<1> QED
  BY <1>1, <1>2, <1>4

\* A write that arrives finds its destination empty, and it is the last one.
LEMMA WriteAnswered ==
    ASSUME IInv, NEW m \in requests, m.op \in Writes, m.subject \in Subjects,
           NEW t \in TaskSet, NEW answer \in {"ok", "invalid", "refused"},
           t = tasks[m.subject] \/
              t = [tasks[m.subject] EXCEPT !.answer = answer],
           NEW dest,
           dest = IF answer = "refused" THEN published[m.subject]
                  ELSE Parts(m.subject)
    PROVE  Sound(m.subject, t, dest, requests \ {m})
<1> DEFINE s == m.subject  old == tasks[s]  left == requests \ {m}
<1>1. old \in TaskSet /\ Sound(s, old, published[s], requests)
  BY TaskFacts
<1>2. /\ t.op = old.op /\ t.part = old.part /\ t.verdict = old.verdict
      /\ t.done = old.done /\ t.answer \in {old.answer, answer}
  BY <1>1 DEF TaskSet
<1>3. Pending(s, requests)
  BY DEF Pending
<1>4. ~Pending(s, left)
  BY OneWrite DEF Pending
<1>5. /\ published[s] = {} /\ old.verdict /= "Completed"
      /\ ~Unwritten(old)
      /\ old.op \in Writes => old.answer = "none"
  BY <1>1, <1>3 DEF Sound
<1>6. Unwritten(t) => dest = {}
  BY <1>2, <1>5 DEF Unwritten
<1>7. t.answer = "ok" /\ t.op \in Writes => dest = Parts(s)
  BY <1>2, <1>5
<1>8. \A n \in left : n.subject = s => Expected(s, n)
  BY <1>1 DEF Sound
<1>9. Expected(s, t)
  BY <1>1, <1>2 DEF Sound, Expected
<1> QED
  BY <1>1, <1>2, <1>4, <1>5, <1>6, <1>7, <1>8, <1>9 DEF Sound

\* Any other answer says nothing about the destination.
LEMMA OtherAnswered ==
    ASSUME IInv, NEW m \in requests, m.subject \in Subjects,
           NEW t \in TaskSet, NEW answer,
           \/ t = tasks[m.subject]
           \/ /\ t = [tasks[m.subject] EXCEPT !.answer = answer]
              /\ tasks[m.subject].op \notin Writes
    PROVE  Sound(m.subject, t, published[m.subject], requests \ {m})
<1> DEFINE s == m.subject  old == tasks[s]  left == requests \ {m}
<1>1. old \in TaskSet /\ Sound(s, old, published[s], requests)
  BY TaskFacts
<1>2. /\ t.op = old.op /\ t.part = old.part /\ t.verdict = old.verdict
      /\ t.done = old.done /\ (t.op \in Writes => t.answer = old.answer)
  BY <1>1 DEF TaskSet
<1>3. Pending(s, left) => Pending(s, requests)
  BY DEF Pending
<1>4. Unwritten(t) => Unwritten(old)
  BY <1>2 DEF Unwritten
<1>5. \A n \in left : n.subject = s => Expected(s, n)
  BY <1>1 DEF Sound
<1>6. Expected(s, t)
  BY <1>1, <1>2 DEF Sound, Expected
<1> QED
  BY <1>1, <1>2, <1>3, <1>4, <1>5, <1>6 DEF Sound

LEMMA AnswerKeeps ==
    ASSUME IInv, UNCHANGED batch, NEW m \in requests,
           NEW answer \in {"ok", "invalid", "refused"}, Answer(m, answer),
           NEW dest, published' = [published EXCEPT ![m.subject] = dest],
           dest = IF answer = "refused" \/ m.op \notin Writes
                  THEN published[m.subject] ELSE Parts(m.subject)
    PROVE  IInv'
<1> DEFINE s == m.subject
           t == IF Awaited(m) THEN [tasks[s] EXCEPT !.answer = answer]
                ELSE tasks[s]
<1>1. s \in Subjects
  BY DEF IInv, TypeInv
<1>2. tasks[s] \in TaskSet /\ published[s] \in SUBSET Nat
  BY <1>1, TaskFacts
<1>3. t \in TaskSet
  BY <1>2 DEF TaskSet, Answers
<1>4. Awaited(m) => Running(s) /\ tasks[s].op = m.op
  BY DEF Awaited
<1>5. tasks' = [tasks EXCEPT ![s] = t]
  BY <1>1 DEF Answer, IInv, TypeInv
<1>6. requests' = requests \ {m}
  BY DEF Answer
<1>7. Sound(s, t, dest, requests')
  <2>1. CASE m.op \in Writes
    BY <1>1, <1>3, <1>6, <2>1, WriteAnswered
  <2>2. CASE m.op \notin Writes
    BY <1>1, <1>3, <1>4, <1>6, <2>2, OtherAnswered
  <2> QED
    BY <2>1, <2>2
<1>8. dest \in SUBSET Nat
  BY <1>2 DEF Parts
<1>9. requests' \subseteq [subject : Subjects, op : Sent, part : Nat]
  BY <1>6 DEF IInv, TypeInv
<1> QED
  BY <1>1, <1>3, <1>4, <1>5, <1>6, <1>7, <1>8, <1>9, SubjectStepKeeps

LEMMA ServeKeeps ==
    ASSUME IInv, NEW m \in requests, Serve(m)
    PROVE  IInv'
<1> DEFINE s == m.subject
<1>1. s \in Subjects /\ UNCHANGED batch
  BY DEF IInv, TypeInv, Serve
<1>2. Delivered(m) = IF m.op \in Writes THEN Parts(s) ELSE published[s]
  <2>1. Expected(s, m)
    BY <1>1 DEF IInv, SubjectsSound, Sound
  <2> QED
    BY <2>1 DEF Delivered, Expected, Parts, Writes
<1>3. ASSUME NEW answer \in {"ok", "invalid"}, Answer(m, answer),
             published' = [published EXCEPT ![s] = Delivered(m)]
      PROVE  IInv'
  BY <1>1, <1>2, <1>3, AnswerKeeps
<1>4. ASSUME Answer(m, "refused"), UNCHANGED published
      PROVE  IInv'
  <2>1. published' = [published EXCEPT ![s] = published[s]]
    BY <1>1, <1>4 DEF IInv, TypeInv
  <2> QED
    BY <1>1, <1>4, <2>1, AnswerKeeps
<1> QED
  BY <1>3, <1>4 DEF Serve, server

LEMMA LoseKeeps ==
    ASSUME IInv, NEW m \in requests, Lose(m)
    PROVE  IInv'
<1> DEFINE s == m.subject
<1>1. s \in Subjects
  BY DEF IInv, TypeInv
<1>2. tasks[s] \in TaskSet /\ published[s] \in SUBSET Nat
  BY <1>1, TaskFacts
<1>3. /\ UNCHANGED batch
      /\ tasks' = [tasks EXCEPT ![s] = tasks[s]]
      /\ published' = [published EXCEPT ![s] = published[s]]
      /\ requests' = requests \ {m}
  BY <1>1 DEF Lose, server, IInv, TypeInv
<1>4. Sound(s, tasks[s], published[s], requests')
  BY <1>1, <1>2, <1>3, OtherAnswered
<1>5. requests' \subseteq [subject : Subjects, op : Sent, part : Nat]
  BY <1>3 DEF IInv, TypeInv
<1> QED
  BY <1>1, <1>2, <1>3, <1>4, <1>5, SubjectStepKeeps

(***************************************************************************)
(* The steps of the batch                                                  *)
(***************************************************************************)
\* A step that touches no subject keeps every subject in order.
LEMMA SubjectsUntouched ==
    ASSUME IInv, UNCHANGED <<plan, tasks, requests, published>>
    PROVE  SubjectsSound'
BY DEF IInv, SubjectsSound, Subjects, Sound, Expected, Parts, Pending, Unwritten

LEMMA IdleKeeps ==
    ASSUME IInv, UNCHANGED <<batch, tasks, requests, published>>
    PROVE  IInv'
<1>1. TypeInv'
  BY DEF IInv, TypeInv, batch, Subjects
<1>2. SubjectsSound'
  BY SubjectsUntouched DEF batch
<1>3. WavesInOrder'
  BY DEF IInv, WavesInOrder, batch, Subjects, Frontier, WaveEnd
<1> QED
  BY <1>1, <1>2, <1>3 DEF IInv

LEMMA WaveFacts ==
    ASSUME TypeInv
    PROVE  /\ Len(plan) \in Nat /\ Subjects = 1..Len(plan)
           /\ offset \in Nat /\ WaveEnd \in offset..Len(plan)
<1>1. Len(plan) \in Nat /\ Subjects = 1..Len(plan)
  BY ClientAssumption DEF TypeInv, Subjects
<1> QED
  BY <1>1, ClientAssumption DEF TypeInv, WaveEnd

LEMMA AdmitKeeps ==
    ASSUME IInv, Admit
    PROVE  IInv'
<1>1. UNCHANGED <<plan, mode, offset, tasks, requests, published>> /\ stage = "admit"
  BY DEF Admit, server
<1>2. SubjectsSound'
  BY <1>1, SubjectsUntouched
<1>3. /\ Len(plan) \in Nat /\ Subjects = 1..Len(plan)
      /\ offset \in Nat /\ WaveEnd \in offset..Len(plan)
  BY WaveFacts DEF IInv
<1>4. CASE /\ offset = 0 /\ stage' = "returned"
           /\ results' = MarkRemaining(results, 0, "Cancelled")
  <2>1. TypeInv'
    BY <1>1, <1>4 DEF IInv, TypeInv, MarkRemaining, Subjects, Verdicts
  <2>2. WavesInOrder'
    BY <1>1, <1>3, <1>4
    DEF IInv, WavesInOrder, Subjects, Frontier, MarkRemaining
  <2> QED
    BY <1>2, <2>1, <2>2 DEF IInv
<1>5. CASE stage' = "join" /\ UNCHANGED results
  <2>1. TypeInv'
    BY <1>1, <1>5 DEF IInv, TypeInv, Subjects
  <2>2. WaveEnd' = WaveEnd
    BY <1>1 DEF WaveEnd
  <2>3. WavesInOrder'
    BY <1>1, <1>3, <1>5, <2>2 DEF IInv, WavesInOrder, Subjects, Frontier
  <2> QED
    BY <1>2, <2>1, <2>3 DEF IInv
<1> QED
  BY <1>4, <1>5 DEF Admit

LEMMA JoinKeeps ==
    ASSUME IInv, Join
    PROVE  IInv'
<1> DEFINE known == [s \in Subjects |-> IF s \in Wave
                                        THEN tasks[s].verdict ELSE results[s]]
<1>1. /\ UNCHANGED <<plan, mode, tasks, requests, published>>
      /\ stage = "join" /\ WaveDone /\ offset' = WaveEnd
  BY DEF Join, server
<1>2. SubjectsSound'
  BY <1>1, SubjectsUntouched
<1>3. /\ Len(plan) \in Nat /\ Subjects = 1..Len(plan)
      /\ offset \in Nat /\ WaveEnd \in offset..Len(plan)
  BY WaveFacts DEF IInv
<1>4. known \in [Subjects -> Verdicts \union {"none"}]
  BY DEF IInv, TypeInv, TaskSet
<1>5. \A s \in Subjects :
          s <= WaveEnd => tasks[s].done /\ known[s] = tasks[s].verdict
  BY <1>1, <1>3 DEF IInv, WavesInOrder, WaveDone, Wave
<1>6. \A s \in Subjects :
          s > WaveEnd => tasks[s] = NewTask /\ known[s] = "none"
  BY <1>1, <1>3 DEF IInv, WavesInOrder, Frontier, Wave
<1>7. ASSUME NEW v \in {"Cancelled", "Failed"}, stage' = "returned",
             results' = MarkRemaining(known, WaveEnd, v)
      PROVE  IInv'
  <2>1. TypeInv'
    BY <1>1, <1>3, <1>4, <1>7
    DEF IInv, TypeInv, MarkRemaining, Subjects, Verdicts
  <2>2. \A s \in Subjects :
            results'[s] = IF s > WaveEnd THEN v ELSE known[s]
    BY <1>7 DEF MarkRemaining
  <2>3. WavesInOrder'
    BY <1>1, <1>3, <1>5, <1>6, <1>7, <2>2 DEF WavesInOrder, Subjects, Frontier
  <2> QED
    BY <1>2, <2>1, <2>3 DEF IInv
<1>8. ASSUME results' = known,
             stage' = IF WaveEnd < Len(plan) THEN "admit" ELSE "returned"
      PROVE  IInv'
  <2>1. TypeInv'
    BY <1>1, <1>3, <1>4, <1>8 DEF IInv, TypeInv, Subjects
  <2>2. WavesInOrder'
    BY <1>1, <1>3, <1>5, <1>6, <1>8 DEF WavesInOrder, Subjects, Frontier
  <2> QED
    BY <1>2, <2>1, <2>2 DEF IInv
<1> QED
  BY <1>7, <1>8 DEF Join

(***************************************************************************)
(* The theorems                                                            *)
(***************************************************************************)
LEMMA InitInv == Init => IInv
<1> SUFFICES ASSUME Init PROVE IInv
  OBVIOUS
<1>1. Len(plan) \in Nat /\ Subjects = 1..Len(plan)
  BY ClientAssumption DEF Init, Subjects
<1>2. TypeInv
  BY <1>1
  DEF Init, TypeInv, TaskSet, NewTask, Ops, Answers, Verdicts
<1>3. SubjectsSound
  BY DEF Init, SubjectsSound, Sound, NewTask, Expected, Unwritten, Pending,
         Writes
<1>4. WavesInOrder
  <2>1. plan = <<>> => Subjects = {}
    BY <1>1
  <2> QED
    BY <1>1, <2>1 DEF Init, WavesInOrder, Frontier
<1> QED
  BY <1>2, <1>3, <1>4 DEF IInv

LEMMA NextInv == IInv /\ [Next]_vars => IInv'
<1> SUFFICES ASSUME IInv, [Next]_vars PROVE IInv'
  OBVIOUS
<1>1. ASSUME NEW s \in Subjects, TaskStep(s) \/ Fail(s) \/ CloseFails(s)
      PROVE  IInv'
  BY <1>1, BeginKeeps, ReceiveKeeps, ReadBodyKeeps, InterruptKeeps,
     CleanedUpKeeps, FailKeeps, CloseFailsKeeps DEF TaskStep
<1>2. ASSUME NEW m \in requests, Serve(m) \/ Lose(m)
      PROVE  IInv'
  BY <1>2, ServeKeeps, LoseKeeps
<1>3. CASE Cancel
  BY <1>3, IdleKeeps DEF Cancel, server
<1>4. CASE Expire
  BY <1>4, IdleKeeps DEF Expire, server
<1>5. CASE Admit \/ Join
  BY <1>5, AdmitKeeps, JoinKeeps
<1>6. CASE UNCHANGED vars
  BY <1>6, IdleKeeps DEF vars, server
<1> QED
  BY <1>1, <1>2, <1>3, <1>4, <1>5, <1>6 DEF Next

\* The inductive invariant holds in every reachable state.
THEOREM BatchInv == Spec => []IInv
<1> QED
  BY InitInv, NextInv, PTL DEF Spec

\* Whatever the server, the network and the caller do, a subject that is
\* reported completed is at its destination with every part, and one that is
\* reported rejected, a download that did not complete and a subject that was
\* not begun have left their destination alone.
THEOREM ResultsAreTrue == Spec => []ResultsTrue
<1>1. ASSUME IInv PROVE ResultsTrue
  <2> SUFFICES ASSUME NEW s \in Subjects
               PROVE  /\ results[s] = "Completed" => published[s] = Parts(s)
                      /\ \/ results[s] = "Rejected"
                         \/ /\ plan[s].kind = "download"
                            /\ results[s] \notin {"none", "Completed"}
                         \/ tasks[s].op = "none"
                         => published[s] = {}
    BY DEF ResultsTrue
  <2> DEFINE t == tasks[s]
  <2>1. t \in TaskSet /\ Sound(s, t, published[s], requests)
    BY <1>1, TaskFacts
  <2>2. \/ results[s] = t.verdict
        \/ results[s] = "none"
        \/ results[s] \in {"Cancelled", "Failed"} /\ t = NewTask
    <3>1. s \in Nat /\ offset \in Nat
      BY <1>1, WaveFacts DEF IInv
    <3> QED
      BY <1>1, <3>1 DEF IInv, WavesInOrder, TypeInv, Frontier
  <2>3. t.verdict = "Completed" => published[s] = Parts(s)
    BY <2>1 DEF Sound
  <2>4. Unwritten(t) /\ t.verdict /= "Completed" => published[s] = {}
    BY <2>1 DEF Sound
  <2>5. plan[s].kind = "download" => t.op \notin Writes \union {"abort"}
    BY <2>1 DEF Sound, Expected, Writes
  <2>6. t.op = "none" => t.verdict /= "Completed"
    BY <2>1 DEF Sound
  <2> QED
    BY <2>1, <2>2, <2>3, <2>4, <2>5, <2>6 DEF Unwritten, NewTask, Writes
<1> QED
  BY <1>1, BatchInv, PTL

\* A batch that has returned has a result for each subject, and no task that
\* has begun is still at work.
THEOREM ReturnIsJoined == Spec => []JoinedReturn
<1>1. ASSUME IInv PROVE JoinedReturn
  <2> SUFFICES ASSUME stage = "returned", NEW s \in Subjects
               PROVE  /\ results[s] /= "none"
                      /\ tasks[s].done \/ tasks[s].op = "none"
                      /\ tasks[s].done => results[s] = tasks[s].verdict
    BY DEF JoinedReturn
  <2>1. s \in Nat /\ offset \in Nat
    BY <1>1, WaveFacts DEF IInv
  <2>2. CASE s <= offset
    BY <1>1, <2>2, TaskFacts DEF IInv, WavesInOrder, Sound
  <2>3. CASE s > offset
    BY <1>1, <2>3 DEF IInv, WavesInOrder, Frontier, NewTask
  <2> QED
    BY <2>1, <2>2, <2>3
<1> QED
  BY <1>1, BatchInv, PTL
(***************************************************************************)
(* A batch stops after a failure                                           *)
(***************************************************************************)
\* While a batch goes on, it has joined whole waves, and under
\* Cancel_Remaining every subject in them completed.
WholeWaves ==
    stage /= "returned" => \E k \in Nat : offset = k * WorkerLimit

CompletedSoFar ==
    mode = "Cancel_Remaining" /\ stage /= "returned" =>
        \A s \in Subjects : s <= offset => tasks[s].verdict = "Completed"

StopInv == WholeWaves /\ CompletedSoFar /\ StopsAfterFailure

LEMMA WaveNumber ==
    ASSUME NEW w \in Nat \ {0}, NEW k \in Nat, NEW n \in Nat
    PROVE  /\ k * w <= n => k <= n \div w
           /\ n < k * w + w => n \div w <= k
<1> DEFINE q == n \div w  r == n % w
<1>1. q \in Nat /\ r \in 0..w - 1 /\ n = w * q + r
  OBVIOUS
<1> HIDE DEF q, r
<1>2. ASSUME k * w <= n, q + 1 <= k PROVE FALSE
  <2>1. w * (q + 1) <= k * w
    BY <1>1, <1>2
  <2> QED
    BY <1>1, <1>2, <2>1
<1>3. ASSUME n < k * w + w, k + 1 <= q PROVE FALSE
  <2>1. w * (k + 1) <= w * q
    BY <1>1, <1>3
  <2> QED
    BY <1>1, <1>3, <2>1
<1> QED
  BY <1>1, <1>2, <1>3 DEF q

\* As long as the batch goes on, what failed lies after the waves joined, and
\* what has begun lies before the end of the next one.
LEMMA StopsWhileRunning ==
    IInv /\ WholeWaves /\ CompletedSoFar /\ stage /= "returned"
        => StopsAfterFailure
<1> SUFFICES ASSUME IInv, WholeWaves, CompletedSoFar, stage /= "returned",
                    mode = "Cancel_Remaining",
                    NEW s \in Subjects, NEW t \in Subjects,
                    (s - 1) \div WorkerLimit < (t - 1) \div WorkerLimit,
                    tasks[s].verdict /= "Completed", tasks[t].op /= "none"
             PROVE  FALSE
  BY DEF StopsAfterFailure
<1>1. /\ Len(plan) \in Nat /\ Subjects = 1..Len(plan)
      /\ offset \in Nat /\ WaveEnd \in offset..Len(plan)
      /\ WorkerLimit \in Nat \ {0}
  BY WaveFacts, ClientAssumption DEF IInv
<1>2. s > offset /\ s - 1 \in Nat /\ t - 1 \in Nat
  BY <1>1 DEF CompletedSoFar
<1>3. t <= Frontier
  BY <1>1 DEF IInv, WavesInOrder, NewTask, Frontier
<1>4. Frontier \in Nat /\ Frontier <= offset + WorkerLimit
  BY <1>1 DEF Frontier, WaveEnd
<1>5. PICK k \in Nat : offset = k * WorkerLimit
  BY DEF WholeWaves
<1>6. k * WorkerLimit <= s - 1 /\ t - 1 < k * WorkerLimit + WorkerLimit
  <2>1. offset <= s - 1 /\ t - 1 < offset + WorkerLimit
    BY <1>1, <1>2, <1>3, <1>4
  <2> QED
    BY <1>5, <2>1
<1>7. k <= (s - 1) \div WorkerLimit /\ (t - 1) \div WorkerLimit <= k
  BY <1>1, <1>2, <1>6, WaveNumber
<1>8. (s - 1) \div WorkerLimit \in Int /\ (t - 1) \div WorkerLimit \in Int
  BY <1>1, <1>2
<1> QED
  BY <1>7, <1>8

LEMMA StopsWhileRunningNext ==
    (IInv /\ WholeWaves /\ CompletedSoFar /\ stage /= "returned"
        => StopsAfterFailure)'
BY StopsWhileRunning, PTL

\* A step of a task, the server or the transport joins no wave.
LEMMA StopInvInWave ==
    ASSUME IInv, IInv', StopInv, UNCHANGED batch,
           \A s \in Subjects : tasks'[s] = tasks[s] \/ Running(s)
    PROVE  StopInv'
<1>1. WholeWaves'
  BY DEF StopInv, WholeWaves, batch
<1>2. CompletedSoFar'
  <2> SUFFICES ASSUME mode = "Cancel_Remaining", stage /= "returned",
                      NEW s \in Subjects, s <= offset
               PROVE  tasks'[s].verdict = "Completed"
    BY DEF CompletedSoFar, batch, Subjects
  <2>1. /\ Len(plan) \in Nat /\ Subjects = 1..Len(plan) /\ offset \in Nat
    BY WaveFacts DEF IInv
  <2>2. ~Running(s)
    BY <2>1 DEF Running, Wave
  <2> QED
    BY <2>2 DEF StopInv, CompletedSoFar
<1>3. CASE stage = "returned"
  <2>1. \A s \in Subjects : tasks'[s] = tasks[s]
    BY <1>3 DEF Running
  <2> QED
    BY <1>1, <1>2, <2>1 DEF StopInv, StopsAfterFailure, batch, Subjects
<1>4. CASE stage /= "returned"
  <2>1. stage' /= "returned"
    BY <1>4 DEF batch
  <2>2. StopsAfterFailure'
    BY <1>1, <1>2, <2>1, StopsWhileRunningNext
  <2> QED
    BY <1>1, <1>2, <2>2 DEF StopInv
<1> QED
  BY <1>3, <1>4

LEMMA StopInvIdle ==
    ASSUME StopInv, UNCHANGED <<plan, mode, offset, tasks>>,
           stage' = stage \/ stage' = "returned" \/ stage /= "returned"
    PROVE  StopInv'
BY DEF StopInv, WholeWaves, CompletedSoFar, StopsAfterFailure, Subjects

LEMMA StopInvJoin ==
    ASSUME IInv, StopInv, Join
    PROVE  StopInv'
<1>1. /\ UNCHANGED <<plan, mode, tasks>>
      /\ stage = "join" /\ WaveDone /\ offset' = WaveEnd
      /\ \/ stage' = "returned"
         \/ /\ WaveEnd < Len(plan)
            /\ ~(mode = "Cancel_Remaining" /\ WaveFailed)
  BY DEF Join
<1>2. StopsAfterFailure'
  BY <1>1 DEF StopInv, StopsAfterFailure, Subjects
<1>3. CASE stage' = "returned"
  BY <1>2, <1>3 DEF StopInv, WholeWaves, CompletedSoFar
<1>4. CASE /\ WaveEnd < Len(plan)
           /\ ~(mode = "Cancel_Remaining" /\ WaveFailed)
  <2>1. /\ Len(plan) \in Nat /\ Subjects = 1..Len(plan)
        /\ offset \in Nat /\ WorkerLimit \in Nat \ {0}
    BY WaveFacts, ClientAssumption DEF IInv
  <2>2. offset' = offset + WorkerLimit
    BY <1>1, <1>4, <2>1 DEF WaveEnd
  <2>3. PICK k \in Nat : offset = k * WorkerLimit
    BY <1>1 DEF StopInv, WholeWaves
  <2>4. offset' = (k + 1) * WorkerLimit /\ k + 1 \in Nat
    BY <2>1, <2>2, <2>3
  <2>5. WholeWaves'
    <3>1. WorkerLimit' = WorkerLimit
      OBVIOUS
    <3> QED
      BY <2>4, <3>1 DEF WholeWaves
  <2>6. CompletedSoFar'
    <3> SUFFICES ASSUME mode = "Cancel_Remaining", NEW s \in Subjects,
                        s <= offset'
                 PROVE  tasks[s].verdict = "Completed"
      BY <1>1 DEF CompletedSoFar, Subjects
    <3>1. CASE s <= offset
      BY <1>1, <3>1 DEF StopInv, CompletedSoFar
    <3>2. CASE s > offset
      <4>1. s \in Wave
        BY <1>1, <2>1, <3>2 DEF Wave, WaveEnd
      <4> QED
        BY <1>4, <4>1 DEF WaveFailed
    <3> QED
      BY <2>1, <3>1, <3>2
  <2> QED
    BY <1>2, <2>5, <2>6 DEF StopInv
<1> QED
  BY <1>1, <1>3, <1>4

LEMMA StopInvNext == IInv /\ IInv' /\ StopInv /\ [Next]_vars => StopInv'
<1> SUFFICES ASSUME IInv, IInv', StopInv, [Next]_vars PROVE StopInv'
  OBVIOUS
<1>1. ASSUME NEW s \in Subjects, Running(s), UNCHANGED batch,
             NEW t, Becomes(s, t)
      PROVE  StopInv'
  <2>1. \A r \in Subjects : tasks'[r] = tasks[r] \/ r = s
    BY <1>1 DEF Becomes, IInv, TypeInv
  <2> QED
    BY <1>1, <2>1, StopInvInWave
<1>2. ASSUME NEW s \in Subjects, TaskStep(s) \/ Fail(s) \/ CloseFails(s)
      PROVE  StopInv'
  BY <1>1, <1>2
     DEF TaskStep, Begin, Receive, ReadBody, Interrupt, CleanedUp, Fail,
         CloseFails
<1>3. ASSUME NEW m \in requests, Serve(m)
      PROVE  StopInv'
  <2>1. \A r \in Subjects : tasks'[r] = tasks[r] \/ Running(r)
    BY <1>3 DEF Serve, Answer, Awaited, IInv, TypeInv
  <2> QED
    BY <1>3, <2>1, StopInvInWave DEF Serve
<1>4. CASE UNCHANGED <<batch, tasks>>
  BY <1>4, StopInvIdle DEF batch
<1>5. CASE Admit
  BY <1>5, StopInvIdle DEF Admit
<1>6. CASE Join
  BY <1>6, StopInvJoin
<1> QED
  BY <1>2, <1>3, <1>4, <1>5, <1>6
     DEF Next, Lose, Cancel, Expire, vars

\* Under Cancel_Remaining nothing is asked for a subject after one of an
\* earlier wave did not complete.
THEOREM BatchStops == Spec => []StopsAfterFailure
<1>1. Init => StopInv
  <2> SUFFICES ASSUME Init PROVE StopInv
    OBVIOUS
  <2>1. offset = 0 * WorkerLimit /\ 0 \in Nat
    BY ClientAssumption DEF Init
  <2>2. Len(plan) \in Nat /\ Subjects = 1..Len(plan)
    BY ClientAssumption DEF Init, Subjects
  <2> QED
    BY <2>1, <2>2
       DEF Init, NewTask, StopInv, WholeWaves, CompletedSoFar, StopsAfterFailure
<1>2. StopInv => StopsAfterFailure
  BY DEF StopInv
<1> QED
  BY <1>1, <1>2, BatchInv, StopInvNext, PTL DEF Spec
(***************************************************************************)
(* What becomes of the uploads at the server                               *)
(***************************************************************************)
CreatePending(s, sent) == \E m \in sent : m.subject = s /\ m.op = "create"

\* An upload is opened by the one request that creates it, which is on its way
\* or answered before the task goes on, and a refusal means that there is
\* none; one whose completion or abort took effect is not open.
UploadKnown(s, t, u, sent) ==
    /\ CreatePending(s, sent) =>
          t.op = "create" /\ t.answer = "none" /\ u.state = "none"
    /\ t.op \in {"none", "put", "get", "body"} => u.state = "none"
    /\ t.op = "create" =>
          /\ t.done => t.answer /= "ok"
          /\ t.answer = "refused" => u.state /= "open"
          /\ t.verdict /= "Completed"
          /\ t.verdict = "Rejected" => t.answer = "refused"
    /\ t.op \in {"complete", "abort"} /\ t.answer \in {"ok", "invalid"} =>
          u.state /= "open"
    /\ t.op \in {"part", "complete"} /\ t.done => u.state /= "open"

UploadType ==
    uploads \in [Subjects -> [state : {"none", "open", "closed"},
                              parts : SUBSET Nat]]

UploadsInv ==
    /\ UploadType
    /\ \A m \in requests : m.op = "create" => m.part = 0
    /\ \A s \in Subjects : UploadKnown(s, tasks[s], uploads[s], requests)

LEMMA UploadStepKeeps ==
    ASSUME IInv, UploadsInv, NEW s \in Subjects, UNCHANGED plan,
           NEW t, tasks' = [tasks EXCEPT ![s] = t],
           \A n \in requests' : n.subject /= s => n \in requests,
           \A n \in requests' : n.op = "create" => n.part = 0,
           NEW u \in [state : {"none", "open", "closed"}, parts : SUBSET Nat],
           uploads' = [uploads EXCEPT ![s] = u],
           UploadKnown(s, t, u, requests')
    PROVE  UploadsInv'
<1>1. UploadType'
  BY DEF UploadsInv, UploadType, Subjects
<1>2. ASSUME NEW r \in Subjects, r /= s
      PROVE  UploadKnown(r, tasks'[r], uploads'[r], requests')
  <2>1. tasks'[r] = tasks[r] /\ uploads'[r] = uploads[r]
    BY <1>2 DEF IInv, TypeInv, UploadsInv, UploadType
  <2>2. CreatePending(r, requests') => CreatePending(r, requests)
    BY <1>2 DEF CreatePending
  <2> QED
    BY <2>1, <2>2 DEF UploadsInv, UploadKnown
<1>3. tasks'[s] = t /\ uploads'[s] = u
  BY DEF IInv, TypeInv, UploadsInv, UploadType
<1>4. \A r \in Subjects : UploadKnown(r, tasks'[r], uploads'[r], requests')
  BY <1>2, <1>3
<1> QED
  BY <1>1, <1>4 DEF UploadsInv, UploadKnown, CreatePending, Subjects

\* A step of a task that has begun, by what it does to the last request.
LEMMA TaskStepKeepsUploads ==
    ASSUME IInv, UploadsInv, NEW s \in Subjects, UNCHANGED <<plan, uploads>>,
           NEW t, Becomes(s, t),
           t.op = "create" => \/ t.done /\ t.answer /= "ok"
                              \/ /\ tasks[s].op = "none"
                                 /\ t.answer = "none" /\ t.part = 0,
           UploadKnown(s, t, uploads[s], requests)
    PROVE  UploadsInv'
<1> DEFINE m == [subject |-> s, op |-> t.op, part |-> t.part]
<1>1. tasks' = [tasks EXCEPT ![s] = t]
  BY DEF Becomes
<1>2. \A n \in requests' : n.subject /= s => n \in requests
  BY DEF Becomes
<1>3. /\ uploads[s] \in [state : {"none", "open", "closed"},
                         parts : SUBSET Nat]
      /\ uploads' = [uploads EXCEPT ![s] = uploads[s]]
  BY DEF UploadsInv, UploadType
<1>4. UploadKnown(s, tasks[s], uploads[s], requests)
  BY DEF UploadsInv
<1>5. CreatePending(s, requests') =>
         \/ CreatePending(s, requests)
         \/ t.op = "create" /\ ~t.done /\ t.answer = "none"
  BY DEF Becomes, CreatePending
<1>6. UploadKnown(s, t, uploads[s], requests')
  BY <1>4, <1>5 DEF UploadKnown
<1>7. \A n \in requests' : n.op = "create" => n.part = 0
  BY DEF Becomes, UploadsInv
<1> QED
  BY <1>1, <1>2, <1>3, <1>6, <1>7, UploadStepKeeps

LEMMA TaskKnown ==
    ASSUME IInv, UploadsInv, NEW s \in Subjects
    PROVE  /\ tasks[s] \in TaskSet
           /\ UploadKnown(s, tasks[s], uploads[s], requests)
           /\ tasks[s].op \in Ops /\ tasks[s].answer \in Answers
           /\ ~tasks[s].done /\ tasks[s].op /= "abort" =>
                  tasks[s].verdict = "none"
           /\ tasks[s].op = "abort" => tasks[s].verdict /= "Completed"
           /\ tasks[s].done => tasks[s].verdict \in Verdicts
BY TaskFacts DEF IInv, TypeInv, UploadsInv, TaskSet, Sound

\* A task that fails leaves its upload to an abort, if it was initiated.
LEMMA EndsKnown ==
    ASSUME NEW s \in Subjects, NEW t \in TaskSet, NEW u,
           UploadKnown(s, t, u, requests), ~t.done, t.op /= "abort",
           NEW v, v = "Completed" => /\ t.op \in {"put", "complete", "body"}
                                     /\ t.op = "complete" => t.answer = "ok",
           t.op = "create" => /\ t.answer /= "ok"
                              /\ v = "Rejected" => t.answer = "refused"
    PROVE  /\ UploadKnown(s, Ends(t, v), u, requests)
           /\ Ends(t, v).op = "create" => Ends(t, v).done
<1> DEFINE e == Ends(t, v)
<1>1. CASE Initiated(t) /\ v /= "Completed"
  <2>1. e.op = "abort" /\ e.answer = "none"
    BY <1>1 DEF Ends, Asks, TaskSet
  <2> QED
    BY <1>1, <2>1 DEF UploadKnown, Initiated
<1>2. CASE ~(Initiated(t) /\ v /= "Completed")
  <2>1. /\ e.op = t.op /\ e.answer = t.answer /\ e.done = TRUE
        /\ e.verdict = v
    BY <1>2 DEF Ends, TaskSet
  <2> QED
    BY <1>2, <2>1 DEF UploadKnown, Initiated
<1> QED
  BY <1>1, <1>2

LEMMA GivenUpKnown ==
    ASSUME NEW s \in Subjects, NEW t \in TaskSet, NEW u,
           UploadKnown(s, t, u, requests), ~t.done, t.op /= "abort",
           t.verdict = "none", NEW v \in {"Failed", "Cancelled"}
    PROVE  /\ UploadKnown(s, GivenUp(t, v), u, requests)
           /\ GivenUp(t, v).op = "create" => GivenUp(t, v).done
<1> DEFINE g == [t EXCEPT !.answer = "none"]
<1>1. /\ g.op = t.op /\ g.answer = "none" /\ g.done = t.done
      /\ g.verdict = t.verdict /\ g \in TaskSet
  BY DEF TaskSet, Answers
<1>2. UploadKnown(s, g, u, requests)
  BY <1>1 DEF UploadKnown
<1> QED
  BY <1>1, <1>2, EndsKnown DEF GivenUp

LEMMA AsksKnown ==
    ASSUME NEW s \in Subjects, NEW t \in TaskSet, NEW u, NEW op, NEW part,
           UploadKnown(s, t, u, requests), ~t.done,
           op = "create" => t.verdict = "none",
           ~CreatePending(s, requests),
           op \in {"none", "put", "get", "body"} => u.state = "none"
    PROVE  /\ UploadKnown(s, Asks(t, op, part), u, requests)
           /\ Asks(t, op, part).op = op /\ Asks(t, op, part).answer = "none"
           /\ Asks(t, op, part).part = part
<1>1. /\ Asks(t, op, part).op = op /\ Asks(t, op, part).answer = "none"
      /\ Asks(t, op, part).part = part
      /\ Asks(t, op, part).done = t.done
      /\ Asks(t, op, part).verdict = t.verdict
  BY DEF Asks, TaskSet
<1> QED
  BY <1>1 DEF UploadKnown

LEMMA AfterPartKnown ==
    ASSUME IInv, NEW s \in Subjects, NEW t \in TaskSet, NEW u,
           UploadKnown(s, t, u, requests), ~t.done, t.op = "part"
    PROVE  /\ UploadKnown(s, AfterPart(s, t), u, requests)
           /\ AfterPart(s, t).op /= "create"
<1>1. ~CreatePending(s, requests)
  BY DEF UploadKnown
<1>2. ASSUME NEW op \in {"part", "complete"}, NEW part
      PROVE  /\ UploadKnown(s, NextRequest(t, op, part), u, requests)
             /\ NextRequest(t, op, part).op /= "create"
  <2>1. CASE expired
    <3>1. UploadKnown(s, Ends(t, "Failed"), u, requests)
      BY EndsKnown
    <3>2. Ends(t, "Failed").op /= "create"
      BY DEF Ends, Initiated, Asks, TaskSet
    <3> QED
      BY <2>1, <3>1, <3>2 DEF NextRequest
  <2>2. CASE ~expired
    <3>1. /\ UploadKnown(s, Asks(t, op, part), u, requests)
          /\ Asks(t, op, part).op = op
      BY <1>1, AsksKnown
    <3> QED
      BY <2>2, <3>1 DEF NextRequest
  <2> QED
    BY <2>1, <2>2
<1> QED
  BY <1>2 DEF AfterPart

LEMMA BeginKeepsUploads ==
    ASSUME IInv, UploadsInv, NEW s \in Subjects, Begin(s)
    PROVE  UploadsInv'
<1> DEFINE t == tasks[s]
<1>1. /\ t \in TaskSet /\ UploadKnown(s, t, uploads[s], requests)
      /\ t.op = "none" /\ ~t.done /\ UNCHANGED <<plan, uploads>>
      /\ t.verdict = "none"
  BY TaskKnown DEF Begin, Running, batch, server
<1>2. ~CreatePending(s, requests) /\ uploads[s].state = "none"
  BY <1>1 DEF UploadKnown
<1>3. CASE Becomes(s, Asks(t, FirstRequest(s), 0))
  BY <1>1, <1>2, <1>3, AsksKnown, TaskStepKeepsUploads
<1>4. ASSUME NEW v \in {"Cancelled", "Failed"}, Becomes(s, Ends(t, v))
      PROVE  UploadsInv'
  BY <1>1, <1>4, EndsKnown, TaskStepKeepsUploads DEF UploadKnown
<1> QED
  BY <1>3, <1>4 DEF Begin

LEMMA ReceiveKeepsUploads ==
    ASSUME IInv, UploadsInv, NEW s \in Subjects, Receive(s)
    PROVE  UploadsInv'
<1> DEFINE t == tasks[s]
<1>1. /\ t \in TaskSet /\ UploadKnown(s, t, uploads[s], requests)
      /\ ~t.done /\ t.answer /= "none" /\ t.op /= "abort"
      /\ t.verdict = "none" /\ UNCHANGED <<plan, uploads>>
  BY TaskKnown DEF Receive, Running, batch, server
<1>2. CASE t.op = "create" /\ Becomes(s, AfterPart(s, [t EXCEPT !.op = "part"]))
  <2> DEFINE n == [t EXCEPT !.op = "part"]
  <2>1. n.op = "part" /\ n.answer = t.answer /\ n.done = t.done /\ n \in TaskSet
    BY <1>1 DEF TaskSet, Ops, Sent
  <2>2. UploadKnown(s, n, uploads[s], requests)
    BY <1>1, <1>2, <2>1 DEF UploadKnown
  <2> QED
    BY <1>1, <1>2, <2>1, <2>2, AfterPartKnown, TaskStepKeepsUploads
<1>3. CASE t.op = "part" /\ Becomes(s, AfterPart(s, t))
  BY <1>1, <1>3, AfterPartKnown, TaskStepKeepsUploads
<1>4. CASE /\ t.op \in {"put", "complete"} /\ t.answer = "ok"
           /\ Becomes(s, Ends(t, "Completed"))
  <2>1. UploadKnown(s, Ends(t, "Completed"), uploads[s], requests)
    BY <1>1, <1>4, EndsKnown
  <2>2. Ends(t, "Completed").op = t.op
    BY <1>1 DEF Ends, TaskSet
  <2> QED
    BY <1>1, <1>4, <2>1, <2>2, TaskStepKeepsUploads
<1>5. CASE t.op = "get" /\ Becomes(s, Asks(t, "body", 0))
  <2>1. ~CreatePending(s, requests) /\ uploads[s].state = "none"
    BY <1>1, <1>5 DEF UploadKnown
  <2> QED
    BY <1>1, <1>5, <2>1, AsksKnown, TaskStepKeepsUploads
<1>6. CASE t.answer /= "ok" /\ Becomes(s, Ends(t, Verdict(t.answer)))
  <2>1. /\ Verdict(t.answer) /= "Completed"
        /\ Verdict(t.answer) = "Rejected" => t.answer = "refused"
    BY DEF Verdict
  <2>2. /\ UploadKnown(s, Ends(t, Verdict(t.answer)), uploads[s], requests)
        /\ Ends(t, Verdict(t.answer)).op = "create" =>
               Ends(t, Verdict(t.answer)).done
    BY <1>1, <1>6, <2>1, EndsKnown
  <2>3. Ends(t, Verdict(t.answer)).op = "create" =>
            Ends(t, Verdict(t.answer)).answer /= "ok"
    BY <2>2 DEF UploadKnown
  <2> QED
    BY <1>1, <1>6, <2>2, <2>3, TaskStepKeepsUploads
<1> QED
  BY <1>2, <1>3, <1>4, <1>5, <1>6 DEF Receive

LEMMA ReadBodyKeepsUploads ==
    ASSUME IInv, UploadsInv, NEW s \in Subjects, ReadBody(s)
    PROVE  UploadsInv'
<1> DEFINE t == tasks[s]
<1>1. /\ t \in TaskSet /\ UploadKnown(s, t, uploads[s], requests)
      /\ ~t.done /\ t.op = "body" /\ UNCHANGED <<plan, uploads>>
  BY TaskKnown DEF ReadBody, Running, batch
<1>2. CASE Becomes(s, [t EXCEPT !.part = @ + 1])
  <2> DEFINE n == [t EXCEPT !.part = @ + 1]
  <2>1. n.op = t.op /\ n.answer = t.answer /\ n.done = t.done
    BY <1>1 DEF TaskSet
  <2>2. UploadKnown(s, n, uploads[s], requests)
    BY <1>1, <2>1 DEF UploadKnown
  <2> QED
    BY <1>1, <1>2, <2>1, <2>2, TaskStepKeepsUploads
<1>3. ASSUME NEW v \in {"Completed", "Failed"}, Becomes(s, Ends(t, v))
      PROVE  UploadsInv'
  <2>1. UploadKnown(s, Ends(t, v), uploads[s], requests)
    BY <1>1, EndsKnown
  <2>2. Ends(t, v).op = "body"
    BY <1>1 DEF Ends, Initiated, TaskSet
  <2> QED
    BY <1>1, <1>3, <2>1, <2>2, TaskStepKeepsUploads
<1> QED
  BY <1>2, <1>3 DEF ReadBody

LEMMA GivingUpKeepsUploads ==
    ASSUME IInv, UploadsInv, NEW s \in Subjects, Running(s),
           tasks[s].op /= "abort", NEW v \in {"Failed", "Cancelled"},
           Becomes(s, GivenUp(tasks[s], v)), UNCHANGED <<plan, uploads>>
    PROVE  UploadsInv'
<1> DEFINE t == tasks[s]  g == GivenUp(t, v)
<1>1. /\ t \in TaskSet /\ UploadKnown(s, t, uploads[s], requests) /\ ~t.done
      /\ t.verdict = "none"
  BY TaskKnown DEF Running
<1>2. /\ UploadKnown(s, g, uploads[s], requests)
      /\ g.op = "create" => g.done
  BY <1>1, GivenUpKnown
<1>3. g.op = "create" => g.answer /= "ok"
  BY <1>2 DEF UploadKnown
<1> QED
  BY <1>2, <1>3, TaskStepKeepsUploads

LEMMA CleanedUpKeepsUploads ==
    ASSUME IInv, UploadsInv, NEW s \in Subjects, CleanedUp(s)
    PROVE  UploadsInv'
<1> DEFINE t == tasks[s]  c == [t EXCEPT !.done = TRUE]
<1>1. /\ t \in TaskSet /\ UploadKnown(s, t, uploads[s], requests)
      /\ t.op = "abort" /\ UNCHANGED <<plan, uploads>> /\ Becomes(s, c)
  BY TaskKnown DEF CleanedUp, batch, server
<1>2. c.op = t.op /\ c.answer = t.answer
  BY <1>1 DEF TaskSet
<1>3. UploadKnown(s, c, uploads[s], requests)
  BY <1>1, <1>2 DEF UploadKnown
<1> QED
  BY <1>1, <1>2, <1>3, TaskStepKeepsUploads

LEMMA CloseFailsKeepsUploads ==
    ASSUME IInv, UploadsInv, NEW s \in Subjects, CloseFails(s)
    PROVE  UploadsInv'
<1> DEFINE t == tasks[s]  c == [t EXCEPT !.verdict = "Failed", !.done = TRUE]
<1>1. /\ t \in TaskSet /\ UploadKnown(s, t, uploads[s], requests)
      /\ t.op \in {"put", "complete", "abort"}
      /\ t.op = "complete" => t.answer = "ok"
      /\ UNCHANGED <<plan, uploads>> /\ Becomes(s, c)
  BY TaskKnown DEF CloseFails, batch, server
<1>2. c.op = t.op /\ c.answer = t.answer
  BY <1>1 DEF TaskSet
<1> HIDE DEF c
<1>3. UploadKnown(s, c, uploads[s], requests)
  BY <1>1, <1>2 DEF UploadKnown
<1> QED
  BY <1>1, <1>2, <1>3, TaskStepKeepsUploads

LEMMA PerformedState ==
    ASSUME NEW m, m.op \in Sent, m.part \in Nat,
           uploads[m.subject] \in [state : {"none", "open", "closed"},
                                   parts : SUBSET Nat]
    PROVE  /\ Performed(m) \in [state : {"none", "open", "closed"},
                                 parts : SUBSET Nat]
           /\ Performed(m).state =
                  IF m.op = "create" THEN "open"
                  ELSE IF m.op \in {"complete", "abort"} THEN "closed"
                  ELSE uploads[m.subject].state
<1> DEFINE u == uploads[m.subject]
<1>1. CASE m.op = "create"
  <2>1. Performed(m) = [u EXCEPT !.state = "open"]
    BY <1>1 DEF Performed
  <2> QED
    BY <1>1, <2>1
<1>2. CASE m.op = "part"
  <2>1. Performed(m) = [u EXCEPT !.parts = @ \union {m.part}]
    BY <1>2 DEF Performed
  <2> QED
    BY <1>2, <2>1
<1>3. CASE m.op \in {"complete", "abort"}
  <2>1. Performed(m) = [u EXCEPT !.state = "closed"]
    BY <1>3 DEF Performed
  <2> QED
    BY <1>3, <2>1
<1>4. CASE m.op \in {"put", "get"}
  <2>1. Performed(m) = u
    BY <1>4 DEF Performed
  <2> QED
    BY <1>4, <2>1
<1> QED
  BY <1>1, <1>2, <1>3, <1>4 DEF Sent

\* The server opens an upload when its creation arrives and closes it when
\* its completion or abort succeeds.
LEMMA AnswerKeepsUploads ==
    ASSUME IInv, UploadsInv, UNCHANGED plan, NEW m \in requests,
           NEW answer \in {"ok", "invalid", "refused"}, Answer(m, answer),
           NEW u, uploads' = [uploads EXCEPT ![m.subject] = u],
           \/ answer = "refused" /\ u = uploads[m.subject]
           \/ answer /= "refused" /\ Accepts(m) /\ u = Performed(m)
    PROVE  UploadsInv'
<1> DEFINE s == m.subject  old == tasks[s]
           t == IF Awaited(m) THEN [old EXCEPT !.answer = answer] ELSE old
<1>1. /\ s \in Subjects /\ m.part \in Nat /\ m.op \in Sent
      /\ m = [subject |-> s, op |-> m.op, part |-> m.part]
  BY DEF IInv, TypeInv
<1>2. /\ old \in TaskSet /\ UploadKnown(s, old, uploads[s], requests)
  BY <1>1, TaskKnown
<1>3. tasks' = [tasks EXCEPT ![s] = t] /\ requests' = requests \ {m}
  BY <1>1 DEF Answer, IInv, TypeInv
<1>4. uploads[s] \in [state : {"none", "open", "closed"}, parts : SUBSET Nat]
  BY <1>1 DEF UploadsInv, UploadType
<1>5. /\ u \in [state : {"none", "open", "closed"}, parts : SUBSET Nat]
      /\ \/ u.state = uploads[s].state
         \/ m.op = "create" /\ u.state = "open"
         \/ m.op \in {"complete", "abort"} /\ u.state = "closed"
  <2>1. CASE u = uploads[s]
    BY <1>4, <2>1
  <2>2. CASE u = Performed(m)
    BY <1>1, <1>4, <2>2, PerformedState
  <2> QED
    BY <2>1, <2>2
<1>6. answer /= "refused" /\ m.op \in {"complete", "abort"} =>
          u.state = "closed"
  BY <1>1, <1>4, PerformedState
<1>7. /\ t.op = old.op /\ t.done = old.done /\ t.verdict = old.verdict
      /\ \/ t.answer = old.answer
         \/ t.answer = answer /\ old.op = m.op /\ ~old.done
  BY <1>2 DEF Awaited, Running, TaskSet
<1>8. UploadKnown(s, t, u, requests')
  <2>1. CASE m.op = "create"
    <3>1. \A n \in requests : n.subject = s /\ n.op = "create" => n = m
      BY <1>1, <2>1 DEF IInv, TypeInv, UploadsInv
    <3>2. ~CreatePending(s, requests')
      BY <1>3, <3>1 DEF CreatePending
    <3>3. CreatePending(s, requests)
      BY <2>1 DEF CreatePending
    <3>4. old.op = "create" /\ old.answer = "none" /\ uploads[s].state = "none"
      BY <1>2, <3>3 DEF UploadKnown
    <3>5. answer = "refused" => u.state = "none"
      BY <3>4
    <3> QED
      BY <1>2, <1>7, <3>2, <3>4, <3>5 DEF UploadKnown
  <2>2. CASE m.op /= "create"
    <3>1. CreatePending(s, requests') => CreatePending(s, requests)
      BY <1>3 DEF CreatePending
    <3>2. u.state = uploads[s].state \/ uploads[s].state = "open"
      BY <1>5, <2>2 DEF Accepts
    <3> QED
      BY <1>2, <1>5, <1>6, <1>7, <2>2, <3>1, <3>2 DEF UploadKnown
  <2> QED
    BY <2>1, <2>2
<1>9. \A n \in requests' : n.subject /= s => n \in requests
  BY <1>3
<1>10. \A n \in requests' : n.op = "create" => n.part = 0
  BY <1>3 DEF UploadsInv
<1> QED
  BY <1>1, <1>3, <1>5, <1>8, <1>9, <1>10, UploadStepKeeps

LEMMA ServeKeepsUploads ==
    ASSUME IInv, UploadsInv, NEW m \in requests, Serve(m)
    PROVE  UploadsInv'
<1> DEFINE s == m.subject
<1>1. s \in Subjects /\ UNCHANGED plan
  BY DEF IInv, TypeInv, Serve, batch
<1>2. ASSUME NEW answer \in {"ok", "invalid"}, Answer(m, answer), Accepts(m),
             uploads' = [uploads EXCEPT ![s] = Performed(m)]
      PROVE  UploadsInv'
  BY <1>1, <1>2, AnswerKeepsUploads
<1>3. ASSUME Answer(m, "refused"), UNCHANGED uploads
      PROVE  UploadsInv'
  <2>1. uploads' = [uploads EXCEPT ![s] = uploads[s]]
    BY <1>1, <1>3 DEF UploadsInv, UploadType
  <2> QED
    BY <1>1, <1>3, <2>1, AnswerKeepsUploads
<1> QED
  BY <1>2, <1>3 DEF Serve, server

LEMMA LoseKeepsUploads ==
    ASSUME IInv, UploadsInv, NEW m \in requests, Lose(m)
    PROVE  UploadsInv'
<1>1. /\ UNCHANGED <<plan, tasks, uploads>> /\ requests' = requests \ {m}
  BY DEF Lose, batch, server
<1>2. \A s \in Subjects :
          CreatePending(s, requests') => CreatePending(s, requests)
  BY <1>1 DEF CreatePending
<1> QED
  BY <1>1, <1>2
     DEF UploadsInv, UploadType, UploadKnown, CreatePending, Subjects

LEMMA UploadsUntouched ==
    ASSUME UploadsInv, UNCHANGED <<plan, tasks, requests, uploads>>
    PROVE  UploadsInv'
BY DEF UploadsInv, UploadType, UploadKnown, CreatePending, Subjects

LEMMA UploadsInvNext == IInv /\ UploadsInv /\ [Next]_vars => UploadsInv'
<1> SUFFICES ASSUME IInv, UploadsInv, [Next]_vars PROVE UploadsInv'
  OBVIOUS
<1>1. ASSUME NEW s \in Subjects, Interrupt(s) \/ Fail(s)
      PROVE  UploadsInv'
  BY <1>1, GivingUpKeepsUploads DEF Interrupt, Fail, batch, server
<1>2. ASSUME NEW s \in Subjects, TaskStep(s) \/ Fail(s) \/ CloseFails(s)
      PROVE  UploadsInv'
  BY <1>1, <1>2, BeginKeepsUploads, ReceiveKeepsUploads, ReadBodyKeepsUploads,
     CleanedUpKeepsUploads, CloseFailsKeepsUploads DEF TaskStep
<1>3. ASSUME NEW m \in requests, Serve(m) \/ Lose(m)
      PROVE  UploadsInv'
  BY <1>3, ServeKeepsUploads, LoseKeepsUploads
<1>4. CASE Cancel \/ Expire \/ Admit \/ Join \/ UNCHANGED vars
  BY <1>4, UploadsUntouched DEF Cancel, Expire, Admit, Join, vars, batch, server
<1> QED
  BY <1>2, <1>3, <1>4 DEF Next

\* Once a batch has returned, a multipart upload that is open belongs to a
\* subject that was not reported completed: the client never learnt its
\* identity, and then it did not report a rejection either, or the abort that
\* it sent was lost or refused.
THEOREM OrphansAreExplained == Spec => []OrphansExplained
<1>1. Init => UploadsInv
  BY DEF Init, UploadsInv, UploadType, UploadKnown, CreatePending, NewTask,
         NoUpload
<1>2. IInv /\ UploadsInv => OrphansExplained
  <2> SUFFICES ASSUME IInv, UploadsInv, stage = "returned",
                      NEW s \in Subjects, uploads[s].state = "open"
               PROVE  \/ /\ tasks[s].op = "create"
                         /\ tasks[s].answer \in {"none", "invalid"}
                         /\ results[s] \in {"Failed", "Cancelled"}
                      \/ /\ tasks[s].op = "abort"
                         /\ tasks[s].answer \in {"none", "refused"}
                         /\ results[s] /= "Completed"
    BY DEF OrphansExplained
  <2>1. \/ tasks[s].done /\ results[s] = tasks[s].verdict
        \/ tasks[s].op = "none"
    <3>1. s \in Nat /\ offset \in Nat
      BY WaveFacts DEF IInv
    <3> QED
      BY <3>1 DEF IInv, WavesInOrder, Frontier, NewTask
  <2>2. /\ UploadKnown(s, tasks[s], uploads[s], requests)
        /\ tasks[s].op \in Ops /\ tasks[s].answer \in Answers
        /\ tasks[s].op = "abort" => tasks[s].verdict /= "Completed"
        /\ tasks[s].done => tasks[s].verdict \in Verdicts
    BY TaskKnown
  <2>3. /\ tasks[s].op \in {"create", "abort"} /\ tasks[s].done
        /\ results[s] = tasks[s].verdict
    BY <2>1, <2>2 DEF UploadKnown, Ops, Sent
  <2> QED
    BY <2>2, <2>3 DEF UploadKnown, Answers, Verdicts
<1> QED
  BY <1>1, <1>2, BatchInv, UploadsInvNext, PTL DEF Spec
================================================================================

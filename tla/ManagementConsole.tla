--------------------------- MODULE ManagementConsole ---------------------------
(***************************************************************************)
(* The browser workbench of the server executable and the management       *)
(* handlers it calls.  The page is one thread, but every fetch is a point  *)
(* where clicks, timers and the answers of other fetches come in between,  *)
(* answers arrive in any order, requests and answers get lost, sessions    *)
(* end, and S3 clients change the buckets behind the page's back.          *)
(***************************************************************************)
EXTENDS Integers, FiniteSets, Sequences

CONSTANTS
    Buckets,
    NoBucket,
    Pages,       \* [Buckets -> Nat]: pages of objects in a bucket, 0 if empty
    MaxCalls,    \* bound: fetches under way
    Visits       \* bounds: what may happen while the page is open

AllClicks == {"refresh", "login", "logout", "create", "delete", "browse",
              "s3"}

\* What the user and S3 clients do; how many fetches are under way, object
\* pages are requested and sessions created; how many requests or answers are
\* lost and sessions expire; how often the buckets change.
Bounds == [clicks : SUBSET AllClicks, calls : 0..MaxCalls, loads : Nat,
           logins : Nat, failures : Nat, changes : Nat]

ASSUME ConsoleAssumption ==
    /\ Pages \in [Buckets -> Nat] /\ NoBucket \notin Buckets
    /\ MaxCalls \in Nat
    /\ Visits \subseteq Bounds

VARIABLES
    ui,       \* the page
    calls,    \* the fetches under way, by slot
    cookie,   \* the session cookie in the browser, 0 when there is none
    live,     \* server: the sessions that are valid
    sessions, \* number of sessions created
    stored,   \* server: the buckets that exist
    failures, \* number of requests or answers lost and sessions expired
    changes,  \* number of changes of stored
    visit     \* the bounds of this visit

server == <<live, sessions, stored, changes>>
vars == <<ui, calls, cookie, server, failures, visit>>

Slots == 1..MaxCalls
Idle == [kind |-> "none"]

(***************************************************************************)
(* The page                                                                *)
(***************************************************************************)
\* rows and list are the bucket inventory, the state of each row being that
\* of its two-step deletion; selected to more are the object browser; timers
\* holds the pending timers, poll the handle the page remembers.
Page(view) ==
    [view |-> view, timers |-> {}, poll |-> 0,
     rows |-> [b \in Buckets |-> "absent"], list |-> "blank",
     selected |-> NoBucket, token |-> 0, generation |-> 0,
     pages |-> <<>>, more |-> FALSE, busy |-> {}]

ClearTimer(u) == [u EXCEPT !.timers = {t \in @ : t.id # u.poll}]

\* setTimeout: the poll refreshes the inventory, too, or the status alone.
SetTimer(u, inventory) ==
    LET id == CHOOSE i \in 1..(Cardinality(u.timers) + 1) :
                 \A t \in u.timers : t.id # i
    IN  [u EXCEPT !.timers = @ \union {[id |-> id, inventory |-> inventory]},
                  !.poll = id]

ShowLogin(u) == [ClearTimer(u) EXCEPT !.view = "login"]

\* Mutant: the poll is not armed again.
RenderStatusOnce(u) == ClearTimer([u EXCEPT !.view = "workbench"])

\* Mutant: the pending poll is forgotten, not cancelled.
RenderStatusAgain(u) == SetTimer([u EXCEPT !.view = "workbench"], FALSE)

RenderStatus(u) == SetTimer(ClearTimer([u EXCEPT !.view = "workbench"]), FALSE)

CloseBrowser(u) ==
    [u EXCEPT !.generation = @ + 1, !.selected = NoBucket, !.token = 0,
              !.pages = <<>>]

RenderBuckets(u, names) ==
    LET shown == [u EXCEPT !.list = "shown",
                           !.rows = [b \in Buckets |-> IF b \in names THEN "plain"
                                                       ELSE "absent"]]
    IN  IF u.selected \in names \union {NoBucket} THEN shown
        ELSE CloseBrowser(shown)

RenderBucketError(u) ==
    [u EXCEPT !.list = "error", !.rows = [b \in Buckets |-> "absent"]]

RenderObjects(u, page, append) ==
    [u EXCEPT !.pages = (IF append THEN @ ELSE <<>>)
                          \o (IF page.number = 0 THEN <<>> ELSE <<page>>),
              !.token = page.next,
              !.more = page.next # 0]

Release(u, buttons) == [u EXCEPT !.busy = @ \ buttons]

(***************************************************************************)
(* Fetches                                                                 *)
(***************************************************************************)
Pending == [status |-> 0]
Failed == [status |-> -1]

\* release: the buttons that the handler's "finally" enables; row: a deletion
\* whose row is still part of the page.
Call(kind) ==
    [kind |-> kind, cookie |-> cookie, bucket |-> NoBucket, token |-> 0,
     append |-> FALSE, generation |-> 0, quiet |-> FALSE, inventory |-> FALSE,
     release |-> {}, row |-> FALSE, reply |-> Pending]

FreeSlots == {i \in 1..visit.calls : calls[i] = Idle}

Send(call) ==
    /\ FreeSlots # {}
    /\ calls' = [calls EXCEPT ![CHOOSE i \in FreeSlots :
                                   \A j \in FreeSlots : i <= j] = call]

StatusCall(quiet, inventory, release) ==
    [Call("status") EXCEPT !.quiet = quiet, !.inventory = inventory,
                           !.release = release \union {"refresh"}]

BucketsCall(release) == [Call("buckets") EXCEPT !.release = release]

\* The rows of the page are replaced: no deletion has its row any longer.
Detached(cs) ==
    [i \in Slots |-> IF cs[i] = Idle THEN Idle ELSE [cs[i] EXCEPT !.row = FALSE]]

LoadObjects(u, bucket, append) ==
    /\ u.generation < visit.loads
    /\ Send([Call("objects") EXCEPT !.bucket = bucket, !.append = append,
                !.token = IF append THEN u.token ELSE 0,
                !.generation = u.generation + 1])
    /\ ui' = [u EXCEPT !.generation = @ + 1, !.busy = @ \union {"more"}]

(***************************************************************************)
(* The management handlers                                                 *)
(***************************************************************************)
\* The objects that follow a continuation token, and the token after them.
ObjectPage(bucket, token) ==
    [bucket |-> bucket,
     number |-> IF Pages[bucket] = 0 THEN 0 ELSE token + 1,
     next   |-> IF token + 1 < Pages[bucket] THEN token + 1 ELSE 0]

Reply(i, reply) == calls' = [calls EXCEPT ![i].reply = reply]

Refused(call) == call.kind # "login" /\ call.cookie \notin live

ServeRefusal(i) ==
    /\ Refused(calls[i]) \/ calls[i].kind = "login"
    /\ Reply(i, [status |-> 401])
    /\ UNCHANGED server

ServeLogin(i) ==
    /\ calls[i].kind = "login"
    /\ sessions < visit.logins
    /\ sessions' = sessions + 1
    /\ live' = live \union {sessions + 1}
    /\ Reply(i, [status |-> 200, cookie |-> sessions + 1])
    /\ UNCHANGED <<stored, changes>>

ServeLogout(i) ==
    /\ calls[i].kind = "logout" /\ ~Refused(calls[i])
    /\ live' = live \ {calls[i].cookie}
    /\ Reply(i, [status |-> 200, cookie |-> 0])
    /\ UNCHANGED <<sessions, stored, changes>>

ServeRead(i) ==
    LET call == calls[i]
    IN  /\ call.kind \in {"status", "buckets", "objects"} /\ ~Refused(call)
        /\ Reply(i, CASE call.kind = "status"  -> [status |-> 200]
                      [] call.kind = "buckets" -> [status |-> 200, names |-> stored]
                      [] call.kind = "objects" /\ call.bucket \in stored ->
                           [status |-> 200,
                            page |-> ObjectPage(call.bucket, call.token)]
                      [] OTHER -> [status |-> 404])
        /\ UNCHANGED server

\* How the store refuses a change: 404 for an unknown bucket, and 409 stands
\* for the answers that the page handles alike: the bucket exists or has
\* objects, the storage has no room or is unavailable.
Refusals(call) ==
    {409} \union IF call.kind = "delete" /\ call.bucket \notin stored THEN {404}
                ELSE {}

ServeChange(i) ==
    LET call == calls[i]
    IN  /\ call.kind \in {"create", "delete"} /\ ~Refused(call)
        /\ \/ /\ call.kind = "create" /\ call.bucket \notin stored
              /\ changes < visit.changes /\ changes' = changes + 1
              /\ stored' = stored \union {call.bucket}
              /\ Reply(i, [status |-> 200])
           \/ /\ call.kind = "delete" /\ call.bucket \in stored
              /\ Pages[call.bucket] = 0
              /\ stored' = stored \ {call.bucket}
              /\ Reply(i, [status |-> 200])
              /\ UNCHANGED changes
           \/ /\ \E s \in Refusals(call) : Reply(i, [status |-> s])
              /\ UNCHANGED <<stored, changes>>
        /\ UNCHANGED <<live, sessions>>

Serve(i) ==
    /\ calls[i] # Idle /\ calls[i].reply = Pending
    /\ ServeRefusal(i) \/ ServeLogin(i) \/ ServeLogout(i) \/ ServeRead(i)
         \/ ServeChange(i)
    /\ UNCHANGED <<ui, cookie, failures, visit>>

\* The request is lost, or its answer after the server acted on it.
Lose(i) ==
    /\ calls[i] # Idle /\ calls[i].reply # Failed
    /\ failures < visit.failures
    /\ failures' = failures + 1
    /\ Reply(i, Failed)
    /\ UNCHANGED <<ui, cookie, server, visit>>

\* A session expires or is pushed out; an S3 client creates or removes a
\* bucket.
Expire ==
    /\ failures < visit.failures
    /\ failures' = failures + 1
    /\ \E s \in live : live' = live \ {s}
    /\ UNCHANGED <<ui, calls, cookie, sessions, stored, changes, visit>>

External ==
    /\ "s3" \in visit.clicks
    /\ changes < visit.changes
    /\ changes' = changes + 1
    /\ \E b \in Buckets : stored' = IF b \in stored THEN stored \ {b}
                                    ELSE stored \union {b}
    /\ UNCHANGED <<ui, calls, cookie, live, sessions, failures, visit>>

(***************************************************************************)
(* The continuations of the fetches                                        *)
(***************************************************************************)
Answered(i, kind) ==
    calls[i] # Idle /\ calls[i].kind = kind /\ calls[i].reply # Pending

Answer(i) == calls[i].reply.status
Done(i) == [calls EXCEPT ![i] = Idle]

\* The handler goes on to read the inventory or the status.
GoOn(i, call) == [calls EXCEPT ![i] = call]

ReceiveStatus(i) ==
    /\ Answered(i, "status")
    /\ LET call == calls[i]
       IN  CASE Answer(i) = 401 ->
                  /\ ui' = Release(ShowLogin(ui), call.release)
                  /\ calls' = Done(i)
             [] Answer(i) = 200 /\ call.inventory ->
                  /\ ui' = RenderStatus(ui)
                  /\ calls' = GoOn(i, [BucketsCall(call.release)
                                       EXCEPT !.quiet = call.quiet])
             [] Answer(i) = 200 /\ ~call.inventory ->
                  /\ ui' = Release(RenderStatus(ui), call.release)
                  /\ calls' = Done(i)
             [] OTHER ->
                  /\ ui' = Release(IF ui.view = "workbench"
                                   THEN SetTimer(ClearTimer(ui), TRUE)
                                   ELSE ShowLogin(ui), call.release)
                  /\ calls' = Done(i)
    /\ UNCHANGED <<cookie, server, failures, visit>>

\* Mutant: a refused deletion leaves its row as it is.
KeepRow(u, call) == u

\* The row of a deletion goes back to its first step when the deletion ends.
ResetRow(u, call) ==
    IF call.row THEN [u EXCEPT !.rows[call.bucket] = "plain"] ELSE u

ReceiveBuckets(i) ==
    /\ Answered(i, "buckets")
    /\ LET call == calls[i]
       IN  IF Answer(i) = 401
           THEN /\ ui' = Release(ResetRow(ShowLogin(ui), call), call.release)
                /\ calls' = Done(i)
           ELSE /\ ui' = Release(IF Answer(i) = 200
                                 THEN RenderBuckets(ui, call.reply.names)
                                 ELSE RenderBucketError(ui), call.release)
                /\ calls' = Detached(Done(i))
    /\ UNCHANGED <<cookie, server, failures, visit>>

\* Mutant: the answer of a page that was superseded is rendered as well.
CurrentBucketOnly(call, u) == u.selected = call.bucket

\* The answer belongs to the last load that was started, for the same bucket.
UpToDate(call, u) ==
    u.generation = call.generation /\ u.selected = call.bucket

EnablesMore(call, u) == u.generation = call.generation

ReceiveObjects(i) ==
    /\ Answered(i, "objects")
    /\ LET call == calls[i]
           u == CASE Answer(i) = 401 -> ShowLogin(ui)
                  [] Answer(i) = 404 -> CloseBrowser(ui)
                  [] Answer(i) = 200 ->
                       IF UpToDate(call, ui)
                       THEN RenderObjects(ui, call.reply.page, call.append) ELSE ui
                  [] OTHER -> IF ui.generation = call.generation
                              THEN [ui EXCEPT !.more = FALSE] ELSE ui
       IN  /\ ui' = IF EnablesMore(call, u) THEN Release(u, {"more"}) ELSE u
           /\ calls' = IF Answer(i) = 404 THEN GoOn(i, BucketsCall({}))
                       ELSE Done(i)
    /\ UNCHANGED <<cookie, server, failures, visit>>

ReceiveLogin(i) ==
    /\ Answered(i, "login")
    /\ IF Answer(i) = 200
       THEN /\ cookie' = calls[i].reply.cookie
            /\ ui' = [ui EXCEPT !.busy = @ \union {"refresh"}]
            /\ calls' = GoOn(i, [StatusCall(FALSE, TRUE, {"submit"})
                                 EXCEPT !.cookie = cookie'])
       ELSE /\ ui' = Release(ShowLogin(ui), {"submit"})
            /\ calls' = Done(i)
            /\ UNCHANGED cookie
    /\ UNCHANGED <<server, failures, visit>>

ReceiveLogout(i) ==
    /\ Answered(i, "logout")
    /\ ui' = Release(IF Answer(i) \in {200, 401} THEN ShowLogin(ui) ELSE ui,
                     {"logout"})
    /\ cookie' = IF Answer(i) = 200 THEN calls[i].reply.cookie ELSE cookie
    /\ calls' = Done(i)
    /\ UNCHANGED <<server, failures, visit>>

ReceiveCreate(i) ==
    /\ Answered(i, "create")
    /\ IF Answer(i) = 200
       THEN calls' = GoOn(i, BucketsCall({"create"})) /\ UNCHANGED ui
       ELSE /\ ui' = Release(IF Answer(i) = 401 THEN ShowLogin(ui) ELSE ui, {"create"})
            /\ calls' = Done(i)
    /\ UNCHANGED <<cookie, server, failures, visit>>

ReceiveDelete(i) ==
    /\ Answered(i, "delete")
    /\ LET call == calls[i]
       IN  IF Answer(i) \in {200, 404}
           THEN /\ calls' = GoOn(i, [BucketsCall({}) EXCEPT !.bucket = call.bucket,
                                                            !.row = call.row])
                /\ UNCHANGED ui
           ELSE /\ ui' = ResetRow(IF Answer(i) = 401 THEN ShowLogin(ui) ELSE ui, call)
                /\ calls' = Done(i)
    /\ UNCHANGED <<cookie, server, failures, visit>>

Receive(i) ==
    \/ ReceiveStatus(i) \/ ReceiveBuckets(i) \/ ReceiveObjects(i)
    \/ ReceiveLogin(i) \/ ReceiveLogout(i) \/ ReceiveCreate(i) \/ ReceiveDelete(i)

(***************************************************************************)
(* Clicks and timers                                                       *)
(***************************************************************************)
\* A control can be used when its part of the page shows and is not busy.
\* Clicks leave a slot to the health poll.
Usable(click, view, button) ==
    /\ click \in visit.clicks
    /\ ui.view = view /\ button \notin ui.busy
    /\ Cardinality(FreeSlots) > 1

Browser == UNCHANGED <<cookie, server, failures, visit>>

Refresh ==
    /\ Usable("refresh", "workbench", "refresh")
    /\ Send(StatusCall(FALSE, TRUE, {}))
    /\ ui' = [ui EXCEPT !.busy = @ \union {"refresh"}]
    /\ Browser

Submit ==
    /\ Usable("login", "login", "submit")
    /\ Send(Call("login"))
    /\ ui' = [ui EXCEPT !.busy = @ \union {"submit"}]
    /\ Browser

Logout ==
    /\ Usable("logout", "workbench", "logout")
    /\ Send(Call("logout"))
    /\ ui' = [ui EXCEPT !.busy = @ \union {"logout"}]
    /\ Browser

Create(b) ==
    /\ Usable("create", "workbench", "create")
    /\ Send([Call("create") EXCEPT !.bucket = b])
    /\ ui' = [ui EXCEPT !.busy = @ \union {"create"}]
    /\ Browser

\* The first click on Delete asks for a confirmation, the second one sends
\* the request, Cancel withdraws.
AskDelete(b) ==
    /\ Usable("delete", "workbench", "none") /\ ui.rows[b] = "plain"
    /\ ui' = [ui EXCEPT !.rows[b] = "confirm"]
    /\ UNCHANGED calls /\ Browser

CancelDelete(b) ==
    /\ Usable("delete", "workbench", "none") /\ ui.rows[b] = "confirm"
    /\ ui' = [ui EXCEPT !.rows[b] = "plain"]
    /\ UNCHANGED calls /\ Browser

ConfirmDelete(b) ==
    /\ Usable("delete", "workbench", "none") /\ ui.rows[b] = "confirm"
    /\ Send([Call("delete") EXCEPT !.bucket = b, !.row = TRUE])
    /\ ui' = [ui EXCEPT !.rows[b] = "deleting"]
    /\ Browser

Browse(b) ==
    /\ Usable("browse", "workbench", "none") /\ ui.rows[b] # "absent"
    /\ LoadObjects([ui EXCEPT !.selected = b, !.token = 0], b, FALSE)
    /\ Browser

More ==
    /\ Usable("browse", "workbench", "more")
    /\ ui.selected # NoBucket /\ ui.more
    /\ LoadObjects(ui, ui.selected, TRUE)
    /\ Browser

Close ==
    /\ Usable("browse", "workbench", "none") /\ ui.selected # NoBucket
    /\ ui.generation < visit.loads
    /\ ui' = CloseBrowser(ui)
    /\ UNCHANGED calls /\ Browser

TimerFires ==
    /\ \E t \in ui.timers :
          /\ Send(StatusCall(TRUE, t.inventory, {}))
          /\ ui' = [ui EXCEPT !.timers = @ \ {t}]
    /\ Browser

(***************************************************************************)
(* Specification                                                           *)
(***************************************************************************)
\* The page is opened with or without a session of an earlier visit.
Init ==
    /\ ui = [Page("none") EXCEPT !.busy = {"refresh"}]
    /\ sessions \in {0, 1} /\ cookie = sessions /\ live = 1..sessions
    /\ calls = [i \in Slots |-> IF i = 1 THEN StatusCall(FALSE, TRUE, {}) ELSE Idle]
    /\ stored \in SUBSET Buckets
    /\ visit \in Visits
    /\ failures = 0 /\ changes = 0

Click ==
    \/ Refresh \/ Submit \/ Logout
    \/ \E b \in Buckets : \/ Create(b) \/ AskDelete(b) \/ CancelDelete(b)
                          \/ ConfirmDelete(b) \/ Browse(b)
    \/ More \/ Close

Next ==
    \/ \E i \in Slots : Serve(i) \/ Lose(i) \/ Receive(i)
    \/ Expire \/ External
    \/ Click
    \/ TimerFires

\* Every fetch ends with an answer or an error that the page gets to handle,
\* and timers fire; the user owes nothing.
Fairness ==
    /\ \A i \in Slots : WF_vars(Serve(i)) /\ WF_vars(Receive(i))
    /\ WF_vars(TimerFires)

Spec == Init /\ [][Next]_vars /\ Fairness

(***************************************************************************)
(* Properties                                                              *)
(***************************************************************************)
StatusUnderWay == \E i \in Slots : calls[i] # Idle /\ calls[i].kind = "status"

\* The health of the server is polled exactly while the workbench shows:
\* never by two timers, never behind the sign-in form, and a workbench
\* without a timer has its status on the way.
OnePoll ==
    /\ Cardinality(ui.timers) <= 1
    /\ ui.view # "workbench" => ui.timers = {}
    /\ ui.view = "workbench" => ui.timers # {} \/ StatusUnderWay

LoadUnderWay == \E i \in Slots : calls[i] # Idle /\ calls[i].kind = "objects"

\* No request failed so far, and no session has ended.
Undisturbed == failures = 0 /\ live = 1..sessions

\* The object browser is open only over a bucket of the inventory, unless the
\* inventory could not be read.  When nothing is loading and no load has
\* failed, the objects listed are the first pages of the bucket that was
\* selected last, each once and in order.
BrowserTrue ==
    /\ ui.selected # NoBucket /\ ui.list = "shown" =>
           ui.rows[ui.selected] # "absent"
    /\ Undisturbed /\ ui.selected # NoBucket /\ ~LoadUnderWay =>
           \A n \in 1..Len(ui.pages) :
               ui.pages[n].bucket = ui.selected /\ ui.pages[n].number = n

=============================================================================

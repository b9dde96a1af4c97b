------------------------ MODULE ManagementConsoleProofs ------------------------
(***************************************************************************)
(* For every number of buckets, pages and fetches, and for every bound on  *)
(* what the user, the network and S3 clients do: the status is polled      *)
(* exactly while the workbench shows, and the object browser lists what it *)
(* says, however answers are overtaken.                                    *)
(***************************************************************************)
EXTENDS ManagementConsole, ArithmeticFacts, SequenceTheorems

Kinds == {"status", "buckets", "objects", "login", "logout", "create",
          "delete"}
Buttons == {"refresh", "submit", "logout", "create", "more"}
Views == {"none", "login", "workbench"}
RowStates == {"absent", "plain", "confirm", "deleting"}

ObjectPages == [bucket : Buckets, number : Nat, next : Nat]

Replies ==
    [status : {-1, 0, 200, 401, 404, 409}]
        \cup [status : {200}, cookie : Nat]
        \cup [status : {200}, names : SUBSET Buckets]
        \cup [status : {200}, page : ObjectPages]

Fetch ==
    [kind : Kinds, cookie : Nat, bucket : Buckets \cup {NoBucket},
     token : Nat, append : BOOLEAN, generation : Nat, quiet : BOOLEAN,
     inventory : BOOLEAN, release : SUBSET (Buttons \ {"more"}),
     row : BOOLEAN, reply : Replies]

UI ==
    [view : Views, timers : SUBSET [id : Nat, inventory : BOOLEAN],
     poll : Nat, rows : [Buckets -> RowStates],
     list : {"blank", "shown", "error"},
     selected : Buckets \cup {NoBucket}, token : Nat, generation : Nat,
     pages : Seq(ObjectPages), more : BOOLEAN, busy : SUBSET Buttons]

\* The bucket that a request is about.
Names(call) ==
    call.kind \in {"objects", "create", "delete"} => call.bucket \in Buckets

\* What the answers carry, by the kind of the fetch.
Carries(call) ==
  /\ call.kind = "objects" => call.reply.status # 409
  /\ call.reply.status = 200 =>
        CASE call.kind = "objects" ->
               call.reply = [status |-> 200,
                             page |-> ObjectPage(call.bucket, call.token)]
          [] call.kind = "buckets" ->
               call.reply \in [status : {200}, names : SUBSET Buckets]
          [] call.kind \in {"login", "logout"} ->
               call.reply \in [status : {200}, cookie : Nat]
          [] OTHER -> TRUE

CallOK(call) ==
    call # Idle => call \in Fetch /\ Carries(call) /\ Names(call)

TypeOK ==
    /\ ui \in UI
    /\ calls \in [Slots -> Fetch \cup {Idle}]
    /\ \A i \in Slots : CallOK(calls[i])
    /\ cookie \in Nat /\ sessions \in Nat
    /\ live \subseteq 1..sessions
    /\ stored \subseteq Buckets
    /\ failures \in Nat /\ changes \in Nat
    /\ visit \in Bounds

\* The page remembers its only timer.
OneTimer(u) ==
    /\ \A t \in u.timers : t.id = u.poll
    /\ \A s, t \in u.timers : s = t

PollInv ==
    /\ OneTimer(ui)
    /\ ui.view # "workbench" => ui.timers = {}
    /\ ui.view = "workbench" => ui.timers # {} \/ StatusUnderWay

\* A session is noticed to be over only after it ended.
SessionInv ==
    /\ cookie \in 0..sessions
    /\ \A i \in Slots : calls[i] # Idle =>
        /\ calls[i].cookie \in 0..sessions
        /\ calls[i].reply.status = 200 /\ calls[i].kind \in {"login", "logout"} =>
                calls[i].reply.cookie \in 0..sessions
    /\ Undisturbed =>
        /\ cookie = 0 => /\ ui.view # "workbench"
                         /\ \A i \in Slots :
                                calls[i] # Idle => calls[i].cookie = 0
        /\ \A i \in Slots : calls[i] # Idle =>
            /\ calls[i].reply.status # -1
            /\ calls[i].reply.status = 200 =>
                /\ calls[i].kind = "login" => calls[i].reply.cookie # 0
                /\ calls[i].kind # "logout"
                /\ calls[i].kind # "login" => calls[i].cookie # 0
            /\ calls[i].kind = "objects" =>
                calls[i].cookie # 0 /\ calls[i].reply.status # 401

Loads(i) == calls[i] # Idle /\ calls[i].kind = "objects"

\* The pages listed are the first ones of the bucket selected.
InOrder(u) ==
    \A n \in 1..Len(u.pages) :
        u.pages[n].bucket = u.selected /\ u.pages[n].number = n

LoadInv ==
    /\ \A i \in Slots : Loads(i) =>
        calls[i].generation <= ui.generation
    /\ \A i, j \in Slots :
        Loads(i) /\ Loads(j) /\ calls[i].generation = calls[j].generation
            => i = j
    /\ \A i \in Slots :
        Loads(i) /\ calls[i].generation = ui.generation
            => "more" \in ui.busy

BrowserInv ==
    /\ ui.selected # NoBucket /\ ui.list = "shown" =>
           ui.rows[ui.selected] # "absent"
    /\ Undisturbed /\ ui.selected # NoBucket =>
        \/ /\ InOrder(ui) /\ (ui.more => ui.token = Len(ui.pages))
           /\ \A i \in Slots : ~(Loads(i) /\ calls[i].generation = ui.generation)
        \/ \E i \in Slots :
              /\ Loads(i) /\ calls[i].generation = ui.generation
              /\ calls[i].bucket = ui.selected
              /\ calls[i].append =>
                    InOrder(ui) /\ calls[i].token = Len(ui.pages)
              /\ ~calls[i].append => calls[i].token = 0

ConsoleInv == TypeOK /\ PollInv /\ SessionInv /\ LoadInv /\ BrowserInv


(***************************************************************************)
(* The operators of the page                                               *)
(***************************************************************************)
\* What the poll and what the object browser depend on.
PollSame(u, v) == v.view = u.view /\ v.timers = u.timers /\ v.poll = u.poll

BrowserSame(u, v) ==
    /\ v.selected = u.selected /\ v.token = u.token
    /\ v.generation = u.generation /\ v.pages = u.pages /\ v.more = u.more
    /\ "more" \in v.busy <=> "more" \in u.busy

RowShows(u) ==
    u.selected # NoBucket /\ u.list = "shown" => u.rows[u.selected] # "absent"

Signed(u) == u.view = "login" /\ u.timers = {}
Polled(u) == OneTimer(u) /\ u.timers # {}

\* A page that goes from u to v without a change of its object browser.
Turns(u, v) == v \in UI /\ BrowserSame(u, v) /\ (RowShows(u) => RowShows(v))

LEMMA TurnsOn ==
    ASSUME NEW u, NEW v, NEW w, Turns(u, v), Turns(v, w)
    PROVE  Turns(u, w)
BY DEF Turns, BrowserSame

LEMMA ClearedPage ==
    ASSUME NEW u \in UI, OneTimer(u)
    PROVE  /\ Turns(u, ClearTimer(u)) /\ ClearTimer(u).timers = {}
           /\ ClearTimer(u).view = u.view
<1> DEFINE v == ClearTimer(u)
<1>1. v = [u EXCEPT !.timers = {t \in u.timers : t.id # u.poll}]
  BY DEF ClearTimer
<1>2. {t \in u.timers : t.id # u.poll} = {}
  BY DEF OneTimer
<1>3. v = [u EXCEPT !.timers = {}]
  BY <1>1, <1>2
<1> HIDE DEF v
<1> QED
  BY <1>3 DEF Turns, BrowserSame, RowShows, UI, v

LEMMA LoginPage ==
    ASSUME NEW u \in UI, OneTimer(u)
    PROVE  Turns(u, ShowLogin(u)) /\ Signed(ShowLogin(u))
<1> DEFINE c == ClearTimer(u)
           v == ShowLogin(u)
<1>1. Turns(u, c) /\ c.timers = {}
  BY ClearedPage
<1>2. v = [c EXCEPT !.view = "login"]
  BY DEF ShowLogin
<1> HIDE DEF c, v
<1>3. Turns(c, v) /\ Signed(v)
  BY <1>1, <1>2 DEF Turns, BrowserSame, RowShows, UI, Views, Signed
<1> QED
  BY <1>1, <1>3, TurnsOn DEF v

\* A poll that is armed where no timer is pending.
LEMMA ArmedPage ==
    ASSUME NEW u \in UI, u.timers = {}, NEW inventory \in BOOLEAN
    PROVE  /\ Turns(u, SetTimer(u, inventory)) /\ Polled(SetTimer(u, inventory))
           /\ SetTimer(u, inventory).view = u.view
<1> DEFINE id == CHOOSE i \in 1..(Cardinality(u.timers) + 1) :
                    \A t \in u.timers : t.id # i
           timer == [id |-> id, inventory |-> inventory]
           v == SetTimer(u, inventory)
<1>1. id \in Nat
  <2>1. Cardinality(u.timers) = 0
    BY FS_EmptySet
  <2>2. 1 \in 1..(Cardinality(u.timers) + 1)
        /\ \A t \in u.timers : t.id # 1
    BY <2>1
  <2>3. id \in 1..(Cardinality(u.timers) + 1)
    BY <2>2
  <2> QED
    BY <2>1, <2>3
<1>2. v = [u EXCEPT !.timers = u.timers \union {timer}, !.poll = id]
  BY DEF SetTimer
<1> HIDE DEF id
<1>3. timer \in [id : Nat, inventory : BOOLEAN] /\ timer.id = id
  BY <1>1
<1> HIDE DEF timer, v
<1>4. Turns(u, v)
  BY <1>1, <1>2, <1>3 DEF Turns, BrowserSame, RowShows, UI
<1>5. v.timers = {timer} /\ v.poll = id /\ v.view = u.view
  BY <1>2 DEF UI
<1>6. Polled(v)
  BY <1>3, <1>5 DEF Polled, OneTimer
<1> QED
  BY <1>4, <1>5, <1>6 DEF v

LEMMA StatusPage ==
    ASSUME NEW u \in UI, OneTimer(u)
    PROVE  /\ Turns(u, RenderStatus(u)) /\ Polled(RenderStatus(u))
           /\ RenderStatus(u).view = "workbench"
<1> DEFINE w == [u EXCEPT !.view = "workbench"]
           c == ClearTimer(w)
<1>1. Turns(u, w) /\ OneTimer(w) /\ w.view = "workbench"
  BY DEF Turns, BrowserSame, RowShows, UI, Views, OneTimer
<1>2. Turns(w, c) /\ c.timers = {} /\ c.view = "workbench"
  BY <1>1, ClearedPage DEF Turns
<1> HIDE DEF w, c
<1>3. RenderStatus(u) = SetTimer(c, FALSE)
  BY DEF RenderStatus, c, w
<1>4. Turns(c, SetTimer(c, FALSE)) /\ Polled(SetTimer(c, FALSE))
      /\ SetTimer(c, FALSE).view = "workbench"
  BY <1>2, ArmedPage DEF Turns
<1> QED
  BY <1>1, <1>2, <1>3, <1>4, TurnsOn

LEMMA RearmedPage ==
    ASSUME NEW u \in UI, OneTimer(u)
    PROVE  /\ Turns(u, SetTimer(ClearTimer(u), TRUE))
           /\ Polled(SetTimer(ClearTimer(u), TRUE))
           /\ SetTimer(ClearTimer(u), TRUE).view = u.view
<1> DEFINE c == ClearTimer(u)
<1>1. Turns(u, c) /\ c.timers = {} /\ c.view = u.view
  BY ClearedPage
<1> HIDE DEF c
<1>2. /\ Turns(c, SetTimer(c, TRUE)) /\ Polled(SetTimer(c, TRUE))
      /\ SetTimer(c, TRUE).view = c.view
  BY <1>1, ArmedPage DEF Turns
<1> QED
  BY <1>1, <1>2, TurnsOn DEF c

LEMMA ReleasedPage ==
    ASSUME NEW u \in UI, NEW buttons, "more" \notin buttons
    PROVE  Turns(u, Release(u, buttons)) /\ PollSame(u, Release(u, buttons))
BY DEF Turns, BrowserSame, RowShows, PollSame, UI, Release

LEMMA BusyPage ==
    ASSUME NEW u \in UI, NEW button \in Buttons \ {"more"}
    PROVE  LET v == [u EXCEPT !.busy = @ \union {button}]
           IN  Turns(u, v) /\ PollSame(u, v)
BY DEF Turns, BrowserSame, RowShows, PollSame, UI

\* A row that shows is given another state in which it shows.
LEMMA RowPage ==
    ASSUME NEW u \in UI, NEW b, NEW state \in RowStates \ {"absent"}
    PROVE  LET v == [u EXCEPT !.rows[b] = state]
           IN  Turns(u, v) /\ PollSame(u, v)
<1> DEFINE v == [u EXCEPT !.rows[b] = state]
           rows == [u.rows EXCEPT ![b] = state]
<1>1. rows \in [Buckets -> RowStates]
  BY DEF UI
<1>2. \A d \in Buckets : u.rows[d] # "absent" => rows[d] # "absent"
  BY DEF UI
<1>3. v = [u EXCEPT !.rows = rows]
  OBVIOUS
<1> HIDE DEF v, rows
<1>4. v \in UI /\ v.rows = rows /\ v.list = u.list /\ v.selected = u.selected
  BY <1>1, <1>3 DEF UI
<1>5. BrowserSame(u, v) /\ PollSame(u, v)
  BY <1>3 DEF BrowserSame, PollSame, UI
<1>6. RowShows(u) => RowShows(v)
  BY <1>2, <1>4 DEF RowShows, UI
<1> QED
  BY <1>4, <1>5, <1>6 DEF Turns, v

(***************************************************************************)
(* The operators of the fetches                                            *)
(***************************************************************************)
LEMMA Slotted ==
    ASSUME TypeOK, NEW call, Send(call)
    PROVE  \E i \in Slots : /\ calls[i] = Idle
                            /\ calls' = [calls EXCEPT ![i] = call]
<1>1. /\ visit.calls \in Nat /\ visit.calls <= MaxCalls /\ MaxCalls \in Nat
      /\ FreeSlots # {}
  BY ConsoleAssumption DEF TypeOK, Bounds, Send
<1>2. FreeSlots \subseteq Slots /\ FreeSlots \subseteq Nat
      /\ \A i \in FreeSlots : calls[i] = Idle
  BY <1>1 DEF FreeSlots, Slots
<1>3. \E i \in FreeSlots : \A j \in FreeSlots : i <= j
  BY <1>1, <1>2, LeastNumber
<1> DEFINE i == CHOOSE i \in FreeSlots : \A j \in FreeSlots : i <= j
<1>4. i \in FreeSlots
  BY <1>3
<1>5. calls' = [calls EXCEPT ![i] = call]
  BY DEF Send
<1> HIDE DEF i
<1> QED
  BY <1>2, <1>4, <1>5

\* A fetch that has no answer yet.
Sent(call, kind) ==
    /\ call \in Fetch /\ Carries(call) /\ call.kind = kind
    /\ call.reply = Pending

LEMMA CallSent ==
    ASSUME cookie \in Nat, NEW kind \in Kinds
    PROVE  Sent(Call(kind), kind) /\ Call(kind).cookie = cookie
BY DEF Call, Sent, Fetch, Carries, Replies, Pending

LEMMA StatusSent ==
    ASSUME cookie \in Nat, NEW quiet \in BOOLEAN, NEW inventory \in BOOLEAN,
           NEW release \in SUBSET (Buttons \ {"more"})
    PROVE  LET call == StatusCall(quiet, inventory, release)
           IN  Sent(call, "status") /\ call.cookie = cookie
<1> DEFINE p == Call("status")
           r == release \union {"refresh"}
<1>1. Sent(p, "status") /\ p.cookie = cookie
  BY CallSent DEF Kinds
<1>2. r \in SUBSET (Buttons \ {"more"})
  BY DEF Buttons
<1>3. StatusCall(quiet, inventory, release)
        = [p EXCEPT !.quiet = quiet, !.inventory = inventory, !.release = r]
  BY DEF StatusCall
<1> DEFINE q == StatusCall(quiet, inventory, release)
<1> HIDE DEF p, r, q
<1>4. /\ q \in Fetch /\ q.kind = "status" /\ q.reply = Pending
      /\ q.cookie = cookie
  BY <1>1, <1>2, <1>3 DEF Sent, Fetch, q
<1>5. Carries(q)
  BY <1>4 DEF Carries, Pending
<1> QED
  BY <1>4, <1>5 DEF Sent, q

LEMMA BucketsSent ==
    ASSUME cookie \in Nat, NEW release \in SUBSET (Buttons \ {"more"})
    PROVE  LET call == BucketsCall(release)
           IN  Sent(call, "buckets") /\ call.cookie = cookie
BY CallSent DEF BucketsCall, Sent, Fetch, Carries, Kinds

\* How the fetches under way change: slot i gets the fetch q, or is freed.
LEMMA CallsSet ==
    ASSUME TypeOK, NEW i \in Slots, NEW q, CallOK(q),
           calls' = [calls EXCEPT ![i] = q]
    PROVE  /\ calls' \in [Slots -> Fetch \cup {Idle}]
           /\ \A j \in Slots : CallOK(calls'[j])
           /\ calls'[i] = q /\ \A j \in Slots \ {i} : calls'[j] = calls[j]
BY DEF TypeOK, CallOK

LEMMA IdleOK == CallOK(Idle) /\ \A q \in Fetch : q # Idle
BY DEF CallOK, Fetch, Kinds, Idle

\* Rows that are replaced let go of the deletions.
LEMMA DetachedCalls ==
    ASSUME NEW cs \in [Slots -> Fetch \cup {Idle}],
           \A j \in Slots : CallOK(cs[j])
    PROVE  /\ Detached(cs) \in [Slots -> Fetch \cup {Idle}]
           /\ \A j \in Slots :
                /\ CallOK(Detached(cs)[j])
                /\ Detached(cs)[j] = Idle <=> cs[j] = Idle
                /\ cs[j] # Idle =>
                    /\ Detached(cs)[j].kind = cs[j].kind
                    /\ Detached(cs)[j].cookie = cs[j].cookie
                    /\ Detached(cs)[j].bucket = cs[j].bucket
                    /\ Detached(cs)[j].token = cs[j].token
                    /\ Detached(cs)[j].append = cs[j].append
                    /\ Detached(cs)[j].generation = cs[j].generation
                    /\ Detached(cs)[j].reply = cs[j].reply
<1> DEFINE ds == Detached(cs)
<1>1. \A j \in Slots :
        ds[j] = IF cs[j] = Idle THEN Idle ELSE [cs[j] EXCEPT !.row = FALSE]
  BY DEF Detached
<1>2. ASSUME NEW j \in Slots, cs[j] = Idle
      PROVE  ds[j] = Idle /\ CallOK(ds[j])
  BY <1>1, <1>2, IdleOK
<1>3. ASSUME NEW p \in Fetch, Carries(p), Names(p)
      PROVE  LET q == [p EXCEPT !.row = FALSE]
             IN  /\ q \in Fetch /\ Carries(q) /\ Names(q) /\ q # Idle
                 /\ q.kind = p.kind /\ q.cookie = p.cookie
                 /\ q.bucket = p.bucket /\ q.token = p.token
                 /\ q.append = p.append /\ q.generation = p.generation
                 /\ q.reply = p.reply
  <2> DEFINE q == [p EXCEPT !.row = FALSE]
  <2>1. /\ q \in Fetch /\ q.kind = p.kind /\ q.cookie = p.cookie
        /\ q.bucket = p.bucket /\ q.token = p.token
        /\ q.append = p.append /\ q.generation = p.generation
        /\ q.reply = p.reply
    BY DEF Fetch
  <2> HIDE DEF q
  <2>2. Carries(q) /\ Names(q)
    BY <1>3, <2>1 DEF Carries, Names
  <2> QED
    BY <2>1, <2>2, IdleOK DEF q
<1>4. ds \in [Slots -> Fetch \cup {Idle}]
  <2>1. \A j \in Slots : ds[j] \in Fetch \cup {Idle}
    BY <1>1, <1>2, <1>3 DEF CallOK
  <2> QED
    BY <2>1 DEF Detached
<1> HIDE DEF ds
<1>5. ASSUME NEW j \in Slots, cs[j] # Idle
      PROVE  /\ CallOK(ds[j]) /\ ds[j] # Idle
             /\ ds[j].kind = cs[j].kind /\ ds[j].cookie = cs[j].cookie
             /\ ds[j].bucket = cs[j].bucket /\ ds[j].token = cs[j].token
             /\ ds[j].append = cs[j].append
             /\ ds[j].generation = cs[j].generation
             /\ ds[j].reply = cs[j].reply
  <2>1. cs[j] \in Fetch /\ Carries(cs[j]) /\ Names(cs[j]) /\ ds[j] = [cs[j] EXCEPT !.row = FALSE]
    BY <1>1, <1>5 DEF CallOK
  <2> QED
    BY <1>3, <2>1 DEF CallOK
<1> QED
  BY <1>2, <1>4, <1>5 DEF ds

(***************************************************************************)
(* Steps of the server and of the network                                  *)
(***************************************************************************)
\* The same fetch, with or without its answer and its row.
SameFetch(p, q) ==
    /\ q.kind = p.kind /\ q.cookie = p.cookie /\ q.bucket = p.bucket
    /\ q.token = p.token /\ q.append = p.append
    /\ q.generation = p.generation

\* Slot i gets the answer that q carries.
Replied(i, q) ==
    /\ calls[i] # Idle /\ q # Idle /\ CallOK(q) /\ SameFetch(calls[i], q)
    /\ calls' = [calls EXCEPT ![i] = q]

LEMMA ReplyTo ==
    ASSUME TypeOK, NEW i \in Slots, calls[i] # Idle, NEW reply \in Replies,
           Reply(i, reply),
           Carries([calls[i] EXCEPT !.reply = reply])
    PROVE  \E q : Replied(i, q) /\ q.reply = reply
<1> DEFINE p == calls[i]
           q == [p EXCEPT !.reply = reply]
<1>1. p \in Fetch
  BY DEF TypeOK
<1>2. q \in Fetch /\ SameFetch(p, q) /\ q.reply = reply
  BY <1>1 DEF Fetch, SameFetch
<1>3. calls' = [calls EXCEPT ![i] = q]
  BY DEF Reply, TypeOK
<1>4. Names(p)
  BY DEF TypeOK, CallOK
<1> HIDE DEF q
<1>5. CallOK(q)
  BY <1>2, <1>4 DEF CallOK, Names, SameFetch, q
<1> QED
  BY <1>2, <1>3, <1>5, IdleOK DEF Replied, q

\* An answer that carries nothing.
LEMMA ReplyPlain ==
    ASSUME TypeOK, NEW i \in Slots, calls[i] # Idle,
           NEW n \in {-1, 0, 200, 401, 404, 409},
           n = 200 => calls[i].kind \in {"status", "create", "delete"},
           n = 409 => calls[i].kind # "objects",
           Reply(i, [status |-> n])
    PROVE  \E q : Replied(i, q) /\ q.reply = [status |-> n]
<1> DEFINE p == calls[i]
           q == [p EXCEPT !.reply = [status |-> n]]
<1>1. [status |-> n] \in Replies
  BY DEF Replies
<1>2. p \in Fetch
  BY DEF TypeOK
<1>3. q.kind = p.kind /\ q.reply.status = n
  BY <1>2 DEF Fetch
<1>4. Carries(q)
  <2> HIDE DEF q
  <2> QED
    BY <1>3 DEF Carries
<1> QED
  BY <1>1, <1>4, ReplyTo

\* What the server answers, and what it knows of the sessions.
Served(i, q) ==
    /\ Replied(i, q) /\ q.reply.status # -1
    /\ sessions' \in Nat /\ sessions <= sessions' /\ live' \subseteq 1..sessions'
    /\ Undisturbed' => Undisturbed
    /\ q.reply.status = 200 /\ q.kind \in {"login", "logout"} =>
            q.reply.cookie \in 0..sessions'
    /\ q.reply.status = 200 /\ q.kind = "login" => q.reply.cookie # 0
    /\ q.reply.status = 200 /\ q.kind # "login" => q.cookie \in live
    /\ q.reply.status = 200 => q.kind # "logout" \/ ~Undisturbed'
    /\ q.reply.status = 401 => q.kind = "login" \/ q.cookie \notin live

LEMMA ServeAnswers ==
    ASSUME TypeOK, NEW i \in Slots, Serve(i)
    PROVE  /\ \E q : Served(i, q)
           /\ stored' \subseteq Buckets /\ changes' \in Nat
           /\ UNCHANGED <<ui, cookie, failures, visit>>
<1> DEFINE p == calls[i]
<1>1. /\ p # Idle /\ p \in Fetch /\ UNCHANGED <<ui, cookie, failures, visit>>
      /\ sessions \in Nat /\ live \subseteq 1..sessions
      /\ stored \subseteq Buckets /\ changes \in Nat
  BY DEF TypeOK, Serve
<1>2. CASE ServeRefusal(i)
  <2>1. Reply(i, [status |-> 401]) /\ UNCHANGED server
        /\ (p.kind = "login" \/ p.cookie \notin live)
    BY <1>2 DEF ServeRefusal, Refused
  <2>2. PICK q : Replied(i, q) /\ q.reply = [status |-> 401]
    BY <1>1, <2>1, ReplyPlain
  <2>3. Served(i, q)
    BY <1>1, <2>1, <2>2 DEF Served, server, Undisturbed, Replied, SameFetch
  <2> QED
    BY <1>1, <2>1, <2>3 DEF server
<1>3. CASE ServeLogin(i)
  <2> DEFINE reply == [status |-> 200, cookie |-> sessions + 1]
  <2>1. /\ p.kind = "login" /\ sessions' = sessions + 1
        /\ live' = live \union {sessions + 1}
        /\ Reply(i, reply) /\ UNCHANGED <<stored, changes>>
    BY <1>3 DEF ServeLogin
  <2>2. reply \in Replies /\ reply \in [status : {200}, cookie : Nat]
    BY <1>1 DEF Replies
  <2>3. Carries([p EXCEPT !.reply = reply])
    BY <1>1, <2>1, <2>2 DEF Carries, Fetch
  <2>4. PICK q : Replied(i, q) /\ q.reply = reply
    BY <1>1, <2>1, <2>2, <2>3, ReplyTo
  <2>5. Undisturbed' => Undisturbed
    <3>1. 1..sessions' = (1..sessions) \cup {sessions + 1}
          /\ sessions + 1 \notin 1..sessions
      BY <1>1, <2>1
    <3>2. live' = 1..sessions' => live = 1..sessions
      BY <1>1, <2>1, <3>1
    <3> QED
      BY <1>1, <3>2 DEF Undisturbed
  <2>6. Served(i, q)
    BY <1>1, <2>1, <2>4, <2>5 DEF Served, Replied, SameFetch
  <2> QED
    BY <1>1, <2>1, <2>6
<1>4. CASE ServeLogout(i)
  <2> DEFINE reply == [status |-> 200, cookie |-> 0]
  <2>1. /\ p.kind = "logout" /\ p.cookie \in live
        /\ live' = live \ {p.cookie}
        /\ Reply(i, reply) /\ UNCHANGED <<sessions, stored, changes>>
    BY <1>4 DEF ServeLogout, Refused
  <2>2. reply \in Replies /\ reply \in [status : {200}, cookie : Nat]
    BY DEF Replies
  <2>3. Carries([p EXCEPT !.reply = reply])
    BY <1>1, <2>1, <2>2 DEF Carries, Fetch
  <2>4. PICK q : Replied(i, q) /\ q.reply = reply
    BY <1>1, <2>1, <2>2, <2>3, ReplyTo
  <2>5. ~Undisturbed' /\ live' \subseteq 1..sessions'
    BY <1>1, <2>1 DEF Undisturbed
  <2>6. Served(i, q)
    BY <1>1, <2>1, <2>4, <2>5 DEF Served, Replied, SameFetch
  <2> QED
    BY <1>1, <2>1, <2>6
<1>5. ASSUME NEW q, Replied(i, q), q.reply.status # -1, q.reply.status # 401,
             p.kind \notin {"login", "logout"}, p.cookie \in live,
             UNCHANGED <<live, sessions>>
      PROVE  Served(i, q)
  BY <1>1, <1>5 DEF Served, Undisturbed, Replied, SameFetch
<1>6. CASE ServeRead(i)
  <2>1. /\ p.kind \in {"status", "buckets", "objects"} /\ p.cookie \in live
        /\ UNCHANGED server
    BY <1>6 DEF ServeRead, Refused
  <2>2. CASE p.kind = "status"
    <3>1. Reply(i, [status |-> 200])
      BY <1>6, <2>2 DEF ServeRead
    <3>2. PICK q : Replied(i, q) /\ q.reply = [status |-> 200]
      BY <1>1, <2>2, <3>1, ReplyPlain
    <3> QED
      BY <1>1, <1>5, <2>1, <2>2, <3>2 DEF server
  <2>3. CASE p.kind = "buckets"
    <3> DEFINE reply == [status |-> 200, names |-> stored]
    <3>1. Reply(i, reply)
      BY <1>6, <2>3 DEF ServeRead
    <3>2. reply \in Replies /\ reply \in [status : {200}, names : SUBSET Buckets]
      BY <1>1 DEF Replies
    <3>3. Carries([p EXCEPT !.reply = reply])
      BY <1>1, <2>3, <3>2 DEF Carries, Fetch
    <3>4. PICK q : Replied(i, q) /\ q.reply = reply
      BY <1>1, <3>1, <3>2, <3>3, ReplyTo
    <3> QED
      BY <1>1, <1>5, <2>1, <2>3, <3>4 DEF server
  <2>4. CASE p.kind = "objects" /\ p.bucket \in stored
    <3> DEFINE page == ObjectPage(p.bucket, p.token)
               reply == [status |-> 200, page |-> page]
    <3>1. Reply(i, reply)
      BY <1>6, <2>4 DEF ServeRead
    <3>2. page \in ObjectPages
      BY <1>1, <2>4, ConsoleAssumption DEF ObjectPage, ObjectPages, Fetch
    <3>3. reply \in Replies
      <4> HIDE DEF page
      <4> QED
        BY <3>2 DEF Replies
    <3>4. Carries([p EXCEPT !.reply = reply])
      BY <1>1, <2>4 DEF Carries, Fetch
    <3>5. PICK q : Replied(i, q) /\ q.reply = reply
      BY <1>1, <3>1, <3>3, <3>4, ReplyTo
    <3> QED
      BY <1>1, <1>5, <2>1, <2>4, <3>5 DEF server
  <2>5. CASE p.kind = "objects" /\ p.bucket \notin stored
    <3>1. Reply(i, [status |-> 404])
      BY <1>6, <2>5 DEF ServeRead
    <3>2. PICK q : Replied(i, q) /\ q.reply = [status |-> 404]
      BY <1>1, <3>1, ReplyPlain
    <3> QED
      BY <1>1, <1>5, <2>1, <2>5, <3>2 DEF server
  <2> QED
    BY <2>1, <2>2, <2>3, <2>4, <2>5
<1>7. CASE ServeChange(i)
  <2>1. /\ p.kind \in {"create", "delete"} /\ p.cookie \in live
        /\ UNCHANGED <<live, sessions>>
    BY <1>7 DEF ServeChange, Refused
  <2>2. PICK n \in {200, 404, 409} : Reply(i, [status |-> n])
    <3>1. \/ Reply(i, [status |-> 200])
          \/ \E s \in Refusals(p) : Reply(i, [status |-> s])
      BY <1>7, Zenon DEF ServeChange
    <3>2. Refusals(p) \subseteq {404, 409}
      BY DEF Refusals
    <3>3. ASSUME NEW s \in Refusals(p), Reply(i, [status |-> s])
          PROVE  \E m \in {200, 404, 409} : Reply(i, [status |-> m])
      <4>1. s \in {200, 404, 409}
        BY <3>2
      <4>2. WITNESS s \in {200, 404, 409}
      <4> QED
        BY <3>3
    <3>4. 200 \in {200, 404, 409}
      OBVIOUS
    <3> QED
      BY <3>1, <3>3, <3>4, Zenon
  <2>3. stored' \subseteq Buckets /\ changes' \in Nat
    <3>1. p.bucket \in Buckets
      BY <1>1, <2>1 DEF TypeOK, CallOK, Names
    <3> QED
      BY <1>1, <1>7, <3>1 DEF ServeChange
  <2>4. PICK q : Replied(i, q) /\ q.reply = [status |-> n]
    BY <1>1, <2>1, <2>2, ReplyPlain
  <2> QED
    BY <1>1, <1>5, <2>1, <2>3, <2>4
<1> QED
  BY <1>2, <1>3, <1>4, <1>6, <1>7 DEF Serve

(***************************************************************************)
(* Steps of the page                                                       *)
(***************************************************************************)
Kept(j) ==
    /\ calls'[j] = Idle <=> calls[j] = Idle
    /\ calls[j] # Idle => /\ SameFetch(calls[j], calls'[j])
                          /\ calls'[j].reply = calls[j].reply

\* Slot i passes to q, a new fetch or none.
Passes(i, q) ==
    /\ calls' \in [Slots -> Fetch \cup {Idle}]
    /\ \A j \in Slots : CallOK(calls'[j])
    /\ calls'[i] = q
    /\ \A j \in Slots \ {i} : Kept(j)

LEMMA PassesSet ==
    ASSUME TypeOK, NEW i \in Slots, NEW q, CallOK(q),
           calls' = [calls EXCEPT ![i] = q]
    PROVE  Passes(i, q)
<1>1. /\ calls' \in [Slots -> Fetch \cup {Idle}]
      /\ \A j \in Slots : CallOK(calls'[j])
      /\ calls'[i] = q /\ \A j \in Slots \ {i} : calls'[j] = calls[j]
  BY CallsSet
<1> QED
  BY <1>1 DEF Passes, Kept, SameFetch

LEMMA PassesDone ==
    ASSUME TypeOK, NEW i \in Slots, calls' = Done(i)
    PROVE  Passes(i, Idle)
BY PassesSet, IdleOK DEF Done

LEMMA PassesDetached ==
    ASSUME TypeOK, NEW i \in Slots, calls' = Detached(Done(i))
    PROVE  Passes(i, Idle)
<1> DEFINE cs == Done(i)
<1>1. /\ cs \in [Slots -> Fetch \cup {Idle}] /\ \A j \in Slots : CallOK(cs[j])
      /\ cs[i] = Idle /\ \A j \in Slots \ {i} : cs[j] = calls[j]
  BY IdleOK DEF TypeOK, Done
<1> HIDE DEF cs
<1>2. calls' = Detached(cs)
  BY DEF cs
<1> QED
  BY <1>1, <1>2, DetachedCalls DEF Passes, Kept, SameFetch

\* A fetch is put into a free slot.
LEMMA PassesSent ==
    ASSUME TypeOK, NEW q, CallOK(q), Send(q)
    PROVE  \E i \in Slots : calls[i] = Idle /\ Passes(i, q)
BY Slotted, PassesSet

\* A click leaves the fetches alone.
LEMMA PassesNone ==
    ASSUME TypeOK, NEW click, NEW view, NEW button,
           Usable(click, view, button), UNCHANGED calls
    PROVE  \E i \in Slots : calls[i] = Idle /\ Passes(i, Idle)
<1>1. FreeSlots # {}
  BY FS_EmptySet DEF Usable
<1>2. PICK i \in FreeSlots : TRUE
  BY <1>1
<1>3. i \in Slots /\ calls[i] = Idle
  BY <1>2, ConsoleAssumption DEF FreeSlots, Slots, TypeOK, Bounds
<1>4. calls' = [calls EXCEPT ![i] = Idle]
  BY <1>3 DEF TypeOK
<1> QED
  BY <1>3, <1>4, PassesSet, IdleOK

\* What the page does leaves the sessions as they are.
Away == UNCHANGED <<server, failures, visit>>

LEMMA TypesStay ==
    ASSUME TypeOK, Away, ui' \in UI, cookie' \in Nat,
           NEW i \in Slots, NEW q, Passes(i, q)
    PROVE  TypeOK'
BY DEF TypeOK, Away, server, Passes

\* The status is polled as before, or not at all, or again.
LEMMA PollStays ==
    ASSUME PollInv, PollSame(ui, ui'), StatusUnderWay => StatusUnderWay'
    PROVE  PollInv'
BY DEF PollInv, PollSame, OneTimer

LEMMA PollEnds ==
    ASSUME Signed(ui')
    PROVE  PollInv'
BY DEF PollInv, Signed, OneTimer

LEMMA PollStarts ==
    ASSUME Polled(ui'), ui'.view = "workbench"
    PROVE  PollInv'
BY DEF PollInv, Polled

LEMMA StatusKept ==
    ASSUME TypeOK, NEW i \in Slots, NEW q, Passes(i, q),
           calls[i] = Idle \/ calls[i].kind # "status"
    PROVE  StatusUnderWay => StatusUnderWay'
BY DEF StatusUnderWay, Passes, Kept, SameFetch

\* The sessions, when slot i passes to a fetch with the cookie of the page.
LEMMA SessionStays ==
    ASSUME TypeOK, SessionInv, Away, NEW i \in Slots, NEW q, Passes(i, q),
           cookie' \in 0..sessions,
           q # Idle => /\ q.reply = Pending /\ q.cookie = cookie'
                       /\ Undisturbed /\ q.kind = "objects" => cookie' # 0,
           Undisturbed /\ cookie' = 0 => cookie = 0 /\ ui'.view # "workbench"
    PROVE  SessionInv'
<1>1. sessions' = sessions /\ (Undisturbed' <=> Undisturbed)
  BY DEF Away, server, Undisturbed
<1>2. \A j \in Slots \ {i} :
        /\ calls'[j] = Idle <=> calls[j] = Idle
        /\ calls[j] # Idle =>
            /\ calls'[j].kind = calls[j].kind
            /\ calls'[j].cookie = calls[j].cookie
            /\ calls'[j].reply = calls[j].reply
  BY DEF Passes, Kept, SameFetch
<1>3. calls'[i] = q
  BY DEF Passes
<1>4. \A j \in Slots : calls'[j] # Idle =>
        /\ calls'[j].cookie \in 0..sessions
        /\ calls'[j].reply.status = 200
             /\ calls'[j].kind \in {"login", "logout"} =>
                  calls'[j].reply.cookie \in 0..sessions
  BY <1>2, <1>3 DEF SessionInv, Pending
<1>5. ASSUME Undisturbed, cookie' = 0
      PROVE  /\ ui'.view # "workbench"
             /\ \A j \in Slots : calls'[j] # Idle => calls'[j].cookie = 0
  BY <1>2, <1>3, <1>5 DEF SessionInv
<1>6. ASSUME Undisturbed, NEW j \in Slots, calls'[j] # Idle
      PROVE  /\ calls'[j].reply.status # -1
             /\ calls'[j].reply.status = 200 =>
                 /\ calls'[j].kind = "login" => calls'[j].reply.cookie # 0
                 /\ calls'[j].kind # "logout"
                 /\ calls'[j].kind # "login" => calls'[j].cookie # 0
             /\ calls'[j].kind = "objects" =>
                 calls'[j].cookie # 0 /\ calls'[j].reply.status # 401
  BY <1>2, <1>3, <1>6 DEF SessionInv, Pending
<1> QED
  BY <1>1, <1>4, <1>5, <1>6 DEF SessionInv

(***************************************************************************)
(* The object browser                                                      *)
(***************************************************************************)
\* The loads under way are the same ones.
LoadsKept ==
    \A j \in Slots :
        /\ Loads(j)' <=> Loads(j)
        /\ Loads(j) => SameFetch(calls[j], calls'[j])

LEMMA LoadsPass ==
    ASSUME NEW i \in Slots, NEW q, Passes(i, q),
           calls[i] = Idle \/ calls[i].kind # "objects",
           q = Idle \/ q.kind # "objects"
    PROVE  LoadsKept
BY DEF LoadsKept, Loads, Passes, Kept, SameFetch

LEMMA BrowserStays ==
    ASSUME LoadInv, BrowserInv, LoadsKept, BrowserSame(ui, ui'),
           RowShows(ui'), Undisturbed' => Undisturbed
    PROVE  LoadInv' /\ BrowserInv'
<1>1. /\ ui'.selected = ui.selected /\ ui'.token = ui.token
      /\ ui'.generation = ui.generation /\ ui'.pages = ui.pages
      /\ ui'.more = ui.more /\ ("more" \in ui'.busy <=> "more" \in ui.busy)
  BY DEF BrowserSame
<1>2. \A j \in Slots :
        /\ Loads(j)' <=> Loads(j)
        /\ Loads(j) => /\ calls'[j].bucket = calls[j].bucket
                       /\ calls'[j].token = calls[j].token
                       /\ calls'[j].append = calls[j].append
                       /\ calls'[j].generation = calls[j].generation
  BY DEF LoadsKept, SameFetch
<1>3. LoadInv'
  BY <1>1, <1>2 DEF LoadInv
<1>4. InOrder(ui)' <=> InOrder(ui)
  BY <1>1 DEF InOrder
<1>5. BrowserInv'
  BY <1>1, <1>2, <1>4 DEF BrowserInv, RowShows
<1> QED
  BY <1>3, <1>5

\* The browser is closed: the loads under way are out of date.
Closed(u, v) ==
    /\ v \in UI /\ v.generation = u.generation + 1
    /\ v.selected = NoBucket

LEMMA BrowserCloses ==
    ASSUME TypeOK, LoadInv, Closed(ui, ui'),
           \A j \in Slots : Loads(j)' =>
               Loads(j) /\ SameFetch(calls[j], calls'[j])
    PROVE  LoadInv' /\ BrowserInv'
<1>1. ui'.generation = ui.generation + 1 /\ ui.generation \in Nat
      /\ ui'.selected = NoBucket
  BY DEF Closed, TypeOK, UI
<1>2. \A j \in Slots : Loads(j)' =>
        Loads(j) /\ calls'[j].generation = calls[j].generation
  BY DEF SameFetch
<1>3. \A j \in Slots : Loads(j) =>
        calls[j].generation \in Nat /\ calls[j].generation <= ui.generation
  BY DEF TypeOK, LoadInv, Loads, CallOK, Fetch
<1>4. \A j \in Slots : Loads(j)' =>
        /\ calls'[j].generation <= ui'.generation
        /\ calls'[j].generation # ui'.generation
  BY <1>1, <1>2, <1>3
<1>5. LoadInv'
  BY <1>2, <1>4 DEF LoadInv
<1>6. BrowserInv'
  BY <1>1 DEF BrowserInv
<1> QED
  BY <1>5, <1>6

\* A load is started for the bucket selected: of its first page, or of the
\* page after those listed.
LEMMA LoadStarts ==
    ASSUME TypeOK, LoadInv, RowShows(ui'),
           NEW i \in Slots, calls[i] = Idle,
           NEW q, q \in Fetch, q.kind = "objects", Passes(i, q),
           ui'.generation = ui.generation + 1, q.generation = ui'.generation,
           "more" \in ui'.busy, q.bucket = ui'.selected,
           Undisturbed' => /\ q.append => InOrder(ui') /\ q.token = Len(ui'.pages)
                           /\ ~q.append => q.token = 0
    PROVE  LoadInv' /\ BrowserInv'
<1>1. ui.generation \in Nat
  BY DEF TypeOK, UI
<1>2. Loads(i)' /\ calls'[i] = q /\ ~Loads(i)
  BY IdleOK DEF Loads, Passes
<1>3. \A j \in Slots \ {i} :
        /\ Loads(j)' <=> Loads(j)
        /\ Loads(j) => calls'[j].generation = calls[j].generation
  BY DEF Passes, Kept, Loads, SameFetch
<1>4. \A j \in Slots : Loads(j) =>
        calls[j].generation \in Nat /\ calls[j].generation <= ui.generation
  BY DEF TypeOK, LoadInv, Loads, CallOK, Fetch
<1>5. \A j \in Slots \ {i} : Loads(j)' =>
        /\ calls'[j].generation <= ui'.generation
        /\ calls'[j].generation # ui'.generation
  BY <1>1, <1>3, <1>4
<1>6. LoadInv'
  <2>1. \A j \in Slots : Loads(j)' => calls'[j].generation <= ui'.generation
    BY <1>1, <1>2, <1>5
  <2>2. \A j, k \in Slots :
          Loads(j)' /\ Loads(k)' /\ calls'[j].generation = calls'[k].generation
            => j = k
    BY <1>2, <1>3, <1>5 DEF LoadInv
  <2> QED
    BY <2>1, <2>2 DEF LoadInv
<1>7. BrowserInv'
  BY <1>2 DEF BrowserInv, RowShows, InOrder
<1> QED
  BY <1>6, <1>7

\* The answer of the only load that is up to date adds the next page.
LEMMA ObjectsListed ==
    ASSUME NEW u \in UI, NEW bucket \in Buckets, NEW token \in Nat,
           NEW append \in BOOLEAN, u.selected = bucket,
           append => InOrder(u) /\ token = Len(u.pages),
           ~append => token = 0
    PROVE  LET v == RenderObjects(u, ObjectPage(bucket, token), append)
           IN  InOrder(v) /\ (v.more => v.token = Len(v.pages))
<1> DEFINE page == ObjectPage(bucket, token)
           first == IF append THEN u.pages ELSE <<>>
           pages == first \o (IF page.number = 0 THEN <<>> ELSE <<page>>)
           v == RenderObjects(u, page, append)
<1>1. Pages[bucket] \in Nat /\ u.pages \in Seq(ObjectPages)
  BY ConsoleAssumption DEF UI
<1>2. /\ page \in ObjectPages /\ page.bucket = bucket
      /\ page.number = (IF Pages[bucket] = 0 THEN 0 ELSE token + 1)
      /\ page.next = (IF token + 1 < Pages[bucket] THEN token + 1 ELSE 0)
  BY <1>1 DEF ObjectPage, ObjectPages
<1>3. v = [u EXCEPT !.pages = pages, !.token = page.next,
                    !.more = page.next # 0]
  BY DEF RenderObjects
<1>4. /\ v.pages = pages /\ v.token = page.next /\ v.more = (page.next # 0)
      /\ v.selected = bucket
  <2> HIDE DEF v, pages, page
  <2> QED
    BY <1>3 DEF UI
<1>5. /\ first \in Seq(ObjectPages) /\ Len(first) = token
      /\ \A n \in 1..token : first[n].bucket = bucket /\ first[n].number = n
  BY <1>1 DEF InOrder
<1> HIDE DEF first, v
<1>6. CASE page.number = 0
  <2>1. pages = first
    BY <1>5, <1>6
  <2>2. page.next = 0
    BY <1>1, <1>2, <1>6
  <2> HIDE DEF pages, page
  <2>3. InOrder(v) /\ ~v.more
    BY <1>4, <1>5, <2>1, <2>2 DEF InOrder
  <2> QED
    BY <2>3 DEF v, page
<1>7. CASE page.number # 0
  <2>1. pages = Append(first, page)
    BY <1>2, <1>5, <1>7
  <2>2. page.number = token + 1 /\ (page.next # 0 => page.next = token + 1)
    BY <1>1, <1>2, <1>7
  <2>3. page.bucket = bucket /\ page \in ObjectPages
    BY <1>2
  <2> HIDE DEF pages, page
  <2>4. Len(pages) = token + 1 /\ pages[token + 1] = page
        /\ \A n \in 1..token : pages[n] = first[n]
    BY <1>5, <2>1, <2>3
  <2>5. \A n \in 1..(token + 1) : n \in 1..token \/ n = token + 1
    OBVIOUS
  <2>6. InOrder(v)
    BY <1>4, <1>5, <2>2, <2>3, <2>4, <2>5 DEF InOrder
  <2>7. v.more => v.token = Len(v.pages)
    BY <1>4, <2>2, <2>4
  <2> QED
    BY <2>6, <2>7 DEF v, page
<1> QED
  BY <1>6, <1>7

LEMMA ObjectsShown ==
    ASSUME NEW u \in UI, NEW page \in ObjectPages, NEW append \in BOOLEAN
    PROVE  LET v == RenderObjects(u, page, append)
           IN  /\ v \in UI /\ PollSame(u, v) /\ v.generation = u.generation
               /\ v.selected = u.selected /\ (RowShows(u) => RowShows(v))
               /\ v.busy = u.busy
<1> DEFINE pages == (IF append THEN u.pages ELSE <<>>)
                      \o (IF page.number = 0 THEN <<>> ELSE <<page>>)
           more == page.next # 0
           v == RenderObjects(u, page, append)
<1>1. pages \in Seq(ObjectPages)
  BY DEF UI
<1>2. v = [u EXCEPT !.pages = pages, !.token = page.next, !.more = more]
  BY DEF RenderObjects
<1>3. page.next \in Nat /\ more \in BOOLEAN
  BY DEF ObjectPages
<1> HIDE DEF pages, more, v
<1>4. v \in UI
  BY <1>1, <1>2, <1>3 DEF UI
<1>5. PollSame(u, v) /\ v.generation = u.generation
      /\ v.selected = u.selected /\ (RowShows(u) => RowShows(v))
      /\ v.busy = u.busy
  BY <1>2 DEF PollSame, RowShows, UI
<1> QED
  BY <1>4, <1>5 DEF v

LEMMA ClosedPage ==
    ASSUME NEW u \in UI
    PROVE  Closed(u, CloseBrowser(u)) /\ PollSame(u, CloseBrowser(u))
<1> DEFINE generation == u.generation + 1
           v == CloseBrowser(u)
<1>1. <<>> \in Seq(ObjectPages) /\ generation \in Nat
  BY DEF UI
<1>2. v = [u EXCEPT !.generation = generation, !.selected = NoBucket,
                    !.token = 0, !.pages = <<>>]
  BY DEF CloseBrowser
<1>3. generation = u.generation + 1
  OBVIOUS
<1> HIDE DEF v, generation
<1>4. v \in UI
  BY <1>1, <1>2 DEF UI
<1>5. PollSame(u, v) /\ v.generation = generation /\ v.selected = NoBucket
  BY <1>2 DEF PollSame, UI
<1> QED
  BY <1>3, <1>4, <1>5 DEF Closed, v

\* A new inventory closes the browser of a bucket that is not in it.
LEMMA BucketsPage ==
    ASSUME NEW u \in UI, NEW names \in SUBSET Buckets
    PROVE  LET v == RenderBuckets(u, names)
           IN  /\ v \in UI /\ PollSame(u, v)
               /\ (BrowserSame(u, v) /\ RowShows(v)) \/ Closed(u, v)
<1> DEFINE rows == [b \in Buckets |-> IF b \in names THEN "plain" ELSE "absent"]
           w == [u EXCEPT !.list = "shown", !.rows = rows]
           v == RenderBuckets(u, names)
<1>1. rows \in [Buckets -> RowStates] /\ \A b \in names : rows[b] = "plain"
  BY DEF RowStates
<1>2. v = IF u.selected \in names \union {NoBucket} THEN w ELSE CloseBrowser(w)
  BY DEF RenderBuckets
<1> HIDE DEF rows, v
<1>3. /\ w \in UI /\ PollSame(u, w) /\ BrowserSame(u, w) /\ w.rows = rows
      /\ w.generation = u.generation
  BY <1>1 DEF UI, PollSame, BrowserSame
<1>4. CASE u.selected \in names \union {NoBucket}
  <2>1. RowShows(w)
    BY <1>1, <1>3, <1>4 DEF RowShows, BrowserSame
  <2> QED
    BY <1>2, <1>3, <1>4, <2>1 DEF v
<1>5. CASE u.selected \notin names \union {NoBucket}
  <2>1. v = CloseBrowser(w)
    BY <1>2, <1>5
  <2>2. Closed(w, v) /\ PollSame(w, v)
    BY <1>3, <2>1, ClosedPage
  <2>3. Closed(u, v) /\ PollSame(u, v)
    BY <1>3, <2>2 DEF Closed, PollSame
  <2> QED
    BY <2>3 DEF Closed, v
<1> QED
  BY <1>4, <1>5

LEMMA ErrorPage ==
    ASSUME NEW u \in UI
    PROVE  LET v == RenderBucketError(u)
           IN  v \in UI /\ PollSame(u, v) /\ BrowserSame(u, v) /\ RowShows(v)
<1> DEFINE rows == [b \in Buckets |-> "absent"]
           v == RenderBucketError(u)
<1>1. rows \in [Buckets -> RowStates]
  BY DEF RowStates
<1>2. v = [u EXCEPT !.list = "error", !.rows = rows]
  BY DEF RenderBucketError
<1> HIDE DEF rows, v
<1> QED
  BY <1>1, <1>2 DEF UI, PollSame, BrowserSame, RowShows, v

(***************************************************************************)
(* The invariant                                                           *)
(***************************************************************************)
\* A step of the page in which slot i passes to q, both no loads.
LEMMA PageTurns ==
    ASSUME ConsoleInv, Away, NEW i \in Slots, NEW q, Passes(i, q),
           calls[i] = Idle \/ calls[i].kind # "objects",
           q # Idle => /\ q.reply = Pending /\ q.cookie = cookie'
                       /\ q.kind # "objects",
           ui' \in UI,
           (BrowserSame(ui, ui') /\ RowShows(ui')) \/ Closed(ui, ui'),
           cookie' \in 0..sessions,
           Undisturbed /\ cookie' = 0 => cookie = 0 /\ ui'.view # "workbench",
           PollInv'
    PROVE  ConsoleInv'
<1>1. TypeOK /\ SessionInv /\ LoadInv /\ BrowserInv /\ cookie' \in Nat
  BY DEF ConsoleInv, TypeOK
<1>2. TypeOK'
  BY <1>1, TypesStay
<1>3. SessionInv'
  BY <1>1, SessionStays
<1>4. LoadsKept
  BY LoadsPass
<1>5. Undisturbed' => Undisturbed
  BY DEF Away, server, Undisturbed
<1>6. LoadInv' /\ BrowserInv'
  <2>1. CASE BrowserSame(ui, ui') /\ RowShows(ui')
    BY <1>1, <1>4, <1>5, <2>1, BrowserStays
  <2>2. CASE Closed(ui, ui')
    BY <1>1, <1>4, <2>2, BrowserCloses DEF LoadsKept
  <2> QED
    BY <2>1, <2>2
<1> QED
  BY <1>2, <1>3, <1>6 DEF ConsoleInv

\* A step of the page that keeps its cookie and its object browser.
LEMMA PageStays ==
    ASSUME ConsoleInv, Away, UNCHANGED cookie, Turns(ui, ui'),
           NEW i \in Slots, NEW q, Passes(i, q),
           calls[i] = Idle \/ calls[i].kind # "objects",
           q # Idle => /\ q.reply = Pending /\ q.cookie = cookie
                       /\ q.kind # "objects",
           \/ PollSame(ui, ui') /\ (StatusUnderWay => StatusUnderWay')
           \/ Signed(ui')
           \/ /\ Polled(ui') /\ ui'.view = "workbench"
              /\ Undisturbed => cookie # 0
    PROVE  ConsoleInv'
<1>1. cookie \in 0..sessions /\ (Undisturbed /\ cookie = 0 => ui.view # "workbench")
  BY DEF ConsoleInv, SessionInv
<1>2. RowShows(ui) /\ PollInv
  BY DEF ConsoleInv, BrowserInv, RowShows
<1>3. ui' \in UI /\ BrowserSame(ui, ui') /\ RowShows(ui')
  BY <1>2 DEF Turns
<1>4. PollInv'
  BY <1>2, PollStays, PollEnds, PollStarts
<1>5. Undisturbed /\ cookie = 0 => ui'.view # "workbench"
  BY <1>1 DEF PollSame, Signed
<1> QED
  BY <1>1, <1>3, <1>4, <1>5, PageTurns

\* A click or a timer that sends a fetch.
LEMMA PageSends ==
    ASSUME ConsoleInv, Browser, Turns(ui, ui'), PollSame(ui, ui'),
           NEW kind \in {"login", "logout", "create", "delete", "status"},
           NEW q, Sent(q, kind), Names(q), q.cookie = cookie, Send(q)
    PROVE  ConsoleInv'
<1>1. TypeOK /\ CallOK(q) /\ q # Idle
  BY IdleOK DEF ConsoleInv, CallOK, Sent
<1>2. PICK i \in Slots : calls[i] = Idle /\ Passes(i, q)
  BY <1>1, PassesSent
<1>3. StatusUnderWay => StatusUnderWay'
  BY <1>1, <1>2, StatusKept
<1> QED
  BY <1>1, <1>2, <1>3, PageStays DEF Browser, Away, Sent

\* A click that changes the page alone.
LEMMA PageClicked ==
    ASSUME ConsoleInv, Browser, UNCHANGED calls, Turns(ui, ui'),
           PollSame(ui, ui'),
           NEW click, NEW view, NEW button, Usable(click, view, button)
    PROVE  ConsoleInv'
<1>1. TypeOK
  BY DEF ConsoleInv
<1>2. PICK i \in Slots : calls[i] = Idle /\ Passes(i, Idle)
  BY <1>1, PassesNone
<1>3. StatusUnderWay => StatusUnderWay'
  BY <1>1, <1>2, StatusKept
<1> QED
  BY <1>2, <1>3, PageStays DEF Browser, Away

LEMMA SentNamed ==
    ASSUME cookie \in Nat, NEW kind \in {"create", "delete"}, NEW b \in Buckets
    PROVE  LET q == [Call(kind) EXCEPT !.bucket = b]
           IN  Sent(q, kind) /\ Names(q) /\ q.cookie = cookie
<1> DEFINE p == Call(kind)
           q == [p EXCEPT !.bucket = b]
<1>1. Sent(p, kind) /\ p.cookie = cookie
  BY CallSent DEF Kinds
<1> HIDE DEF p
<1>2. /\ q \in Fetch /\ q.kind = kind /\ q.bucket = b /\ q.cookie = cookie
      /\ q.reply = Pending
  BY <1>1 DEF Sent, Fetch
<1> HIDE DEF q
<1>3. Sent(q, kind) /\ Names(q)
  BY <1>2 DEF Sent, Names, Carries, Pending
<1> QED
  BY <1>2, <1>3 DEF q, p

\* The fetch of a deletion that has its row.
LEMMA SentWithRow ==
    ASSUME NEW p, NEW kind \in {"delete", "buckets"}, Sent(p, kind), Names(p),
           p.cookie = cookie, NEW row \in BOOLEAN
    PROVE  LET q == [p EXCEPT !.row = row]
           IN  Sent(q, kind) /\ Names(q) /\ q.cookie = cookie
<1> DEFINE q == [p EXCEPT !.row = row]
<1>1. /\ q \in Fetch /\ q.kind = kind /\ q.bucket = p.bucket
      /\ q.cookie = cookie /\ q.reply = Pending
  BY DEF Sent, Fetch
<1> HIDE DEF q
<1>2. Sent(q, kind) /\ Names(q)
  BY <1>1 DEF Sent, Names, Carries, Pending
<1> QED
  BY <1>1, <1>2 DEF q

LEMMA RefreshStep == ASSUME ConsoleInv, Refresh PROVE ConsoleInv'
<1> DEFINE q == StatusCall(FALSE, TRUE, {})
<1>1. ui \in UI /\ cookie \in Nat /\ Browser /\ Send(q)
      /\ ui' = [ui EXCEPT !.busy = @ \union {"refresh"}]
  BY DEF ConsoleInv, TypeOK, Refresh
<1>2. Turns(ui, ui') /\ PollSame(ui, ui')
  BY <1>1, BusyPage DEF Buttons
<1>3. Sent(q, "status") /\ q.cookie = cookie
  BY <1>1, StatusSent
<1> HIDE DEF q
<1>4. Names(q)
  BY <1>3 DEF Sent, Names
<1> QED
  BY <1>1, <1>2, <1>3, <1>4, PageSends

LEMMA SubmitStep == ASSUME ConsoleInv, Submit PROVE ConsoleInv'
<1> DEFINE q == Call("login")
<1>1. ui \in UI /\ cookie \in Nat /\ Browser /\ Send(q)
      /\ ui' = [ui EXCEPT !.busy = @ \union {"submit"}]
  BY DEF ConsoleInv, TypeOK, Submit
<1>2. Turns(ui, ui') /\ PollSame(ui, ui')
  BY <1>1, BusyPage DEF Buttons
<1>3. Sent(q, "login") /\ q.cookie = cookie
  BY <1>1, CallSent DEF Kinds
<1> HIDE DEF q
<1>4. Names(q)
  BY <1>3 DEF Sent, Names
<1> QED
  BY <1>1, <1>2, <1>3, <1>4, PageSends

LEMMA LogoutStep == ASSUME ConsoleInv, Logout PROVE ConsoleInv'
<1> DEFINE q == Call("logout")
<1>1. ui \in UI /\ cookie \in Nat /\ Browser /\ Send(q)
      /\ ui' = [ui EXCEPT !.busy = @ \union {"logout"}]
  BY DEF ConsoleInv, TypeOK, Logout
<1>2. Turns(ui, ui') /\ PollSame(ui, ui')
  BY <1>1, BusyPage DEF Buttons
<1>3. Sent(q, "logout") /\ q.cookie = cookie
  BY <1>1, CallSent DEF Kinds
<1> HIDE DEF q
<1>4. Names(q)
  BY <1>3 DEF Sent, Names
<1> QED
  BY <1>1, <1>2, <1>3, <1>4, PageSends

LEMMA CreateStep ==
    ASSUME ConsoleInv, NEW b \in Buckets, Create(b) PROVE ConsoleInv'
<1> DEFINE q == [Call("create") EXCEPT !.bucket = b]
<1>1. ui \in UI /\ cookie \in Nat /\ Browser /\ Send(q)
      /\ ui' = [ui EXCEPT !.busy = @ \union {"create"}]
  BY DEF ConsoleInv, TypeOK, Create
<1>2. Turns(ui, ui') /\ PollSame(ui, ui')
  BY <1>1, BusyPage DEF Buttons
<1>3. Sent(q, "create") /\ Names(q) /\ q.cookie = cookie
  BY <1>1, SentNamed
<1> HIDE DEF q
<1> QED
  BY <1>1, <1>2, <1>3, PageSends

LEMMA ConfirmDeleteStep ==
    ASSUME ConsoleInv, NEW b \in Buckets, ConfirmDelete(b) PROVE ConsoleInv'
<1> DEFINE q == [Call("delete") EXCEPT !.bucket = b, !.row = TRUE]
<1>1. ui \in UI /\ cookie \in Nat /\ Browser /\ Send(q)
      /\ ui' = [ui EXCEPT !.rows[b] = "deleting"]
  BY DEF ConsoleInv, TypeOK, ConfirmDelete
<1>2. Turns(ui, ui') /\ PollSame(ui, ui')
  BY <1>1, RowPage DEF RowStates
<1>3. Sent(q, "delete") /\ Names(q) /\ q.cookie = cookie
  <2> DEFINE p == [Call("delete") EXCEPT !.bucket = b]
  <2>1. Sent(p, "delete") /\ Names(p) /\ p.cookie = cookie
    BY <1>1, SentNamed
  <2> HIDE DEF p
  <2>2. q = [p EXCEPT !.row = TRUE]
    BY DEF p
  <2> HIDE DEF q
  <2> QED
    BY <2>1, <2>2, SentWithRow
<1> HIDE DEF q
<1> QED
  BY <1>1, <1>2, <1>3, PageSends

LEMMA AskDeleteStep ==
    ASSUME ConsoleInv, NEW b \in Buckets, AskDelete(b) \/ CancelDelete(b)
    PROVE  ConsoleInv'
<1>1. /\ ui \in UI /\ Browser /\ UNCHANGED calls
      /\ Usable("delete", "workbench", "none")
      /\ \E state \in {"plain", "confirm"} : ui' = [ui EXCEPT !.rows[b] = state]
  BY DEF ConsoleInv, TypeOK, AskDelete, CancelDelete
<1>2. Turns(ui, ui') /\ PollSame(ui, ui')
  BY <1>1, RowPage DEF RowStates
<1> QED
  BY <1>1, <1>2, PageClicked

\* The timer that fires was the only one; its status is under way instead.
LEMMA TimerFiresStep == ASSUME ConsoleInv, TimerFires PROVE ConsoleInv'
<1>1. PICK t \in ui.timers : /\ Send(StatusCall(TRUE, t.inventory, {}))
                             /\ ui' = [ui EXCEPT !.timers = @ \ {t}]
  BY DEF TimerFires
<1>2. /\ ui \in UI /\ cookie \in Nat /\ Browser /\ TypeOK
      /\ t.inventory \in BOOLEAN
  BY DEF ConsoleInv, TypeOK, TimerFires, UI
<1> DEFINE q == StatusCall(TRUE, t.inventory, {})
<1>3. Sent(q, "status") /\ q.cookie = cookie
  BY <1>2, StatusSent
<1> HIDE DEF q
<1>4. Names(q) /\ CallOK(q) /\ q # Idle
  BY <1>3, IdleOK DEF Sent, Names, CallOK
<1>5. PICK i \in Slots : calls[i] = Idle /\ Passes(i, q)
  BY <1>1, <1>2, <1>4, PassesSent DEF q
<1>6. StatusUnderWay'
  BY <1>3, <1>4, <1>5 DEF StatusUnderWay, Passes, Sent
<1>7. ui'.timers = {} /\ ui'.view = ui.view
  BY <1>1, <1>2 DEF ConsoleInv, PollInv, OneTimer, UI
<1>8. PollInv'
  BY <1>6, <1>7 DEF PollInv, OneTimer
<1>9. Turns(ui, ui')
  BY <1>1, <1>2 DEF Turns, BrowserSame, RowShows, UI
<1>10. RowShows(ui) /\ cookie \in 0..sessions
       /\ (Undisturbed /\ cookie = 0 => ui.view # "workbench")
  BY DEF ConsoleInv, SessionInv, BrowserInv, RowShows
<1> QED
  BY <1>2, <1>3, <1>4, <1>5, <1>7, <1>8, <1>9, <1>10, PageTurns
     DEF Browser, Away, Sent, Turns

\* What is known of a fetch whose answer is received.
LEMMA Received ==
    ASSUME ConsoleInv, NEW i \in Slots, NEW kind, Answered(i, kind)
    PROVE  LET p == calls[i]
           IN  /\ p # Idle /\ p \in Fetch /\ Carries(p) /\ Names(p)
               /\ p.kind = kind /\ p.reply # Pending
               /\ p.release \in SUBSET (Buttons \ {"more"})
               /\ "more" \notin p.release
               /\ ui \in UI /\ OneTimer(ui) /\ cookie \in Nat
               /\ TypeOK
BY DEF ConsoleInv, TypeOK, CallOK, PollInv, Answered, Fetch

LEMMA StillPage ==
    ASSUME NEW u \in UI
    PROVE  Turns(u, u) /\ PollSame(u, u)
BY DEF Turns, BrowserSame, PollSame

LEMMA ResetPage ==
    ASSUME NEW u \in UI, NEW p
    PROVE  Turns(u, ResetRow(u, p)) /\ PollSame(u, ResetRow(u, p))
BY RowPage, StillPage DEF ResetRow, RowStates

LEMMA SignedOn ==
    ASSUME NEW u, NEW v, PollSame(u, v)
    PROVE  /\ Signed(u) => Signed(v)
           /\ Polled(u) => Polled(v)
           /\ v.view = u.view
           /\ \A w : PollSame(w, u) => PollSame(w, v)
BY DEF PollSame, Signed, Polled, OneTimer

\* The sign-in form, after the row and the buttons are given back.
LEMMA SignedPage ==
    ASSUME NEW u \in UI, OneTimer(u), NEW p, NEW buttons, "more" \notin buttons
    PROVE  /\ LET v == Release(ShowLogin(u), buttons) IN Turns(u, v) /\ Signed(v)
           /\ LET v == ResetRow(ShowLogin(u), p) IN Turns(u, v) /\ Signed(v)
           /\ LET v == Release(ResetRow(ShowLogin(u), p), buttons)
              IN  Turns(u, v) /\ Signed(v)
<1> DEFINE s == ShowLogin(u)
           r == ResetRow(s, p)
<1>1. Turns(u, s) /\ Signed(s) /\ s \in UI
  BY LoginPage DEF Turns
<1> HIDE DEF s
<1>2. Turns(u, Release(s, buttons)) /\ Signed(Release(s, buttons))
  BY <1>1, ReleasedPage, TurnsOn, SignedOn
<1>3. Turns(u, r) /\ Signed(r) /\ r \in UI
  <2>1. Turns(s, r) /\ PollSame(s, r)
    BY <1>1, ResetPage
  <2> HIDE DEF r
  <2> QED
    BY <1>1, <2>1, TurnsOn, SignedOn DEF Turns
<1> HIDE DEF r
<1>4. Turns(u, Release(r, buttons)) /\ Signed(Release(r, buttons))
  BY <1>3, ReleasedPage, TurnsOn, SignedOn
<1> QED
  BY <1>2, <1>3, <1>4 DEF s, r

LEMMA ReceiveStatusStep ==
    ASSUME ConsoleInv, NEW i \in Slots, ReceiveStatus(i)
    PROVE  ConsoleInv'
<1> DEFINE p == calls[i]
<1>1. /\ p # Idle /\ p \in Fetch /\ p.kind = "status"
      /\ p.release \in SUBSET (Buttons \ {"more"}) /\ "more" \notin p.release
      /\ ui \in UI /\ OneTimer(ui) /\ cookie \in Nat /\ TypeOK
      /\ p.quiet \in BOOLEAN /\ p.inventory \in BOOLEAN
      /\ Away /\ UNCHANGED cookie
  BY Received DEF ReceiveStatus, Fetch, Away
<1>2. ASSUME calls' = Done(i), Turns(ui, ui'),
             \/ Signed(ui')
             \/ /\ Polled(ui') /\ ui'.view = "workbench"
                /\ Undisturbed => cookie # 0
      PROVE  ConsoleInv'
  <2>1. Passes(i, Idle)
    BY <1>1, <1>2, PassesDone
  <2> QED
    BY <1>1, <1>2, <2>1, PageStays
<1>3. CASE Answer(i) = 401
  <2>1. ui' = Release(ShowLogin(ui), p.release) /\ calls' = Done(i)
    BY <1>3 DEF ReceiveStatus
  <2> QED
    BY <1>1, <1>2, <2>1, SignedPage
<1>4. CASE Answer(i) = 200
  <2>1. Undisturbed => cookie # 0
    BY <1>1, <1>4 DEF ConsoleInv, SessionInv, Answer
  <2> DEFINE u == RenderStatus(ui)
             v == Release(u, p.release)
  <2>2. Turns(ui, u) /\ Polled(u) /\ u.view = "workbench" /\ u \in UI
    BY <1>1, StatusPage DEF Turns
  <2>3. CASE p.inventory
    <3> DEFINE b == BucketsCall(p.release)
               q == [b EXCEPT !.quiet = p.quiet]
    <3>1. ui' = u /\ calls' = [calls EXCEPT ![i] = q]
      BY <1>4, <2>3 DEF ReceiveStatus, GoOn
    <3>2. Sent(b, "buckets") /\ b.cookie = cookie
      BY <1>1, BucketsSent
    <3> HIDE DEF b
    <3>3. /\ q \in Fetch /\ q.kind = "buckets" /\ q.reply = Pending
          /\ q.cookie = cookie
      BY <1>1, <3>2 DEF Sent, Fetch
    <3> HIDE DEF q, u
    <3>4. CallOK(q) /\ q # Idle
      BY <3>3, IdleOK DEF CallOK, Carries, Names, Pending
    <3>5. Passes(i, q)
      BY <1>1, <3>1, <3>4, PassesSet
    <3> QED
      BY <1>1, <2>1, <2>2, <3>1, <3>3, <3>5, PageStays
  <2>4. CASE ~p.inventory
    <3>1. ui' = v /\ calls' = Done(i)
      BY <1>4, <2>4 DEF ReceiveStatus
    <3> HIDE DEF u
    <3>2. Turns(u, v) /\ PollSame(u, v)
      BY <1>1, <2>2, ReleasedPage
    <3> HIDE DEF v
    <3> QED
      BY <1>2, <2>1, <2>2, <3>1, <3>2, TurnsOn, SignedOn
  <2> QED
    BY <1>1, <2>3, <2>4
<1>5. CASE Answer(i) \notin {200, 401}
  <2> DEFINE u == IF ui.view = "workbench"
                  THEN SetTimer(ClearTimer(ui), TRUE) ELSE ShowLogin(ui)
  <2>1. ui' = Release(u, p.release) /\ calls' = Done(i)
    BY <1>5 DEF ReceiveStatus
  <2>2. CASE ui.view = "workbench"
    <3>1. Turns(ui, u) /\ Polled(u) /\ u.view = "workbench" /\ u \in UI
      BY <1>1, <2>2, RearmedPage DEF Turns
    <3>2. Undisturbed => cookie # 0
      BY <2>2 DEF ConsoleInv, SessionInv
    <3> HIDE DEF u
    <3>3. Turns(u, ui') /\ PollSame(u, ui')
      BY <1>1, <2>1, <3>1, ReleasedPage
    <3> QED
      BY <1>2, <2>1, <3>1, <3>2, <3>3, TurnsOn, SignedOn
  <2>3. CASE ui.view # "workbench"
    BY <1>1, <1>2, <2>1, <2>3, SignedPage
  <2> QED
    BY <2>2, <2>3
<1> QED
  BY <1>3, <1>4, <1>5

LEMMA ReceiveBucketsStep ==
    ASSUME ConsoleInv, NEW i \in Slots, ReceiveBuckets(i)
    PROVE  ConsoleInv'
<1> DEFINE p == calls[i]
<1>1. /\ p # Idle /\ p \in Fetch /\ p.kind = "buckets" /\ Carries(p)
      /\ "more" \notin p.release
      /\ ui \in UI /\ OneTimer(ui) /\ cookie \in Nat /\ TypeOK
      /\ Away /\ UNCHANGED cookie
  BY Received DEF ReceiveBuckets, Away
<1>2. CASE Answer(i) = 401
  <2>1. /\ ui' = Release(ResetRow(ShowLogin(ui), p), p.release)
        /\ calls' = Done(i)
    BY <1>2 DEF ReceiveBuckets
  <2>2. Passes(i, Idle)
    BY <1>1, <2>1, PassesDone
  <2>3. Turns(ui, ui') /\ Signed(ui')
    BY <1>1, <2>1, SignedPage
  <2> QED
    BY <1>1, <2>2, <2>3, PageStays
<1>3. CASE Answer(i) # 401
  <2> DEFINE u == IF Answer(i) = 200 THEN RenderBuckets(ui, p.reply.names)
                  ELSE RenderBucketError(ui)
  <2>1. ui' = Release(u, p.release) /\ calls' = Detached(Done(i))
    BY <1>3 DEF ReceiveBuckets
  <2>2. Passes(i, Idle)
    BY <1>1, <2>1, PassesDetached
  <2>3. /\ u \in UI /\ PollSame(ui, u)
        /\ (BrowserSame(ui, u) /\ RowShows(u)) \/ Closed(ui, u)
    <3>1. CASE Answer(i) = 200
      <4>1. p.reply.names \in SUBSET Buckets
        BY <1>1, <3>1 DEF Carries, Answer
      <4> QED
        BY <1>1, <3>1, <4>1, BucketsPage
    <3>2. CASE Answer(i) # 200
      BY <1>1, <3>2, ErrorPage
    <3> QED
      BY <3>1, <3>2
  <2> HIDE DEF u
  <2>4. Turns(u, ui') /\ PollSame(u, ui')
    BY <1>1, <2>1, <2>3, ReleasedPage
  <2>5. PollSame(ui, ui') /\ ui'.view = ui.view
    BY <2>3, <2>4, SignedOn DEF PollSame
  <2>6. PollInv'
    BY <1>1, <2>2, <2>5, PollStays, StatusKept DEF ConsoleInv
  <2>7. (BrowserSame(ui, ui') /\ RowShows(ui')) \/ Closed(ui, ui')
    BY <2>3, <2>4 DEF Turns, BrowserSame, Closed
  <2>8. cookie \in 0..sessions
        /\ (Undisturbed /\ cookie = 0 => ui.view # "workbench")
    BY DEF ConsoleInv, SessionInv
  <2> QED
    BY <1>1, <2>2, <2>4, <2>5, <2>6, <2>7, <2>8, PageTurns DEF Turns
<1> QED
  BY <1>2, <1>3

LEMMA ReceiveLoginStep ==
    ASSUME ConsoleInv, NEW i \in Slots, ReceiveLogin(i)
    PROVE  ConsoleInv'
<1> DEFINE p == calls[i]
<1>1. /\ p # Idle /\ p \in Fetch /\ p.kind = "login" /\ Carries(p)
      /\ ui \in UI /\ OneTimer(ui) /\ cookie \in Nat /\ TypeOK /\ Away
  BY Received DEF ReceiveLogin, Away
<1>2. CASE Answer(i) = 200
  <2> DEFINE c == StatusCall(FALSE, TRUE, {"submit"})
             n == p.reply.cookie
             q == [c EXCEPT !.cookie = n]
  <2>1. /\ cookie' = n /\ calls' = [calls EXCEPT ![i] = q]
        /\ ui' = [ui EXCEPT !.busy = @ \union {"refresh"}]
    BY <1>2 DEF ReceiveLogin, GoOn
  <2>2. n \in 0..sessions /\ (Undisturbed => n # 0) /\ n \in Nat
    <3>1. n \in 0..sessions /\ (Undisturbed => n # 0)
      BY <1>1, <1>2 DEF ConsoleInv, SessionInv, Answer
    <3> QED
      BY <1>1, <3>1 DEF TypeOK
  <2>3. Sent(c, "status")
    BY <1>1, StatusSent DEF Buttons
  <2> HIDE DEF c, n
  <2>4. /\ q \in Fetch /\ q.kind = "status" /\ q.reply = Pending
        /\ q.cookie = n
    BY <2>2, <2>3 DEF Sent, Fetch
  <2> HIDE DEF q
  <2>5. CallOK(q) /\ q # Idle
    BY <2>4, IdleOK DEF CallOK, Carries, Names, Pending
  <2>6. Passes(i, q)
    BY <1>1, <2>1, <2>5, PassesSet
  <2>7. Turns(ui, ui') /\ PollSame(ui, ui') /\ RowShows(ui)
    BY <1>1, <2>1, BusyPage DEF Buttons, ConsoleInv, BrowserInv, RowShows
  <2>8. PollInv'
    BY <1>1, <2>6, <2>7, PollStays, StatusKept DEF ConsoleInv
  <2> QED
    BY <1>1, <2>1, <2>2, <2>4, <2>6, <2>7, <2>8, PageTurns DEF Turns
<1>3. CASE Answer(i) # 200
  <2>1. /\ ui' = Release(ShowLogin(ui), {"submit"}) /\ calls' = Done(i)
        /\ UNCHANGED cookie
    BY <1>3 DEF ReceiveLogin
  <2>2. Passes(i, Idle)
    BY <1>1, <2>1, PassesDone
  <2>3. Turns(ui, ui') /\ Signed(ui')
    BY <1>1, <2>1, SignedPage
  <2> QED
    BY <1>1, <2>1, <2>2, <2>3, PageStays
<1> QED
  BY <1>2, <1>3

LEMMA ReceiveLogoutStep ==
    ASSUME ConsoleInv, NEW i \in Slots, ReceiveLogout(i)
    PROVE  ConsoleInv'
<1> DEFINE p == calls[i]
           u == IF Answer(i) \in {200, 401} THEN ShowLogin(ui) ELSE ui
<1>1. /\ p # Idle /\ p \in Fetch /\ p.kind = "logout" /\ Carries(p)
      /\ ui \in UI /\ OneTimer(ui) /\ cookie \in Nat /\ TypeOK /\ Away
  BY Received DEF ReceiveLogout, Away
<1>2. /\ ui' = Release(u, {"logout"}) /\ calls' = Done(i)
      /\ cookie' = IF Answer(i) = 200 THEN p.reply.cookie ELSE cookie
  BY DEF ReceiveLogout
<1>3. Passes(i, Idle)
  BY <1>1, <1>2, PassesDone
<1>4. Turns(ui, u) /\ (Signed(u) \/ PollSame(ui, u)) /\ u \in UI
  BY <1>1, LoginPage, StillPage DEF Turns
<1> HIDE DEF u
<1>5. Turns(u, ui') /\ PollSame(u, ui')
  BY <1>2, <1>4, ReleasedPage
<1>6. Turns(ui, ui') /\ (Signed(ui') \/ PollSame(ui, ui'))
  BY <1>4, <1>5, TurnsOn, SignedOn
<1>7. PollInv'
  BY <1>1, <1>3, <1>6, PollStays, PollEnds, StatusKept DEF ConsoleInv
<1>8. cookie' \in 0..sessions
  BY <1>1, <1>2 DEF ConsoleInv, SessionInv, Answer
<1>9. Undisturbed /\ cookie' = 0 => cookie = 0 /\ ui'.view # "workbench"
  <2>1. Undisturbed => Answer(i) # 200
    BY <1>1 DEF ConsoleInv, SessionInv, Answer
  <2>2. Undisturbed /\ cookie = 0 => ui.view # "workbench"
    BY DEF ConsoleInv, SessionInv
  <2> QED
    BY <1>2, <1>6, <2>1, <2>2 DEF Signed, PollSame
<1>10. RowShows(ui)
  BY DEF ConsoleInv, BrowserInv, RowShows
<1> QED
  BY <1>1, <1>3, <1>6, <1>7, <1>8, <1>9, <1>10, PageTurns DEF Turns

LEMMA ReceiveCreateStep ==
    ASSUME ConsoleInv, NEW i \in Slots, ReceiveCreate(i)
    PROVE  ConsoleInv'
<1> DEFINE p == calls[i]
<1>1. /\ p # Idle /\ p \in Fetch /\ p.kind = "create"
      /\ ui \in UI /\ OneTimer(ui) /\ cookie \in Nat /\ TypeOK
      /\ Away /\ UNCHANGED cookie
  BY Received DEF ReceiveCreate, Away
<1>2. CASE Answer(i) = 200
  <2> DEFINE q == BucketsCall({"create"})
  <2>1. calls' = [calls EXCEPT ![i] = q] /\ UNCHANGED ui
    BY <1>2 DEF ReceiveCreate, GoOn
  <2>2. Sent(q, "buckets") /\ q.cookie = cookie
    BY <1>1, BucketsSent DEF Buttons
  <2> HIDE DEF q
  <2>3. CallOK(q) /\ q # Idle
    BY <2>2, IdleOK DEF Sent, CallOK, Names
  <2>4. Passes(i, q)
    BY <1>1, <2>1, <2>3, PassesSet
  <2>5. StatusUnderWay => StatusUnderWay'
    BY <1>1, <2>4, StatusKept
  <2>6. Turns(ui, ui') /\ PollSame(ui, ui')
    BY <1>1, <2>1, StillPage
  <2> QED
    BY <1>1, <2>2, <2>4, <2>5, <2>6, PageStays DEF Sent
<1>3. CASE Answer(i) # 200
  <2>1. /\ ui' = Release(IF Answer(i) = 401 THEN ShowLogin(ui) ELSE ui, {"create"})
        /\ calls' = Done(i)
    BY <1>3 DEF ReceiveCreate
  <2>2. Passes(i, Idle)
    BY <1>1, <2>1, PassesDone
  <2>3. StatusUnderWay => StatusUnderWay'
    BY <1>1, <2>2, StatusKept
  <2>4. Turns(ui, ui') /\ (Signed(ui') \/ PollSame(ui, ui'))
    BY <1>1, <2>1, SignedPage, ReleasedPage
  <2> QED
    BY <1>1, <2>2, <2>3, <2>4, PageStays
<1> QED
  BY <1>2, <1>3

LEMMA ReceiveDeleteStep ==
    ASSUME ConsoleInv, NEW i \in Slots, ReceiveDelete(i)
    PROVE  ConsoleInv'
<1> DEFINE p == calls[i]
<1>1. /\ p # Idle /\ p \in Fetch /\ p.kind = "delete"
      /\ ui \in UI /\ OneTimer(ui) /\ cookie \in Nat /\ TypeOK
      /\ Away /\ UNCHANGED cookie
  BY Received DEF ReceiveDelete, Away
<1>2. CASE Answer(i) \in {200, 404}
  <2> DEFINE c == BucketsCall({})
             q == [c EXCEPT !.bucket = p.bucket, !.row = p.row]
  <2>1. calls' = [calls EXCEPT ![i] = q] /\ UNCHANGED ui
    BY <1>2 DEF ReceiveDelete, GoOn
  <2>2. Sent(c, "buckets") /\ c.cookie = cookie
    BY <1>1, BucketsSent
  <2> HIDE DEF c
  <2>3. /\ q \in Fetch /\ q.kind = "buckets" /\ q.reply = Pending
        /\ q.cookie = cookie
    BY <1>1, <2>2 DEF Sent, Fetch
  <2> HIDE DEF q
  <2>4. CallOK(q) /\ q # Idle
    BY <2>3, IdleOK DEF CallOK, Carries, Names, Pending
  <2>5. Passes(i, q)
    BY <1>1, <2>1, <2>4, PassesSet
  <2>6. StatusUnderWay => StatusUnderWay'
    BY <1>1, <2>5, StatusKept
  <2>7. Turns(ui, ui') /\ PollSame(ui, ui')
    BY <1>1, <2>1, StillPage
  <2> QED
    BY <1>1, <2>3, <2>5, <2>6, <2>7, PageStays
<1>3. CASE Answer(i) \notin {200, 404}
  <2>1. /\ ui' = ResetRow(IF Answer(i) = 401 THEN ShowLogin(ui) ELSE ui, p)
        /\ calls' = Done(i)
    BY <1>3 DEF ReceiveDelete
  <2>2. Passes(i, Idle)
    BY <1>1, <2>1, PassesDone
  <2>3. StatusUnderWay => StatusUnderWay'
    BY <1>1, <2>2, StatusKept
  <2>4. Turns(ui, ui') /\ (Signed(ui') \/ PollSame(ui, ui'))
    <3>1. CASE Answer(i) = 401
      <4>1. ui' = ResetRow(ShowLogin(ui), p)
        BY <2>1, <3>1
      <4>2. "more" \notin {}
        OBVIOUS
      <4> QED
        BY <1>1, <4>1, <4>2, SignedPage
    <3>2. CASE Answer(i) # 401
      BY <1>1, <2>1, <3>2, ResetPage
    <3> QED
      BY <3>1, <3>2
  <2> QED
    BY <1>1, <2>2, <2>3, <2>4, PageStays
<1> QED
  BY <1>2, <1>3

LEMMA CloseStep == ASSUME ConsoleInv, Close PROVE ConsoleInv'
<1>1. /\ ui \in UI /\ TypeOK /\ Away /\ UNCHANGED <<cookie, calls>>
      /\ Usable("browse", "workbench", "none") /\ ui' = CloseBrowser(ui)
  BY DEF ConsoleInv, TypeOK, Close, Browser, Away
<1>2. PICK i \in Slots : calls[i] = Idle /\ Passes(i, Idle)
  BY <1>1, PassesNone
<1>3. Closed(ui, ui') /\ PollSame(ui, ui')
  BY <1>1, ClosedPage
<1>4. PollInv'
  BY <1>1, <1>2, <1>3, PollStays, StatusKept DEF ConsoleInv
<1>5. cookie \in 0..sessions
      /\ (Undisturbed /\ cookie = 0 => ui.view # "workbench")
  BY DEF ConsoleInv, SessionInv
<1> QED
  BY <1>1, <1>2, <1>3, <1>4, <1>5, PageTurns DEF Closed, PollSame

\* A load of the page u, which differs from the one before it in the bucket
\* selected and its token at most.
LEMMA LoadStep ==
    ASSUME ConsoleInv, Browser, ui.view = "workbench",
           NEW u \in UI, NEW b \in Buckets, NEW append \in BOOLEAN,
           LoadObjects(u, b, append),
           PollSame(ui, u), u.generation = ui.generation, u.selected = b,
           RowShows(u),
           Undisturbed /\ append => InOrder(u) /\ u.token = Len(u.pages)
    PROVE  ConsoleInv'
<1>1. /\ TypeOK /\ Away /\ UNCHANGED cookie /\ cookie \in Nat
      /\ u.generation \in Nat /\ u.token \in Nat
  BY DEF ConsoleInv, TypeOK, Browser, Away, UI
<1> DEFINE generation == u.generation + 1
           token == IF append THEN u.token ELSE 0
           q == [Call("objects") EXCEPT !.bucket = b, !.append = append,
                    !.token = token, !.generation = generation]
           v == [u EXCEPT !.generation = generation, !.busy = @ \union {"more"}]
<1>2. Send(q) /\ ui' = v
  BY DEF LoadObjects
<1>3. generation \in Nat /\ token \in Nat
  BY <1>1
<1>4. token = (IF append THEN u.token ELSE 0) /\ generation = ui.generation + 1
  OBVIOUS
<1> HIDE DEF token, generation
<1>5. /\ q \in Fetch /\ q.kind = "objects" /\ CallOK(q) /\ q.cookie = cookie
      /\ q.reply = Pending /\ q.bucket = b /\ q.append = append
      /\ q.token = token /\ q.generation = generation
  <2> DEFINE p == Call("objects")
  <2>1. Sent(p, "objects") /\ p.cookie = cookie
    BY <1>1, CallSent DEF Kinds
  <2>2. q = [p EXCEPT !.bucket = b, !.append = append,
                      !.token = token, !.generation = generation]
    OBVIOUS
  <2> HIDE DEF p, q
  <2>3. /\ q \in Fetch /\ q.kind = "objects" /\ q.reply = Pending
        /\ q.cookie = cookie /\ q.bucket = b /\ q.append = append
        /\ q.token = token /\ q.generation = generation
    BY <1>3, <2>1, <2>2 DEF Sent, Fetch
  <2>4. CallOK(q)
    BY <2>3 DEF CallOK, Names, Carries, Pending
  <2> QED
    BY <2>3, <2>4
<1> HIDE DEF q
<1>6. PICK i \in Slots : calls[i] = Idle /\ Passes(i, q)
  BY <1>1, <1>2, <1>5, PassesSent
<1>7. /\ ui' \in UI /\ ui'.generation = generation /\ "more" \in ui'.busy
      /\ ui'.selected = b /\ ui'.pages = u.pages /\ PollSame(ui, ui')
      /\ RowShows(ui')
  BY <1>2, <1>3 DEF UI, Buttons, PollSame, RowShows
<1>8. Undisturbed => cookie # 0
  BY DEF ConsoleInv, SessionInv
<1>9. PollInv'
  BY <1>1, <1>6, <1>7, PollStays, StatusKept DEF ConsoleInv
<1>10. SessionInv'
  <2>1. cookie \in 0..sessions /\ SessionInv
    BY DEF ConsoleInv, SessionInv
  <2> QED
    BY <1>1, <1>5, <1>6, <1>8, <2>1, SessionStays
<1>11. Undisturbed' => /\ q.append => InOrder(ui') /\ q.token = Len(ui'.pages)
                       /\ ~q.append => q.token = 0
  <2>1. Undisturbed' <=> Undisturbed
    BY <1>1 DEF Away, server, Undisturbed
  <2>2. InOrder(u) => InOrder(ui')
    BY <1>7 DEF InOrder
  <2> QED
    BY <1>4, <1>5, <1>7, <2>1, <2>2
<1>12. LoadInv' /\ BrowserInv'
  BY <1>1, <1>4, <1>5, <1>6, <1>7, <1>11, LoadStarts DEF ConsoleInv
<1>13. TypeOK'
  BY <1>1, <1>6, <1>7, TypesStay
<1> QED
  BY <1>9, <1>10, <1>12, <1>13 DEF ConsoleInv

LEMMA BrowseStep ==
    ASSUME ConsoleInv, NEW b \in Buckets, Browse(b) PROVE ConsoleInv'
<1> DEFINE u == [ui EXCEPT !.selected = b, !.token = 0]
<1>1. /\ ui \in UI /\ Browser /\ ui.view = "workbench"
      /\ ui.rows[b] # "absent" /\ LoadObjects(u, b, FALSE)
  BY DEF ConsoleInv, TypeOK, Browse, Usable
<1>2. /\ u \in UI /\ PollSame(ui, u) /\ u.generation = ui.generation
      /\ u.selected = b /\ RowShows(u)
  BY <1>1 DEF UI, PollSame, RowShows
<1> HIDE DEF u
<1> QED
  BY <1>1, <1>2, LoadStep

\* The button is free, so no load is up to date: what is listed is in order.
LEMMA MoreStep == ASSUME ConsoleInv, More PROVE ConsoleInv'
<1>1. /\ ui \in UI /\ Browser /\ ui.view = "workbench"
      /\ "more" \notin ui.busy /\ ui.selected # NoBucket /\ ui.more
      /\ LoadObjects(ui, ui.selected, TRUE)
  BY DEF ConsoleInv, TypeOK, More, Usable
<1>2. ui.selected \in Buckets /\ RowShows(ui) /\ PollSame(ui, ui)
  BY <1>1 DEF UI, ConsoleInv, BrowserInv, RowShows, PollSame
<1>3. Undisturbed => InOrder(ui) /\ ui.token = Len(ui.pages)
  BY <1>1 DEF ConsoleInv, LoadInv, BrowserInv
<1> QED
  BY <1>1, <1>2, <1>3, LoadStep

\* An answer to a load: only the load that is up to date is listed, and when
\* it is not, a later one is still under way.
LEMMA ReceiveObjectsStep ==
    ASSUME ConsoleInv, NEW i \in Slots, ReceiveObjects(i)
    PROVE  ConsoleInv'
<1> DEFINE p == calls[i]
           current == p.generation = ui.generation
<1>1. /\ p # Idle /\ p \in Fetch /\ p.kind = "objects" /\ Carries(p) /\ Names(p)
      /\ p.reply # Pending /\ Loads(i)
      /\ ui \in UI /\ OneTimer(ui) /\ cookie \in Nat /\ TypeOK
      /\ Away /\ UNCHANGED cookie
      /\ SessionInv /\ LoadInv /\ BrowserInv /\ RowShows(ui)
      /\ p.generation \in Nat /\ ui.generation \in Nat
      /\ p.bucket \in Buckets /\ p.token \in Nat /\ p.append \in BOOLEAN
  BY Received DEF ReceiveObjects, Away, ConsoleInv, Loads, BrowserInv, RowShows,
                  Fetch, UI, Names
<1>2. cookie \in 0..sessions
      /\ (Undisturbed /\ cookie = 0 => ui.view # "workbench")
      /\ p.generation <= ui.generation
      /\ (Undisturbed' <=> Undisturbed)
  BY <1>1 DEF SessionInv, LoadInv, Away, server, Undisturbed
<1>3. Undisturbed => Answer(i) \in {200, 404}
  <2>1. p.reply.status \in {-1, 0, 200, 401, 404, 409}
    BY <1>1 DEF Fetch, Replies
  <2>2. p.reply.status # 0
    BY <1>1 DEF Fetch, Replies, Pending
  <2>3. p.reply.status # 409
    BY <1>1 DEF Carries
  <2>4. Undisturbed => p.reply.status # -1 /\ p.reply.status # 401
    BY <1>1 DEF SessionInv
  <2> QED
    BY <2>1, <2>2, <2>3, <2>4 DEF Answer
<1>4. ASSUME Answer(i) = 404
      PROVE  ConsoleInv'
  <2> DEFINE q == BucketsCall({})
             u == CloseBrowser(ui)
  <2>1. Closed(ui, u) /\ PollSame(ui, u)
    BY <1>1, ClosedPage
  <2>2. calls' = [calls EXCEPT ![i] = q]
        /\ ui' = IF EnablesMore(p, u) THEN Release(u, {"more"}) ELSE u
    BY <1>4 DEF ReceiveObjects, GoOn
  <2> HIDE DEF u
  <2>3. ui' = u
    BY <1>1, <1>2, <2>1, <2>2 DEF EnablesMore, Closed
  <2>4. Sent(q, "buckets") /\ q.cookie = cookie
    BY <1>1, BucketsSent
  <2> HIDE DEF q
  <2>5. CallOK(q) /\ q # Idle
    BY <2>4, IdleOK DEF Sent, CallOK, Names
  <2>6. Passes(i, q)
    BY <1>1, <2>2, <2>5, PassesSet
  <2>7. TypeOK'
    BY <1>1, <2>1, <2>3, <2>6, TypesStay DEF Closed
  <2>8. SessionInv'
    BY <1>1, <1>2, <2>1, <2>3, <2>4, <2>6, SessionStays DEF Sent, PollSame
  <2>9. \A j \in Slots : Loads(j)' => Loads(j) /\ SameFetch(calls[j], calls'[j])
    BY <2>4, <2>6 DEF Loads, Passes, Kept, Sent, SameFetch
  <2>10. LoadInv' /\ BrowserInv'
    BY <1>1, <2>1, <2>3, <2>9, BrowserCloses
  <2>11. PollInv'
    BY <1>1, <2>1, <2>3, <2>6, PollStays, StatusKept DEF ConsoleInv
  <2> QED
    BY <2>7, <2>8, <2>10, <2>11 DEF ConsoleInv
<1>5. ASSUME NEW u \in UI, calls' = Done(i),
             ui' = (IF EnablesMore(p, u) THEN Release(u, {"more"}) ELSE u),
             PollSame(ui, u) \/ Signed(u),
             u.generation = ui.generation, u.selected = ui.selected,
             RowShows(u), u.busy = ui.busy,
             Undisturbed /\ ~current => u = ui,
             Undisturbed /\ current /\ ui.selected # NoBucket =>
                 InOrder(u) /\ (u.more => u.token = Len(u.pages))
      PROVE  ConsoleInv'
  <2>1. Passes(i, Idle)
    BY <1>1, <1>5, PassesDone
  <2>2. /\ ui' \in UI /\ PollSame(u, ui') /\ ui'.generation = ui.generation
        /\ ui'.selected = ui.selected /\ RowShows(ui')
        /\ ui'.pages = u.pages /\ ui'.token = u.token /\ ui'.more = u.more
        /\ (~current => ui'.busy = ui.busy)
    BY <1>5 DEF EnablesMore, Release, UI, PollSame, RowShows
  <2>3. PollSame(ui, ui') \/ Signed(ui')
    BY <1>5, <2>2, SignedOn
  <2>4. TypeOK'
    BY <1>1, <2>1, <2>2, TypesStay
  <2>5. SessionInv'
    BY <1>1, <1>2, <2>1, <2>3, SessionStays DEF PollSame, Signed
  <2>6. PollInv'
    BY <1>1, <2>1, <2>3, PollStays, PollEnds, StatusKept DEF ConsoleInv
  <2>7. ~Loads(i)' /\ \A j \in Slots \ {i} :
          /\ Loads(j)' <=> Loads(j)
          /\ Loads(j) => /\ calls'[j].generation = calls[j].generation
                         /\ calls'[j].bucket = calls[j].bucket
                         /\ calls'[j].append = calls[j].append
                         /\ calls'[j].token = calls[j].token
    BY <2>1 DEF Passes, Kept, Loads, SameFetch
  <2>8. current => \A j \in Slots \ {i} :
                     Loads(j) => calls[j].generation # ui.generation
    BY <1>1 DEF LoadInv
  <2>9. LoadInv'
    <3>1. \A j \in Slots : Loads(j)' => j # i
      BY <2>7
    <3>2. \A j \in Slots :
            Loads(j)' => calls'[j].generation <= ui'.generation
      BY <1>1, <2>2, <2>7, <3>1 DEF LoadInv
    <3>3. \A j, k \in Slots :
            Loads(j)' /\ Loads(k)' /\ calls'[j].generation = calls'[k].generation
              => j = k
      BY <1>1, <2>7, <3>1 DEF LoadInv
    <3>4. \A j \in Slots :
            Loads(j)' /\ calls'[j].generation = ui'.generation
              => "more" \in ui'.busy
      BY <1>1, <2>2, <2>7, <2>8, <3>1 DEF LoadInv
    <3> QED
      BY <3>2, <3>3, <3>4 DEF LoadInv
  <2>10. BrowserInv'
    <3>1. CASE ~Undisturbed \/ ui.selected = NoBucket
      BY <1>2, <2>2, <3>1 DEF BrowserInv, RowShows
    <3>2. CASE Undisturbed /\ ui.selected # NoBucket /\ current
      <4>1. InOrder(ui') /\ (ui'.more => ui'.token = Len(ui'.pages))
        BY <1>5, <2>2, <3>2 DEF InOrder
      <4>2. \A j \in Slots : ~(Loads(j)' /\ calls'[j].generation = ui'.generation)
        BY <2>2, <2>7, <2>8, <3>2
      <4> QED
        BY <2>2, <4>1, <4>2 DEF BrowserInv, RowShows, InOrder
    <3>3. CASE Undisturbed /\ ui.selected # NoBucket /\ ~current
      <4>1. /\ ui'.pages = ui.pages /\ ui'.token = ui.token /\ ui'.more = ui.more
            /\ (InOrder(ui') <=> InOrder(ui))
        BY <1>5, <2>2, <3>3 DEF InOrder
      <4>2. CASE /\ InOrder(ui) /\ (ui.more => ui.token = Len(ui.pages))
                 /\ \A j \in Slots :
                      ~(Loads(j) /\ calls[j].generation = ui.generation)
        <5>1. \A j \in Slots :
                ~(Loads(j)' /\ calls'[j].generation = ui'.generation)
          BY <2>2, <2>7, <4>2
        <5> QED
          BY <2>2, <4>1, <4>2, <5>1 DEF BrowserInv, RowShows, InOrder
      <4>3. ASSUME NEW j \in Slots,
                   Loads(j) /\ calls[j].generation = ui.generation
                     /\ calls[j].bucket = ui.selected,
                   calls[j].append =>
                      InOrder(ui) /\ calls[j].token = Len(ui.pages),
                   ~calls[j].append => calls[j].token = 0
            PROVE  BrowserInv'
        <5>1. j # i
          BY <3>3, <4>3
        <5>2. /\ Loads(j)' /\ calls'[j].generation = ui'.generation
              /\ calls'[j].bucket = ui'.selected
              /\ calls'[j].append =>
                    InOrder(ui') /\ calls'[j].token = Len(ui'.pages)
              /\ ~calls'[j].append => calls'[j].token = 0
          BY <2>2, <2>7, <4>1, <4>3, <5>1
        <5> QED
          BY <2>2, <5>2 DEF BrowserInv, RowShows, InOrder
      <4> QED
        BY <1>1, <3>3, <4>2, <4>3 DEF BrowserInv
    <3> QED
      BY <3>1, <3>2, <3>3
  <2> QED
    BY <2>4, <2>5, <2>6, <2>9, <2>10 DEF ConsoleInv
<1>6. Undisturbed /\ current /\ ui.selected # NoBucket =>
        /\ p.bucket = ui.selected
        /\ p.append => InOrder(ui) /\ p.token = Len(ui.pages)
        /\ ~p.append => p.token = 0
  BY <1>1 DEF BrowserInv, LoadInv
<1>7. CASE Answer(i) = 200
  <2> DEFINE page == ObjectPage(p.bucket, p.token)
             v == RenderObjects(ui, page, p.append)
  <2>1. p.reply.page = page
    BY <1>1, <1>7 DEF Carries, Answer
  <2>2. page \in ObjectPages
    BY <1>1, ConsoleAssumption DEF ObjectPage, ObjectPages
  <2> DEFINE u == IF UpToDate(p, ui) THEN v ELSE ui
  <2>3. /\ ui' = IF EnablesMore(p, u) THEN Release(u, {"more"}) ELSE u
        /\ calls' = Done(i)
    BY <1>7, <2>1 DEF ReceiveObjects
  <2>4. /\ v \in UI /\ PollSame(ui, v) /\ v.generation = ui.generation
        /\ v.selected = ui.selected /\ RowShows(v) /\ v.busy = ui.busy
    <3> HIDE DEF page
    <3> QED
      BY <1>1, <2>2, ObjectsShown
  <2>5. UpToDate(p, ui) /\ Undisturbed =>
          InOrder(v) /\ (v.more => v.token = Len(v.pages))
    <3>1. ASSUME UpToDate(p, ui), Undisturbed
          PROVE  /\ ui.selected = p.bucket
                 /\ p.append => InOrder(ui) /\ p.token = Len(ui.pages)
                 /\ ~p.append => p.token = 0
      BY <1>1, <1>6, <3>1, ConsoleAssumption DEF UpToDate
    <3> QED
      BY <1>1, <3>1, ObjectsListed
  <2>6. Undisturbed /\ current /\ ui.selected # NoBucket => UpToDate(p, ui)
    BY <1>6 DEF UpToDate
  <2>7. ~current => ~UpToDate(p, ui)
    BY DEF UpToDate
  <2> HIDE DEF v, page
  <2>8. /\ u \in UI /\ PollSame(ui, u) /\ u.generation = ui.generation
        /\ u.selected = ui.selected /\ RowShows(u) /\ u.busy = ui.busy
    BY <1>1, <2>4 DEF PollSame
  <2>9. /\ Undisturbed /\ ~current => u = ui
        /\ Undisturbed /\ current /\ ui.selected # NoBucket =>
             InOrder(u) /\ (u.more => u.token = Len(u.pages))
    BY <2>5, <2>6, <2>7
  <2> HIDE DEF u
  <2> QED
    BY <1>5, <2>3, <2>8, <2>9
<1>8. CASE Answer(i) = 401
  <2> DEFINE u == ShowLogin(ui)
  <2>1. /\ ui' = IF EnablesMore(p, u) THEN Release(u, {"more"}) ELSE u
        /\ calls' = Done(i)
    BY <1>8 DEF ReceiveObjects
  <2>2. Turns(ui, u) /\ Signed(u) /\ u.busy = ui.busy
    BY <1>1, LoginPage DEF ShowLogin, ClearTimer, UI
  <2>3. ~Undisturbed
    BY <1>3, <1>8
  <2> HIDE DEF u
  <2> QED
    BY <1>1, <1>5, <2>1, <2>2, <2>3 DEF Turns, BrowserSame
<1>9. CASE Answer(i) \notin {200, 401, 404}
  <2> DEFINE u == IF ui.generation = p.generation
                  THEN [ui EXCEPT !.more = FALSE] ELSE ui
  <2>1. /\ ui' = IF EnablesMore(p, u) THEN Release(u, {"more"}) ELSE u
        /\ calls' = Done(i)
    BY <1>9 DEF ReceiveObjects
  <2>2. /\ u \in UI /\ PollSame(ui, u) /\ u.generation = ui.generation
        /\ u.selected = ui.selected /\ RowShows(u) /\ u.busy = ui.busy
    BY <1>1 DEF UI, PollSame, RowShows
  <2>3. ~Undisturbed
    BY <1>3, <1>9
  <2> HIDE DEF u
  <2> QED
    BY <1>5, <2>1, <2>2, <2>3
<1> QED
  BY <1>4, <1>7, <1>8, <1>9

(***************************************************************************)
(* Steps of the server and of the network, continued                       *)
(***************************************************************************)
\* Slot i gets an answer; the page has not seen it.
LEMMA AnswersLeave ==
    ASSUME ConsoleInv, NEW i \in Slots, NEW q, Replied(i, q),
           UNCHANGED <<ui, cookie, visit>>, Undisturbed' => Undisturbed,
           stored' \subseteq Buckets, changes' \in Nat, failures' \in Nat,
           sessions' \in Nat, live' \subseteq 1..sessions'
    PROVE  TypeOK' /\ PollInv' /\ LoadInv' /\ BrowserInv'
<1>1. TypeOK /\ PollInv /\ LoadInv /\ BrowserInv
  BY DEF ConsoleInv
<1>2. /\ calls' \in [Slots -> Fetch \cup {Idle}]
      /\ \A j \in Slots : CallOK(calls'[j])
      /\ calls'[i] = q /\ \A j \in Slots \ {i} : calls'[j] = calls[j]
  BY <1>1, CallsSet DEF Replied
<1>3. TypeOK'
  BY <1>1, <1>2 DEF TypeOK
<1>4. \A j \in Slots :
        /\ calls'[j] = Idle <=> calls[j] = Idle
        /\ calls[j] # Idle => SameFetch(calls[j], calls'[j])
  BY <1>2 DEF Replied, SameFetch
<1>5. StatusUnderWay => StatusUnderWay'
  BY <1>4 DEF StatusUnderWay, SameFetch
<1>6. ui \in UI /\ ui' = ui /\ RowShows(ui')
  BY <1>1 DEF TypeOK, BrowserInv, RowShows
<1>7. PollInv'
  BY <1>1, <1>5, <1>6, PollStays, StillPage
<1>8. LoadsKept
  BY <1>4 DEF LoadsKept, Loads, SameFetch
<1>9. LoadInv' /\ BrowserInv'
  BY <1>1, <1>6, <1>8, BrowserStays, StillPage DEF Turns
<1> QED
  BY <1>3, <1>7, <1>9

LEMMA ServeStep ==
    ASSUME ConsoleInv, NEW i \in Slots, Serve(i) PROVE ConsoleInv'
<1>1. /\ TypeOK /\ SessionInv /\ sessions \in Nat /\ live \subseteq 1..sessions
      /\ failures \in Nat
  BY DEF ConsoleInv, TypeOK
<1>2. /\ stored' \subseteq Buckets /\ changes' \in Nat
      /\ UNCHANGED <<ui, cookie, failures, visit>>
  BY <1>1, ServeAnswers
<1>3. PICK q : Served(i, q)
  BY <1>1, ServeAnswers
<1>4. /\ Replied(i, q) /\ sessions' \in Nat /\ sessions <= sessions'
      /\ live' \subseteq 1..sessions' /\ (Undisturbed' => Undisturbed)
  BY <1>3 DEF Served
<1>5. TypeOK' /\ PollInv' /\ LoadInv' /\ BrowserInv'
  BY <1>1, <1>2, <1>4, AnswersLeave
<1>6. /\ calls'[i] = q /\ calls[i] # Idle /\ SameFetch(calls[i], q) /\ q # Idle
      /\ \A j \in Slots \ {i} : calls'[j] = calls[j]
  BY <1>1, <1>4, CallsSet DEF Replied
<1>7. 0..sessions \subseteq 0..sessions'
  BY <1>1, <1>4
<1>8. cookie' \in 0..sessions' /\ \A j \in Slots : calls'[j] # Idle =>
        /\ calls'[j].cookie \in 0..sessions'
        /\ calls'[j].reply.status = 200
             /\ calls'[j].kind \in {"login", "logout"} =>
                  calls'[j].reply.cookie \in 0..sessions'
  <2>1. ASSUME NEW j \in Slots \ {i}, calls'[j] # Idle
        PROVE  /\ calls'[j].cookie \in 0..sessions'
               /\ calls'[j].reply.status = 200
                    /\ calls'[j].kind \in {"login", "logout"} =>
                         calls'[j].reply.cookie \in 0..sessions'
    BY <1>1, <1>6, <1>7, <2>1 DEF SessionInv
  <2>2. /\ q.cookie \in 0..sessions'
        /\ q.reply.status = 200 /\ q.kind \in {"login", "logout"} =>
             q.reply.cookie \in 0..sessions'
    BY <1>1, <1>3, <1>6, <1>7 DEF SessionInv, Served, SameFetch
  <2>3. cookie' \in 0..sessions'
    BY <1>1, <1>2, <1>7 DEF SessionInv
  <2> QED
    BY <1>6, <2>1, <2>2, <2>3
<1>9. ASSUME Undisturbed'
      PROVE  /\ cookie' = 0 => /\ ui'.view # "workbench"
                               /\ \A j \in Slots :
                                    calls'[j] # Idle => calls'[j].cookie = 0
             /\ \A j \in Slots : calls'[j] # Idle =>
                 /\ calls'[j].reply.status # -1
                 /\ calls'[j].reply.status = 200 =>
                     /\ calls'[j].kind = "login" => calls'[j].reply.cookie # 0
                     /\ calls'[j].kind # "logout"
                     /\ calls'[j].kind # "login" => calls'[j].cookie # 0
                 /\ calls'[j].kind = "objects" =>
                     calls'[j].cookie # 0 /\ calls'[j].reply.status # 401
  <2>1. Undisturbed /\ live = 1..sessions
    BY <1>4, <1>9 DEF Undisturbed
  <2>2. cookie' = 0 => /\ ui'.view # "workbench"
                       /\ \A j \in Slots : calls'[j] # Idle => calls'[j].cookie = 0
    BY <1>1, <1>2, <1>6, <2>1 DEF SessionInv, SameFetch
  <2>3. ASSUME NEW j \in Slots \ {i}, calls'[j] # Idle
        PROVE  /\ calls'[j].reply.status # -1
               /\ calls'[j].reply.status = 200 =>
                   /\ calls'[j].kind = "login" => calls'[j].reply.cookie # 0
                   /\ calls'[j].kind # "logout"
                   /\ calls'[j].kind # "login" => calls'[j].cookie # 0
               /\ calls'[j].kind = "objects" =>
                   calls'[j].cookie # 0 /\ calls'[j].reply.status # 401
    BY <1>1, <1>6, <2>1, <2>3 DEF SessionInv
  <2>4. q.cookie \in 0..sessions
    BY <1>1, <1>6 DEF SessionInv, SameFetch
  <2>5. q.cookie # 0 => q.cookie \in live
    BY <1>1, <2>1, <2>4
  <2>6. q.reply.status = 200 /\ q.kind # "login" => q.cookie # 0
    BY <1>1, <1>3, <2>4 DEF Served
  <2>7. q.kind = "objects" => q.cookie # 0
    <3>1. calls[i].kind = "objects" => calls[i].cookie # 0
      BY <1>1, <1>6, <2>1 DEF SessionInv
    <3> QED
      BY <1>6, <3>1 DEF SameFetch
  <2>8. /\ q.reply.status # -1
        /\ q.reply.status = 200 =>
            /\ q.kind = "login" => q.reply.cookie # 0
            /\ q.kind # "logout"
        /\ q.kind = "objects" => q.reply.status # 401
    BY <1>3, <1>9, <2>5, <2>7 DEF Served
  <2> QED
    BY <1>6, <2>2, <2>3, <2>6, <2>7, <2>8
<1>10. SessionInv'
  BY <1>8, <1>9 DEF SessionInv
<1> QED
  BY <1>5, <1>10 DEF ConsoleInv

\* Sessions when a request or answer is lost or a session ends.
LEMMA SessionDisturbed ==
    ASSUME SessionInv, UNCHANGED <<cookie, sessions>>, ~Undisturbed',
           \A j \in Slots : calls'[j] # Idle =>
               /\ calls[j] # Idle /\ SameFetch(calls[j], calls'[j])
               /\ calls'[j].reply.status = 200 => calls'[j].reply = calls[j].reply
    PROVE  SessionInv'
<1>1. \A j \in Slots : calls'[j] # Idle =>
        /\ calls'[j].cookie \in 0..sessions
        /\ calls'[j].reply.status = 200
             /\ calls'[j].kind \in {"login", "logout"} =>
                  calls'[j].reply.cookie \in 0..sessions
  BY DEF SessionInv, SameFetch
<1> QED
  BY <1>1 DEF SessionInv

LEMMA LoseStep ==
    ASSUME ConsoleInv, NEW i \in Slots, Lose(i) PROVE ConsoleInv'
<1>1. /\ TypeOK /\ SessionInv /\ calls[i] # Idle
      /\ failures \in Nat /\ failures' = failures + 1
      /\ Reply(i, [status |-> -1])
      /\ UNCHANGED <<ui, cookie, server, visit>>
      /\ sessions \in Nat /\ live \subseteq 1..sessions
      /\ stored \subseteq Buckets /\ changes \in Nat
  BY DEF ConsoleInv, TypeOK, Lose, Failed
<1>2. PICK q : Replied(i, q) /\ q.reply = [status |-> -1]
  BY <1>1, ReplyPlain
<1>3. ~Undisturbed' /\ failures' \in Nat
  BY <1>1 DEF Undisturbed
<1>4. TypeOK' /\ PollInv' /\ LoadInv' /\ BrowserInv'
  BY <1>1, <1>2, <1>3, AnswersLeave DEF server
<1>5. /\ calls'[i] = q /\ SameFetch(calls[i], q)
      /\ \A j \in Slots \ {i} : calls'[j] = calls[j]
  BY <1>1, <1>2, CallsSet DEF Replied
<1>6. \A j \in Slots : calls'[j] # Idle =>
        /\ calls[j] # Idle /\ SameFetch(calls[j], calls'[j])
        /\ calls'[j].reply.status = 200 => calls'[j].reply = calls[j].reply
  BY <1>1, <1>2, <1>5 DEF SameFetch
<1>7. SessionInv'
  BY <1>1, <1>3, <1>6, SessionDisturbed DEF server
<1> QED
  BY <1>4, <1>7 DEF ConsoleInv

\* Steps that the page and its fetches do not take part in.
LEMMA OutsideStep ==
    ASSUME ConsoleInv, Expire \/ External PROVE ConsoleInv'
<1>1. /\ TypeOK /\ SessionInv /\ PollInv /\ LoadInv /\ BrowserInv
      /\ UNCHANGED <<ui, calls, cookie, sessions, visit>>
      /\ failures \in Nat /\ changes \in Nat /\ live \subseteq 1..sessions
      /\ stored \subseteq Buckets
  BY DEF ConsoleInv, TypeOK, Expire, External
<1>2. /\ live' \subseteq 1..sessions' /\ stored' \subseteq Buckets
      /\ failures' \in Nat /\ changes' \in Nat
      /\ ~Undisturbed' \/ (Undisturbed' <=> Undisturbed)
  <2>1. CASE Expire
    BY <1>1, <2>1 DEF Expire, Undisturbed
  <2>2. CASE External
    <3>1. live' = live /\ failures' = failures /\ changes' = changes + 1
      BY <2>2 DEF External
    <3>2. stored' \subseteq Buckets
      BY <1>1, <2>2 DEF External
    <3> QED
      BY <1>1, <3>1, <3>2 DEF Undisturbed
  <2> QED
    BY <2>1, <2>2
<1>3. TypeOK'
  BY <1>1, <1>2 DEF TypeOK
<1>4. PollInv'
  BY <1>1 DEF PollInv, StatusUnderWay
<1>5. SessionInv'
  BY <1>1, <1>2 DEF SessionInv
<1>6. LoadInv'
  BY <1>1 DEF LoadInv, Loads
<1>7. BrowserInv'
  BY <1>1, <1>2 DEF BrowserInv, Loads, InOrder
<1> QED
  BY <1>3, <1>4, <1>5, <1>6, <1>7 DEF ConsoleInv

LEMMA ConsoleInit == Init => ConsoleInv
<1> SUFFICES ASSUME Init PROVE ConsoleInv
  OBVIOUS
<1>1. /\ sessions \in {0, 1} /\ cookie = sessions /\ live = 1..sessions
      /\ stored \subseteq Buckets /\ visit \in Bounds
      /\ failures = 0 /\ changes = 0 /\ cookie \in Nat
  BY ConsoleAssumption DEF Init
<1> DEFINE c == StatusCall(FALSE, TRUE, {})
           rows == [b \in Buckets |-> "absent"]
<1>2. Sent(c, "status") /\ c.cookie = cookie
  BY <1>1, StatusSent
<1> HIDE DEF c
<1>3. CallOK(c) /\ CallOK(Idle) /\ c # Idle
  BY <1>2, IdleOK DEF CallOK, Sent, Names
<1>4. /\ calls \in [Slots -> Fetch \cup {Idle}]
      /\ \A i \in Slots : CallOK(calls[i]) /\ calls[i] \in {c, Idle}
  BY <1>2, <1>3 DEF Init, c, Sent
<1>5. rows \in [Buckets -> RowStates] /\ <<>> \in Seq(ObjectPages)
  BY DEF RowStates
<1>6. ui = [view |-> "none", timers |-> {}, poll |-> 0, rows |-> rows,
            list |-> "blank", selected |-> NoBucket, token |-> 0,
            generation |-> 0, pages |-> <<>>, more |-> FALSE,
            busy |-> {"refresh"}]
  BY DEF Init, Page
<1> HIDE DEF rows
<1>7. TypeOK
  BY <1>1, <1>4, <1>5, <1>6 DEF TypeOK, UI, Views, Buttons
<1>8. PollInv
  BY <1>6 DEF PollInv, OneTimer
<1>9. \A i \in Slots : calls[i] # Idle =>
        calls[i].cookie = cookie /\ calls[i].kind = "status"
          /\ calls[i].reply.status = 0
  BY <1>2, <1>4 DEF Sent, Pending
<1>10. SessionInv
  BY <1>1, <1>6, <1>9 DEF SessionInv
<1>11. LoadInv /\ BrowserInv
  BY <1>6, <1>9 DEF LoadInv, BrowserInv, Loads
<1> QED
  BY <1>7, <1>8, <1>10, <1>11 DEF ConsoleInv

LEMMA ConsoleStep == ConsoleInv /\ [Next]_vars => ConsoleInv'
<1> SUFFICES ASSUME ConsoleInv, [Next]_vars PROVE ConsoleInv'
  OBVIOUS
<1>1. CASE UNCHANGED vars
  BY <1>1 DEF vars, server, ConsoleInv, TypeOK, PollInv, StatusUnderWay,
              SessionInv, Undisturbed, LoadInv, Loads, BrowserInv, InOrder
<1>2. CASE \E i \in Slots : Serve(i) \/ Lose(i) \/ Receive(i)
  BY <1>2, ServeStep, LoseStep, ReceiveStatusStep, ReceiveBucketsStep,
     ReceiveObjectsStep, ReceiveLoginStep, ReceiveLogoutStep,
     ReceiveCreateStep, ReceiveDeleteStep DEF Receive
<1>3. CASE Expire \/ External
  BY <1>3, OutsideStep
<1>4. CASE Click
  BY <1>4, RefreshStep, SubmitStep, LogoutStep, CreateStep, AskDeleteStep,
     ConfirmDeleteStep, BrowseStep, MoreStep, CloseStep DEF Click
<1>5. CASE TimerFires
  BY <1>5, TimerFiresStep
<1> QED
  BY <1>1, <1>2, <1>3, <1>4, <1>5 DEF Next

LEMMA ConsoleInvariant == Spec => []ConsoleInv
BY ConsoleInit, ConsoleStep, PTL DEF Spec

(***************************************************************************)
(* The theorems                                                            *)
(***************************************************************************)
\* The health of the server is polled by one timer, exactly while the
\* workbench shows: signing out, a session that ends while a status is on
\* its way and every answer that arms the poll again leave no second timer
\* and none behind the sign-in form.
THEOREM OneHealthPoll == Spec => []OnePoll
<1>1. ConsoleInv => OnePoll
  <2> SUFFICES ASSUME ConsoleInv PROVE OnePoll
    OBVIOUS
  <2>1. PollInv
    BY DEF ConsoleInv
  <2>2. CASE ui.timers = {}
    BY <2>1, <2>2, FS_EmptySet DEF OnePoll, PollInv
  <2>3. CASE ui.timers # {}
    <3>1. PICK t : t \in ui.timers
      BY <2>3
    <3>2. ui.timers = {t}
      BY <2>1, <3>1 DEF PollInv, OneTimer
    <3>3. Cardinality(ui.timers) = 1
      BY <3>2, FS_Singleton
    <3> QED
      BY <2>1, <3>3 DEF OnePoll, PollInv
  <2> QED
    BY <2>2, <2>3
<1> QED
  BY <1>1, ConsoleInvariant, PTL

\* The object browser lists the first pages of the bucket it names, each once
\* and in order, in whatever order the answers of superseded loads arrive,
\* and it is not open over a bucket that the inventory does not show.
THEOREM BrowserListsItsBucket == Spec => []BrowserTrue
<1>1. ConsoleInv => BrowserTrue
  BY DEF ConsoleInv, BrowserInv, BrowserTrue, InOrder, Loads, LoadUnderWay
<1> QED
  BY <1>1, ConsoleInvariant, PTL
===============================================================================

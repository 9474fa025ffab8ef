------------------------ MODULE RemoteWatchInvariants ------------------------
(***************************************************************************)
(* What holds of a session at every step of it (RemoteWatch): the parts of *)
(* the inductive invariants Inv and AllInTime, which RemoteWatchProofs     *)
(* proves, and what a step is to the tasks of the client.                  *)
(***************************************************************************)
EXTENDS RemoteWatch

\* A list has no pid twice, and no sequence number: the system gives each
\* process its own.
OnePerProcess(rows) ==
  \A a, b \in rows : a.pid = b.pid \/ a.seq = b.seq => a = b

Snapshots(Rows) ==
  [services : Nat,
   processes : [etag : Nat, rows : SUBSET Rows],
   states : [etag : Nat, passport_etag : Nat, rows : SUBSET Rows]]

\* What a published snapshot is, which PublishedCoherent of Feed says of the
\* feed: the lists have the same processes, and the states name their list.
Coherent(s) ==
  /\ OnePerProcess(s.processes.rows) /\ OnePerProcess(s.states.rows)
  /\ Keys(s.processes.rows) = Keys(s.states.rows)
  /\ s.states.passport_etag = s.processes.etag

\* A tag names one list.
TagsName(s, t) ==
  /\ s.processes.etag = t.processes.etag => s.processes.rows = t.processes.rows
  /\ s.states.etag = t.states.etag => s.states.rows = t.states.rows

\* The sequence numbers a delta lists as gone.
Numbers(keys) == {key[2] : key \in keys}

-----------------------------------------------------------------------------
(***************************************************************************)
(* What was published, over time.                                          *)
(***************************************************************************)
\* The tags and the sequence numbers of the nth snapshot are of the first n.
Within(s, n) ==
  /\ s.services \in 1..n /\ s.processes.etag \in 1..n /\ s.states.etag \in 1..n
  /\ \A row \in s.processes.rows \cup s.states.rows : row.seq <= n

\* A tag grows with its list, and names it.
Later(s, t) ==
  /\ s.services <= t.services
  /\ s.processes.etag <= t.processes.etag
  /\ s.processes.etag = t.processes.etag => s.processes = t.processes
  /\ s.states.etag <= t.states.etag
  /\ s.states.etag = t.states.etag => s.states = t.states

Record ==
  /\ published \in Seq(Snapshot) /\ published # <<>>
  /\ \A n \in 1..Len(published) : Coherent(published[n]) /\ Within(published[n], n)
  /\ \A m, n \in 1..Len(published) : m <= n => Later(published[m], published[n])

(***************************************************************************)
(* What is on the wires.                                                   *)
(***************************************************************************)
Telling == [form : {"full"}, rows : SUBSET Row] \cup {Unchanged}
             \cup [form : {"delta"}, base : Nat, left : SUBSET Nat, upserted : SUBSET Row]
UpdateLists == [passport_etag : Nat, states_etag : Nat, services_etag : Nat,
                passports : Telling, states : Telling]

Gets == [kind : {"get"}, task : Tasks, what : What, tag : Nat]
ToAgent == Gets \cup [kind : {"watch", "release"}, watch : Watches]
             \cup [kind : {"answer"}, watch : Watches, taken : BOOLEAN] \cup {Void}
RepliesWith(what, parts) ==
  [kind : {"reply"}, task : Tasks, what : {what}, part : parts \cup {None}, seen : Nat]
Replies == RepliesWith("services", Nat) \cup RepliesWith("processes", ProcessList)
             \cup RepliesWith("states", StateList)
Updates == [kind : {"update"}, watch : Watches, known : BOOLEAN, sample : Nat, lists : UpdateLists]
ToClient == Replies \cup Updates
              \cup [kind : {"watching"}, watch : Watches, taken : BOOLEAN] \cup {Void}

GetsOf(t, what) == {m \in ToAgent : m.kind = "get" /\ m.task = t /\ m.what = what}
RepliesOf(t, what) == {m \in ToClient : m.kind = "reply" /\ m.task = t /\ m.what = what}
UpdatesOf(w) == {m \in ToClient : m.kind = "update" /\ m.watch = w}
AnswersOf(w) == {m \in ToAgent : m.kind = "answer" /\ m.watch = w}
CallsFor(w) == {m \in ToAgent : m.kind = "watch" /\ m.watch = w}
ReleasesOf(w) == {m \in ToAgent : m.kind = "release" /\ m.watch = w}
RefusalsOf(w) == {m \in ToClient : m.kind = "watching" /\ m.watch = w /\ ~m.taken}

Lacks(queue, S) == \A i \in 1..Len(queue) : queue[i] \notin S
AtMostOne(queue, S) == \A i, j \in 1..Len(queue) : queue[i] \in S /\ queue[j] \in S => i = j

Task == [at : {"idle", "three", "processes", "states", "done"}, tries : Nat, since : Nat,
         got : Seq(Replies), sample : Nat, result : Snapshot \cup {None}]
Typed ==
  /\ slots \in [Watches -> Nat]
  /\ pushes \in [Watches -> [at : {"none", "next", "sent", "ended"}, last : Nat, before : Nat]]
  /\ held \in Int /\ handles \in [Watches -> {"none", "held", "dropped"}]
  /\ to_agent \in Seq(ToAgent) /\ to_client \in Seq(ToClient)
  /\ calls \in Nat
  /\ watches \in [Watches -> [at : {"new", "asked", "on", "refused", "dropped"}, beside : Nat]]
  /\ listeners \in [Watches -> Snapshot \cup {None}]
  /\ waiting \in [Watches -> Delivery \cup {Failed, None}]
  /\ cache \in Snapshot
  /\ tasks \in [Tasks -> Task]
  /\ resynced \subseteq Watches

(***************************************************************************)
(* Each task reads one thing at a time, or three at once.                  *)
(***************************************************************************)
Reads(t, what) == ~Lacks(to_agent, GetsOf(t, what)) \/ ~Lacks(to_client, RepliesOf(t, what))

ReadingOf(t) ==
  /\ \A what \in What :
       /\ AtMostOne(to_agent, GetsOf(t, what)) /\ AtMostOne(to_client, RepliesOf(t, what))
       /\ Lacks(to_agent, GetsOf(t, what)) \/ Lacks(to_client, RepliesOf(t, what))
       /\ Reads(t, what) => tasks[t].at \in {"three", what}
  /\ tasks[t].at # "three" => tasks[t].got = <<>>
  /\ Len(tasks[t].got) <= 2
  /\ \A i \in 1..Len(tasks[t].got) :
       /\ \A what \in What : Reads(t, what) => tasks[t].got[i].what # what
       /\ \A j \in 1..Len(tasks[t].got) : tasks[t].got[i].what = tasks[t].got[j].what => i = j
  /\ tasks[t].tries <= JoinAttempts
Reading == \A t \in Tasks : ReadingOf(t)

(***************************************************************************)
(* An update of a watch is told once the one before was taken: it is on    *)
(* its way, read afresh, waits for its reader or its answer is on its way. *)
(***************************************************************************)
OnItsWay(w) == ~Lacks(to_client, UpdatesOf(w))
ReadAfresh(w) == tasks[w].at # "idle"
Waits(w) == waiting[w] # None
IsAnswered(w) == ~Lacks(to_agent, AnswersOf(w))
Calling(w) == ~Lacks(to_agent, CallsFor(w))

TurnOf(w) ==
  /\ AtMostOne(to_client, UpdatesOf(w)) /\ AtMostOne(to_agent, AnswersOf(w))
  /\ OnItsWay(w) => ~ReadAfresh(w) /\ ~Waits(w) /\ ~IsAnswered(w)
  /\ ReadAfresh(w) => ~Waits(w) /\ ~IsAnswered(w)
  /\ Waits(w) => ~IsAnswered(w)
  /\ pushes[w].at \in {"none", "next"} =>
       ~OnItsWay(w) /\ ~ReadAfresh(w) /\ ~Waits(w) /\ ~IsAnswered(w)
  /\ AtMostOne(to_agent, CallsFor(w))
  /\ Calling(w) => pushes[w].at = "none" /\ watches[w].at # "new"
  /\ watches[w].at = "new" => pushes[w].at = "none"
Turns == \A w \in Watches : TurnOf(w)

\* What is told of moves on.
Onward ==
  \A w \in Watches :
    /\ pushes[w].before <= pushes[w].last
    /\ pushes[w].last <= slots[w] /\ slots[w] <= Len(published)
    /\ pushes[w].at = "none" => pushes[w].last = 0
    /\ pushes[w].at = "sent" => pushes[w].last # 0

\* What the listener of a watch holds once it was told the nth snapshot.
Shown(n) == IF n = 0 THEN None ELSE published[n]
Base(n) == IF n = 0 THEN First ELSE published[n]

\* And what it is told next is told against it.
ToldFrom(w, n) ==
  \A i \in 1..Len(to_client) :
    to_client[i] \in UpdatesOf(w) =>
      /\ to_client[i].sample \in 1..Len(published)
      /\ pushes[w].at = "sent" => to_client[i].sample = pushes[w].last
      /\ to_client[i].lists = Update(n # 0, Base(n), published[to_client[i].sample])

FollowsFrom(w, n) ==
  /\ listeners[w] = Shown(n) /\ ToldFrom(w, n)
  /\ pushes[w].at = "none" => n = 0
  /\ pushes[w].at = "next" => n = pushes[w].before
  /\ pushes[w].at = "sent" /\ ~OnItsWay(w) => n = pushes[w].last
FollowsOf(w) ==
  /\ ~ReadAfresh(w)
  /\ \E n \in 0..Len(published) : FollowsFrom(w, n)
  /\ Waits(w) => /\ ~waiting[w].failed /\ waiting[w].sample \in 1..Len(published)
                 /\ waiting[w].snapshot = published[waiting[w].sample]
Follows == \A w \in Watches \ resynced : FollowsOf(w)

(***************************************************************************)
(* What is read under its tag is what was published under it.              *)
(***************************************************************************)
On(queue) == {queue[i] : i \in 1..Len(queue)}
Has(what) == Etag(cache, what) # 0
WellAnswered(reply) ==
  IF reply.part = None THEN Has(reply.what) ELSE Tagged(reply.what, reply.part)
WellAsked(m) == m.kind = "get" /\ m.tag # 0 => Has(m.what)
WellKept(c) == \A what \in What : Etag(c, what) # 0 => Tagged(what, Part(c, what))
WellRead(task) ==
  /\ \A m \in On(task.got) : WellAnswered(m)
  /\ task.at \in {"processes", "states"} => \A what \in What : Has(what)
  /\ task.result # None => AsPublished(task.result)
Caching ==
  /\ \A c \in {cache} : WellKept(c)
  /\ \A m \in On(to_agent) : WellAsked(m)
  /\ \A m \in On(to_client) : m.kind = "reply" => WellAnswered(m)
  /\ \A t \in Tasks : \A task \in {tasks[t]} : WellRead(task)

(***************************************************************************)
(* The places the session has taken are of watches the client had called   *)
(* for and not yet let go.                                                 *)
(***************************************************************************)
Holding == {w \in Watches : handles[w] = "held"}

\* Who has a place, or asked for one, when the call at i is heard.
Before(queue, S, i) == \E j \in 1..(i - 1) : queue[j] \in S
Beside(queue, holding, i) ==
  {v \in Watches : /\ v \in holding \/ Before(queue, CallsFor(v), i)
                   /\ ~Before(queue, ReleasesOf(v), i)}
FewBeside(queue, holding, w, most) ==
  \A i \in 1..Len(queue) : queue[i] \in CallsFor(w) => Cardinality(Beside(queue, holding, i)) <= most

\* A watch is called for before it is let go.
CalledFirst(queue, w) ==
  \A i, j \in 1..Len(queue) : queue[i] \in CallsFor(w) /\ queue[j] \in ReleasesOf(w) => i < j

LettingGo(w) == ~Lacks(to_agent, ReleasesOf(w))
ToBeRefused(w) == ~Lacks(to_client, RefusalsOf(w))

PlaceOf(w) ==
  /\ watches[w].at = "new" => handles[w] = "none" /\ ~Calling(w) /\ ~ToBeRefused(w)
  /\ Calling(w) => handles[w] = "none" /\ ~ToBeRefused(w)
  /\ LettingGo(w) => watches[w].at = "dropped"
  /\ (handles[w] = "held" \/ Calling(w)) /\ ~LettingGo(w) => watches[w].at \in {"asked", "on"}
  /\ ToBeRefused(w) => handles[w] # "held"
  /\ ToBeRefused(w) /\ watches[w].at = "asked" => watches[w].beside >= MaxHeld
  /\ watches[w].at = "refused" => watches[w].beside >= MaxHeld
Places ==
  /\ \A holding \in {Holding} : held = Cardinality(holding)
  /\ held <= MaxHeld
  /\ \A w \in Watches : PlaceOf(w)
  /\ \A queue \in {to_agent} : \A w \in Watches : CalledFirst(queue, w)
  /\ \A queue \in {to_agent} : \A holding \in {Holding} : \A w \in Watches : \A mine \in {watches[w]} :
       mine.at = "asked" => FewBeside(queue, holding, w, mine.beside)

(***************************************************************************)
(* What an answer to a task does, a case at a time.                        *)
(***************************************************************************)
Got(t, m) == Append(tasks[t].got, m)
KeptOf(t, m) ==
  IF tasks[t].at = "three" THEN Kept(Kept(Kept(cache, Got(t, m)[1]), Got(t, m)[2]), Got(t, m)[3])
  ELSE Kept(cache, Got(t, m)[1])

Collects(t, m) ==
  /\ tasks[t].at = "three" /\ Len(Got(t, m)) # 3
  /\ tasks' = [tasks EXCEPT ![t] = [tasks[t] EXCEPT !.got = Got(t, m)]]
  /\ UNCHANGED <<to_agent, waiting, listeners, cache>>
ReadsOn(t, k) ==
  /\ ~Over(t, k) /\ cache' = k
  /\ tasks' = [tasks EXCEPT ![t] = Goes(t, k)]
  /\ to_agent' = Append(to_agent, Get(t, FetchesNext(t), k))
  /\ UNCHANGED <<waiting, listeners>>
Concludes(t, k) ==
  /\ Over(t, k) /\ cache' = k /\ t \notin Watches
  /\ tasks' = [tasks EXCEPT ![t] = Goes(t, k)]
  /\ UNCHANGED <<to_agent, waiting, listeners>>
Resyncs(t, k) ==
  /\ Over(t, k) /\ cache' = k /\ t \in Watches
  /\ tasks' = [tasks EXCEPT ![t] = Idle]
  /\ \/ ~Joined(k) /\ HandsOver(t, Failed) /\ UNCHANGED listeners
     \/ /\ Joined(k) /\ HandsOver(t, Gives(tasks[t].sample, k, TRUE))
        /\ listeners' = [listeners EXCEPT ![t] = k]

\* What push is at.
Push == [at : {"none", "next", "sent", "ended"}, last : Nat, before : Nat]

\* Of a task, that what it reads is read once.
ReadsOnce(t) ==
  \A what \in What :
    /\ AtMostOne(to_agent, GetsOf(t, what)) /\ AtMostOne(to_client, RepliesOf(t, what))
    /\ Lacks(to_agent, GetsOf(t, what)) \/ Lacks(to_client, RepliesOf(t, what))

\* A step that brings no update of a watch, and takes none.
UpdatesStay(w) ==
  /\ \A i \in 1..Len(to_client') : to_client'[i] \in UpdatesOf(w) =>
       \E j \in 1..Len(to_client) : to_client[j] = to_client'[i]
  /\ Lacks(to_client', UpdatesOf(w)) => Lacks(to_client, UpdatesOf(w))

-----------------------------------------------------------------------------
(***************************************************************************)
(* The places of a session.                                                *)
(***************************************************************************)
\* What else is sent leaves the calls for watches, and the releases, in their
\* places.
SameCalls(queue, after) ==
  /\ Len(queue) <= Len(after)
  /\ \A i \in 1..Len(queue) : \A v \in Watches :
       /\ after[i] \in CallsFor(v) <=> queue[i] \in CallsFor(v)
       /\ after[i] \in ReleasesOf(v) <=> queue[i] \in ReleasesOf(v)
NeitherCall(m) == \A v \in Watches : m \notin CallsFor(v) /\ m \notin ReleasesOf(v)
NoMoreCalls(queue, after) == \A i \in 1..Len(after) : i > Len(queue) => NeitherCall(after[i])

-----------------------------------------------------------------------------
(***************************************************************************)
(* All of it together, and what follows.                                   *)
(***************************************************************************)
Inv ==
  /\ Typed /\ Record /\ Onward
  /\ Reading /\ Turns /\ Follows
  /\ Caching /\ Places

-----------------------------------------------------------------------------
(***************************************************************************)
(* What two tasks ask for is answered one task after the other, and of one *)
(* task the states after the list of processes.                            *)
(***************************************************************************)
GetsAmong(names) == {m \in ToAgent : m.kind = "get" /\ <<m.task, m.what>> \in names}
RepliesAmong(names) == {m \in ToClient : m.kind = "reply" /\ <<m.task, m.what>> \in names}
Precedes(queue, S, R) == \A i, j \in 1..Len(queue) : queue[i] \in S /\ queue[j] \in R => i < j

\* What goes by one set of names is heard before what goes by the other.
Ahead(out, in, A, B) ==
  /\ Precedes(out, GetsAmong(A), GetsAmong(B)) /\ Precedes(in, RepliesAmong(A), RepliesAmong(B))
  /\ Lacks(out, GetsAmong(A)) \/ Lacks(in, RepliesAmong(B))
Absent(out, in, A) == Lacks(out, GetsAmong(A)) /\ Lacks(in, RepliesAmong(A))

Of(t) == {t} \X What
One(t, what) == {<<t, what>>}
Serial ==
  /\ \A t, u \in Tasks : t # u =>
       Ahead(to_agent, to_client, Of(t), Of(u)) \/ Ahead(to_agent, to_client, Of(u), Of(t))
  /\ \A t \in Tasks : Ahead(to_agent, to_client, One(t, "processes"), One(t, "states"))
  /\ \A t, u \in Tasks : t # u /\ tasks[t].got # <<>> => Ahead(to_agent, to_client, Of(t), Of(u))

\* Of three things a task asked for, what it did not get is on its way.
AwaitedOf(t) ==
  /\ tasks[t].at = "three" =>
       \A what \in What : Reads(t, what) \/ \E m \in On(tasks[t].got) : m.what = what
  /\ \A m \in On(tasks[t].got) : m.what = "states" => ~Reads(t, "processes")
Awaited == \A t \in Tasks : AwaitedOf(t)

(***************************************************************************)
(* An answer is of what was latest when it was sent, and the cache is      *)
(* never ahead of it.                                                      *)
(***************************************************************************)
Lags(c, n) == \A what \in What : Etag(c, what) <= Etag(published[n], what)
Given(m) ==
  /\ m.seen \in 1..Len(published)
  /\ m.part # None => m.part = Part(published[m.seen], m.what)
  /\ m.part = None => Etag(published[m.seen], m.what) <= Etag(cache, m.what)
  /\ Lags(cache, m.seen)
Ordered(queue) ==
  \A i, j \in 1..Len(queue) :
    i < j /\ queue[i].kind = "reply" /\ queue[j].kind = "reply" => queue[i].seen <= queue[j].seen
GotInTime(got, since) ==
  \A m \in On(got) :
    /\ Given(m) /\ since <= m.seen
    /\ \A r \in On(to_client) : r.kind = "reply" => m.seen <= r.seen
    /\ \A x \in On(got) : m.what = "processes" /\ x.what = "states" => m.seen <= x.seen
Timely ==
  /\ Lags(cache, Len(published))
  /\ Ordered(to_client)
  /\ \A m \in On(to_client) : m.kind = "reply" => Given(m) /\ tasks[m.task].since <= m.seen
  /\ \A m \in On(to_agent) : m.kind = "get" => m.tag <= Etag(cache, m.what)
  /\ \A t \in Tasks : tasks[t].since <= Len(published) /\ GotInTime(tasks[t].got, tasks[t].since)

(***************************************************************************)
(* What a task has is not older than its call, and each attempt to join    *)
(* the states to the list counts a move of the list.                       *)
(***************************************************************************)
Dated ==
  \A n \in 1..Len(published) :
    published[published[n].processes.etag].processes.etag = published[n].processes.etag
MovesTo(since, last) == {n \in (since + 1)..last : published[n].processes.etag = n}
NotBefore(c, since) == \A what \in What : Etag(published[since], what) <= Etag(c, what)
Result(since, result) ==
  IF result = None THEN ListMoves(since) > 2 * JoinAttempts
  ELSE /\ Current(result.processes, "processes", since)
       /\ Current(result.states, "states", since)
       /\ Current(result.services, "services", since)
FreshTask(task, c) ==
  /\ task.at # "idle" => task.since \in 1..Len(published)
  /\ task.at = "idle" => task.since = 0
  /\ task.at = "three" => task.tries = 0
  /\ task.at \in {"processes", "states"} => NotBefore(c, task.since)
  /\ task.at = "processes" =>
       task.tries >= 1 /\ Cardinality(MovesTo(task.since, c.states.passport_etag)) >= 2 * task.tries - 1
  /\ task.at = "states" =>
       Cardinality(MovesTo(task.since, c.processes.etag)) >= 2 * task.tries
  /\ task.at = "done" => Result(task.since, task.result)
FreshReads == \A t \in Tasks : FreshTask(tasks[t], cache)

-----------------------------------------------------------------------------
(***************************************************************************)
(* What a step is to the tasks.                                            *)
(***************************************************************************)
\* Messages that are of no such kind come, or one is heard.
Apart(queue, after, T, kind) ==
  \/ after = queue
  \/ \E m \in T : m.kind # kind /\ after = Append(queue, m)
  \/ \E m, n \in T : m.kind # kind /\ n.kind # kind /\ after = Append(Append(queue, m), n)
  \/ queue # <<>> /\ Head(queue).kind # kind /\ after = Tail(queue)

Grows ==
  /\ Len(published) <= Len(published')
  /\ \A i \in 1..Len(published) : published'[i] = published[i]

Passes ==
  /\ UNCHANGED <<tasks, cache>> /\ Grows
  /\ Apart(to_agent, to_agent', ToAgent, "get") /\ Apart(to_client, to_client', ToClient, "reply")
Asked(call) ==
  /\ call \in Gets /\ to_agent # <<>> /\ call = Head(to_agent) /\ to_agent' = Tail(to_agent)
  /\ to_client' = Append(to_client, Reply(call))
  /\ UNCHANGED <<tasks, cache, published>>
Begins(t, task) ==
  /\ tasks[t].at = "idle" /\ tasks' = [tasks EXCEPT ![t] = task]
  /\ task.at = "three" /\ task.tries = 0 /\ task.since = Len(published) /\ task.got = <<>>
  /\ to_agent' = to_agent \o Three(t) /\ Apart(to_client, to_client', ToClient, "reply")
  /\ UNCHANGED <<published, cache>>
Forgets(t) ==
  /\ tasks' = [tasks EXCEPT ![t] = Idle]
  /\ to_agent' = NotFor(t, to_agent) /\ to_client' = NotFor(t, to_client)
  /\ UNCHANGED <<published, cache>>
Stops(t, k) ==
  /\ Over(t, k) /\ cache' = k /\ Apart(to_agent, to_agent', ToAgent, "get")
  /\ tasks' = [tasks EXCEPT ![t] = Goes(t, k)] \/ tasks' = [tasks EXCEPT ![t] = Idle]
Heard(m) ==
  /\ m \in Replies /\ to_client # <<>> /\ m = Head(to_client) /\ to_client' = Tail(to_client)
  /\ UNCHANGED published
Finishes ==
  /\ to_agent' = <<>> /\ to_client' = <<>> /\ cache' = Cache /\ tasks' = [t \in Tasks |-> Idle]
  /\ UNCHANGED published

\* What a task keeps it has of its own time, and the next attempt counts one
\* more move of the list.
FreshInv == /\ Typed /\ Record /\ Reading /\ Caching
            /\ Awaited /\ Timely /\ Dated /\ FreshReads
Keeps(t, m, k) ==
  /\ Heard(m) /\ t = m.task /\ (tasks[t].at = "three" => Len(Got(t, m)) = 3) /\ k = KeptOf(t, m)

-----------------------------------------------------------------------------
(***************************************************************************)
(* How all that is read is in time.                                        *)
(***************************************************************************)
AllInTime == Inv /\ Serial /\ FreshInv
=============================================================================

---------------------------- MODULE RemoteWatch ----------------------------
(***************************************************************************)
(* A session over the agent's pipe: the watches the agent pushes updates   *)
(* of its lists to (crates/rpc/src/handler.rs over watch.rs and wire/),    *)
(* and the client that applies them, reads the lists on its own under      *)
(* their tags, and reads them afresh when an update comes in a form it     *)
(* does not know (src/remote/mod.rs).                                      *)
(*                                                                         *)
(* Both ends of the session are one thread each.  What one end sends the   *)
(* other hears in order (capnp).                                           *)
(***************************************************************************)
EXTENDS Lists, Sequences, FiniteSets

CONSTANTS
  None,
  Pids,
  Watches,       \* what the client may watch, each once
  Callers,       \* the calls of Remote::snapshot under way at once
  MaxHeld,       \* MAX_HELD
  JoinAttempts,  \* JOIN_ATTEMPTS
  NewForms,      \* BOOLEAN: the agent is newer and may use a form this client does not know
  MaxPublished,  \* bound: snapshots the agent publishes
  MaxTold,       \* bound: as MaxPublished, once a watch is called for
  MaxCalls       \* bound: calls of snapshot and watch

ASSUME SessionAssumption ==
  /\ MaxHeld \in Nat \ {0} /\ JoinAttempts \in Nat /\ NewForms \in BOOLEAN
  /\ MaxPublished \in Nat \ {0} /\ MaxTold \in Nat /\ MaxCalls \in Nat
  /\ IsFiniteSet(Watches) /\ Watches \cap Callers = {}

Tasks == Watches \cup Callers
What == {"services", "processes", "states"}

\* A snapshot, its lists, and what the client's listener hands to its reader.
Row == [pid : Pids, seq : Nat, told : BOOLEAN]
ProcessList == [etag : Nat, rows : SUBSET Row]
StateList == [etag : Nat, passport_etag : Nat, rows : SUBSET Row]
Snapshot == [services : Nat, processes : ProcessList, states : StateList]
Delivery == [failed : BOOLEAN, sample : Nat, snapshot : Snapshot, full : BOOLEAN]
Failed == [failed |-> TRUE]

ASSUME NoneAssumption ==
  None \notin Nat \cup ProcessList \cup StateList \cup Snapshot \cup Delivery \cup {Failed}

VARIABLES
  published,  \* history: what the agent published; the last is Feed.latest
  slots,      \* what was delivered last to each watch's sampler, 0 for nothing
  pushes,     \* the agent's task of each watch: push
  held,       \* Holds: how many places the session has taken
  handles,    \* WatchHandleImpl of each watch
  to_agent,   \* calls on their way to the agent
  to_client,  \* answers and pushes on their way to the client
  calls,      \* calls of snapshot and watch so far
  watches,    \* the client's end of each watch: RemoteWatch
  listeners,  \* ListenerImpl.snapshot
  waiting,    \* the Delivery the reader of a watch has not taken
  cache,      \* Session.cache
  tasks,      \* Session::snapshot, by who runs it
  resynced,   \* history: the watches told in a form the client did not know
  open        \* the session is there

agent == <<published, slots, pushes, held, handles>>
wires == <<to_agent, to_client>>
reading == <<calls, watches, waiting>>
vars == <<agent, wires, reading, listeners, cache, tasks, resynced, open>>

Latest == published[Len(published)]

\* What the agent shows before anything is listed.
First == [services |-> 1,
          processes |-> [etag |-> 1, rows |-> {}],
          states |-> [etag |-> 1, passport_etag |-> 1, rows |-> {}]]
Cache == [services |-> 0, processes |-> Nothing,
          states |-> [etag |-> 0, passport_etag |-> 0, rows |-> {}]]
Idle == [at |-> "idle", tries |-> 0, since |-> 0, got |-> <<>>, sample |-> 0, result |-> None]

\* push returns: what it held, its subscription included, is dropped.
NoPush == [at |-> "none", last |-> 0, before |-> 0]
EndedPush == [NoPush EXCEPT !.at = "ended"]

Init ==
  /\ published = <<First>>
  /\ slots = [w \in Watches |-> 0]
  /\ pushes = [w \in Watches |-> NoPush]
  /\ held = 0
  /\ handles = [w \in Watches |-> "none"]
  /\ to_agent = <<>> /\ to_client = <<>>
  /\ calls = 0 /\ watches = [w \in Watches |-> [at |-> "new", beside |-> 0]]
  /\ listeners = [w \in Watches |-> None]
  /\ waiting = [w \in Watches |-> None]
  /\ cache = Cache
  /\ tasks = [t \in Tasks |-> Idle]
  /\ resynced = {}
  /\ open = TRUE

-----------------------------------------------------------------------------
(***************************************************************************)
(* The agent's picture moves, one thing at a time: what moves between two  *)
(* updates is any run of these.                                            *)
(***************************************************************************)
\* Picture::list_processes stamps the states with the list they cover.
Listed(was, n, rows, states) ==
  [was EXCEPT !.processes = [etag |-> n, rows |-> rows],
              !.states = [etag |-> n, passport_etag |-> n, rows |-> states]]
StatesMove(was, n, states) == [was EXCEPT !.states = [@ EXCEPT !.etag = n, !.rows = states]]
OfPid(rows, p) == {row \in rows : row.pid = p}
Fresh(p, n) == [pid |-> p, seq |-> n, told |-> FALSE]
Retold(rows, p) ==
  {IF row.pid = p THEN [row EXCEPT !.told = ~@] ELSE row : row \in rows}

Moved(was, n) ==
  LET rows == was.processes.rows
      states == was.states.rows
  IN  {was, [was EXCEPT !.services = n]}
      \cup UNION {
        {Listed(was, n, (rows \ OfPid(rows, p)) \cup {Fresh(p, n)},
                        (states \ OfPid(states, p)) \cup {Fresh(p, n)})}
        \cup (IF OfPid(rows, p) = {} THEN {}
              ELSE {Listed(was, n, rows \ OfPid(rows, p), states \ OfPid(states, p)),
                    Listed(was, n, Retold(rows, p), states),
                    StatesMove(was, n, Retold(states, p))})
        : p \in Pids}

\* publish, and Subscriber::deliver for the ones due.
Subscribed == {w \in Watches : pushes[w].at \in {"next", "sent"}}
Publishes ==
  /\ Len(published) < MaxPublished
  /\ (\E w \in Watches : watches[w].at # "new") => Len(published) < MaxTold
  /\ LET n == Len(published) + 1
     IN  /\ \E after \in Moved(Latest, n) : published' = Append(published, after)
         /\ \E due \in SUBSET Subscribed :
              slots' = [w \in Watches |-> IF w \in due THEN n ELSE slots[w]]
  /\ UNCHANGED <<pushes, held, handles, wires, reading, listeners, cache, tasks, resynced, open>>

-----------------------------------------------------------------------------
(***************************************************************************)
(* The agent: AgentImpl, and push.                                         *)
(***************************************************************************)
\* conditional: what is answered to a caller that has a tag, as it is now.
Etag(snapshot, what) ==
  CASE what = "services" -> snapshot.services
    [] what = "processes" -> snapshot.processes.etag
    [] what = "states" -> snapshot.states.etag
Part(snapshot, what) ==
  CASE what = "services" -> snapshot.services
    [] what = "processes" -> snapshot.processes
    [] what = "states" -> snapshot.states
NotModifiedEver(if_none_match, what) == if_none_match # 0
NotModified(if_none_match, what) == if_none_match # 0 /\ if_none_match = Etag(Latest, what)
\* `seen` is history: which snapshot the agent showed as it answered.
Reply(call) ==
  [kind |-> "reply", task |-> call.task, what |-> call.what,
   part |-> IF NotModified(call.tag, call.what) THEN None ELSE Part(Latest, call.what),
   seen |-> Len(published)]

Answers(call) ==
  /\ call.kind = "get"
  /\ to_client' = Append(to_client, Reply(call))
  /\ UNCHANGED agent

\* AgentImpl::watch: refused over the limit; LocalWatch subscribes, and what
\* is latest may do for it at once.
Full == held >= MaxHeld
Watched(call) ==
  /\ call.kind = "watch"
  /\ to_client' = Append(to_client, [kind |-> "watching", watch |-> call.watch, taken |-> ~Full])
  /\ IF Full THEN UNCHANGED agent
     ELSE /\ held' = held + 1
          /\ handles' = [handles EXCEPT ![call.watch] = "held"]
          /\ pushes' = [pushes EXCEPT ![call.watch].at = "next"]
          /\ \E delivered \in {0, Len(published)} : slots' = [slots EXCEPT ![call.watch] = delivered]
          /\ UNCHANGED published

\* The handle is dropped: its Hold is given back, and push ends at the await
\* it is at.
GivenBackNever(w) == 0
GivenBack(w) == IF handles[w] = "held" THEN 1 ELSE 0
Released(call) ==
  /\ call.kind = "release"
  /\ held' = held - GivenBack(call.watch)
  /\ IF handles[call.watch] = "held"
     THEN /\ handles' = [handles EXCEPT ![call.watch] = "dropped"]
          /\ pushes' = [pushes EXCEPT ![call.watch] = EndedPush]
          /\ slots' = [slots EXCEPT ![call.watch] = 0]
     ELSE UNCHANGED <<handles, pushes, slots>>
  /\ UNCHANGED <<published, to_client>>

\* The update was answered: what comes next is told against it.
BeforeOf(w) == pushes[w].last
Answered(call) ==
  /\ call.kind = "answer"
  /\ CASE pushes[call.watch].at = "sent" /\ call.taken ->
            /\ pushes' = [pushes EXCEPT ![call.watch] =
                           [@ EXCEPT !.at = "next", !.before = BeforeOf(call.watch)]]
            /\ UNCHANGED slots
       [] pushes[call.watch].at = "sent" /\ ~call.taken ->
            /\ pushes' = [pushes EXCEPT ![call.watch] = EndedPush]
            /\ slots' = [slots EXCEPT ![call.watch] = 0]
       [] OTHER -> UNCHANGED <<pushes, slots>>
  /\ UNCHANGED <<published, held, handles, to_client>>

AgentHears ==
  /\ open /\ to_agent # <<>>
  /\ to_agent' = Tail(to_agent)
  /\ LET call == Head(to_agent)
     IN  \/ Answers(call) \/ Watched(call) \/ Released(call) \/ Answered(call)
         \/ call.kind = "void" /\ UNCHANGED <<agent, to_client>>
  /\ UNCHANGED <<reading, listeners, cache, tasks, resynced, open>>

\* LocalWatch::next resolves and the update is sent, encoded against `before`.
Pushes(w) ==
  LET to == slots[w]
      before == pushes[w].before
      base == IF before = 0 THEN First ELSE published[before]
  IN  /\ open /\ pushes[w].at = "next" /\ to > pushes[w].last
      /\ pushes' = [pushes EXCEPT ![w] = [@ EXCEPT !.at = "sent", !.last = to]]
      /\ \E known \in {TRUE} \cup {~NewForms} :
           to_client' = Append(to_client,
             [kind |-> "update", watch |-> w, known |-> known, sample |-> to,
              lists |-> Update(before # 0, base, published[to])])
      /\ UNCHANGED <<published, slots, held, handles, to_agent, reading, listeners, cache, tasks, resynced, open>>

-----------------------------------------------------------------------------
(***************************************************************************)
(* The client: Session::snapshot, as a step from one await to the next.    *)
(***************************************************************************)
Get(t, what, held_) == [kind |-> "get", task |-> t, what |-> what, tag |-> Etag(held_, what)]
Three(t) == <<Get(t, "services", cache), Get(t, "processes", cache), Get(t, "states", cache)>>
Asks(t) == [Idle EXCEPT !.at = "three", !.since = Len(published)]

\* keep_services, keep_processes, keep_states.
Kept(c, reply) ==
  IF reply.part = None THEN c
  ELSE CASE reply.what = "services" -> [c EXCEPT !.services = reply.part]
         [] reply.what = "processes" -> [c EXCEPT !.processes = reply.part]
         [] reply.what = "states" -> [c EXCEPT !.states = reply.part]
Joined(c) == c.states.etag # 0 /\ c.processes.etag = c.states.passport_etag

\* What follows once a task kept what it fetched and the cache is `c`.
Done(t, result) == [tasks[t] EXCEPT !.at = "done", !.got = <<>>, !.result = result]
FetchesNext(t) == IF tasks[t].at = "processes" THEN "states" ELSE "processes"
Over(t, c) == Joined(c) \/ (tasks[t].at \in {"three", "states"} /\ tasks[t].tries = JoinAttempts)
Goes(t, c) ==
  IF Over(t, c) THEN Done(t, IF Joined(c) THEN c ELSE None)
  ELSE [tasks[t] EXCEPT !.at = FetchesNext(t), !.got = <<>>,
                        !.tries = IF FetchesNext(t) = "processes" THEN @ + 1 ELSE @]

CallsSnapshot(t) ==
  /\ open /\ t \in Callers /\ tasks[t].at = "idle" /\ calls < MaxCalls
  /\ calls' = calls + 1
  /\ tasks' = [tasks EXCEPT ![t] = Asks(t)]
  /\ to_agent' = to_agent \o Three(t)
  /\ UNCHANGED <<agent, to_client, watches, waiting, listeners, cache, resynced, open>>

\* The caller takes the answer, or CALL_TIMEOUT passes first: what is still
\* on its way for it is of no use any more.
Void == [kind |-> "void"]
NotFor(t, messages) ==
  [n \in 1..Len(messages) |->
     IF messages[n].kind \in {"get", "reply"} /\ messages[n].task = t THEN Void ELSE messages[n]]
Leaves(t) ==
  /\ open /\ t \in Callers /\ tasks[t].at # "idle"
  /\ tasks' = [tasks EXCEPT ![t] = Idle]
  /\ to_agent' = NotFor(t, to_agent) /\ to_client' = NotFor(t, to_client)
  /\ UNCHANGED <<agent, reading, listeners, cache, resynced, open>>

-----------------------------------------------------------------------------
(***************************************************************************)
(* The client: its watches.                                                *)
(***************************************************************************)
\* What the client may have on the agent, as far as it knows.
Wanted == {w \in Watches : watches[w].at \in {"asked", "on"}}
CallsWatch(w) ==
  /\ open /\ watches[w].at = "new" /\ calls < MaxCalls /\ Len(published) <= MaxTold
  /\ calls' = calls + 1
  /\ watches' = [watches EXCEPT ![w] = [at |-> "asked", beside |-> Cardinality(Wanted)]]
  /\ to_agent' = Append(to_agent, [kind |-> "watch", watch |-> w])
  /\ UNCHANGED <<agent, to_client, waiting, listeners, cache, tasks, resynced, open>>

\* What the listener hands to its reader: an update, or an error.
Gives(sample, snapshot, full) ==
  [failed |-> FALSE, sample |-> sample, snapshot |-> snapshot, full |-> full]
Answer(w, taken) == [kind |-> "answer", watch |-> w, taken |-> taken]

\* A RemoteWatch is dropped, or the call for it ran into CALL_TIMEOUT: the
\* handle is given back as soon as it is there, and what the listener waits
\* to hand over is refused.
Drops(w) ==
  /\ open /\ w \in Wanted
  /\ watches' = [watches EXCEPT ![w] = [at |-> "dropped", beside |-> 0]]
  /\ waiting' = [waiting EXCEPT ![w] = None]
  /\ to_agent' = to_agent
       \o (IF waiting[w] = None THEN <<>> ELSE <<Answer(w, FALSE)>>)
       \o <<[kind |-> "release", watch |-> w]>>
  /\ UNCHANGED <<agent, to_client, calls, listeners, cache, tasks, resynced, open>>

\* RemoteWatch::next: the agent hears that its push was taken, or why not.
Takes(w) ==
  /\ open /\ watches[w].at = "on" /\ waiting[w] # None
  /\ waiting' = [waiting EXCEPT ![w] = None]
  /\ to_agent' = Append(to_agent, Answer(w, ~waiting[w].failed))
  /\ UNCHANGED <<agent, to_client, calls, watches, listeners, cache, tasks, resynced, open>>

\* deliver: to a reader that is there, or to nobody.
HandsOver(w, delivery) ==
  IF watches[w].at = "dropped"
  THEN /\ to_agent' = Append(to_agent, Answer(w, FALSE))
       /\ UNCHANGED waiting
  ELSE /\ waiting' = [waiting EXCEPT ![w] = delivery]
       /\ UNCHANGED to_agent

HearsWatching(message) ==
  /\ message.kind = "watching"
  /\ watches' = IF watches[message.watch].at # "asked" THEN watches
                ELSE [watches EXCEPT ![message.watch].at = IF message.taken THEN "on" ELSE "refused"]
  /\ UNCHANGED <<to_agent, calls, waiting, listeners, cache, tasks, resynced>>

\* ListenerImpl::update.
HearsUpdate(message) ==
  LET w == message.watch
      holds == listeners[w] # None
      before == IF holds THEN listeners[w] ELSE Cache
      snapshot == Decoded(before, message.lists)
  IN  /\ message.kind = "update"
      /\ \/ /\ message.known /\ Understood(holds, before, message.lists)
            /\ listeners' = [listeners EXCEPT ![w] = snapshot]
            /\ HandsOver(w, Gives(message.sample, snapshot, ~holds))
            /\ UNCHANGED tasks
         \/ /\ message.known /\ ~Understood(holds, before, message.lists)
            /\ HandsOver(w, Failed)
            /\ UNCHANGED <<listeners, tasks>>
         \/ /\ ~message.known
            /\ tasks' = [tasks EXCEPT ![w] = [Asks(w) EXCEPT !.sample = message.sample]]
            /\ to_agent' = to_agent \o Three(w)
            /\ resynced' = resynced \cup {w}
            /\ UNCHANGED <<listeners, waiting>>
      /\ message.known => UNCHANGED resynced
      /\ UNCHANGED <<calls, watches, cache>>

\* An answer to a task of Session::snapshot: when it is all the task waits
\* for, the task goes on.
HearsReply(message) ==
  LET t == message.task
      got == Append(tasks[t].got, message)
      whole == tasks[t].at = "three" => Len(got) = 3
      kept == IF tasks[t].at = "three"
              THEN Kept(Kept(Kept(cache, got[1]), got[2]), got[3]) ELSE Kept(cache, got[1])
      next == Goes(t, kept)
  IN  /\ message.kind = "reply"
      /\ IF ~whole
         THEN /\ tasks' = [tasks EXCEPT ![t].got = got]
              /\ UNCHANGED <<to_agent, waiting, listeners, cache>>
         ELSE /\ cache' = kept
              /\ IF t \in Watches /\ next.at = "done"
                 THEN \* ListenerImpl::resync, with the sample that came
                      /\ tasks' = [tasks EXCEPT ![t] = Idle]
                      /\ IF next.result = None
                         THEN HandsOver(t, Failed) /\ UNCHANGED listeners
                         ELSE /\ listeners' = [listeners EXCEPT ![t] = next.result]
                              /\ HandsOver(t, Gives(tasks[t].sample, next.result, TRUE))
                 ELSE /\ tasks' = [tasks EXCEPT ![t] = next]
                      /\ to_agent' = IF next.at = "done" THEN to_agent
                                     ELSE Append(to_agent, Get(t, next.at, kept))
                      /\ UNCHANGED <<waiting, listeners>>
      /\ UNCHANGED <<calls, watches, resynced>>

HearsNothing(message) ==
  /\ message.kind = "void"
  /\ UNCHANGED <<to_agent, reading, listeners, cache, tasks, resynced>>

ClientHears ==
  /\ open /\ to_client # <<>>
  /\ to_client' = Tail(to_client)
  /\ LET message == Head(to_client)
     IN  \/ HearsWatching(message) \/ HearsUpdate(message) \/ HearsReply(message)
         \/ HearsNothing(message)
  /\ UNCHANGED <<agent, open>>

\* The session ends, and with it every call, watch and place of it.
Ends ==
  /\ open /\ open' = FALSE
  /\ held' = 0
  /\ handles' = [w \in Watches |-> "dropped"]
  /\ pushes' = [w \in Watches |-> EndedPush] /\ slots' = [w \in Watches |-> 0]
  /\ to_agent' = <<>> /\ to_client' = <<>>
  /\ tasks' = [t \in Tasks |-> Idle] /\ cache' = Cache
  /\ watches' = [w \in Watches |-> [at |-> "dropped", beside |-> 0]]
  /\ listeners' = [w \in Watches |-> None] /\ waiting' = [w \in Watches |-> None]
  /\ resynced' = {}
  /\ UNCHANGED <<published, calls>>

Agent == Publishes \/ AgentHears \/ \E w \in Watches : Pushes(w)
Client == \/ ClientHears
          \/ \E t \in Callers : CallsSnapshot(t) \/ Leaves(t)
          \/ \E w \in Watches : CallsWatch(w) \/ Drops(w) \/ Takes(w)
Next == Agent \/ Client \/ Ends
Spec == Init /\ [][Next]_vars

-----------------------------------------------------------------------------
\* Each part of the state holds what its type in the code allows.
TypeOK ==
  /\ slots \in [Watches -> 0..Len(published)]
  /\ held \in 0..MaxHeld
  /\ \A w \in Watches :
       /\ pushes[w].at \in {"none", "next", "sent", "ended"}
       /\ pushes[w].before <= pushes[w].last /\ pushes[w].last <= slots[w]
       /\ watches[w].at \in {"new", "asked", "on", "refused", "dropped"}
  /\ \A t \in Tasks :
       /\ tasks[t].at \in {"idle", "three", "processes", "states", "done"}
       /\ tasks[t].tries \in 0..JoinAttempts

\* A watch that is told in forms the client knows is never refused, however
\* the lists move between two updates: each delta is told against the lists
\* the client holds (push, based).
NothingRefused ==
  \A w \in Watches \ resynced : waiting[w] # None => ~waiting[w].failed

\* What the client holds or hands out under a tag is what the agent published
\* under it, and the states are of the very processes beside them, after any
\* run of deltas, none of which is refused (update, lists, merge,
\* keep_processes, joined).
Tagged(what, part) == \E n \in 1..Len(published) : Part(published[n], what) = part
AsPublished(snapshot) ==
  /\ Tagged("processes", snapshot.processes) /\ Tagged("states", snapshot.states)
  /\ Tagged("services", snapshot.services)
  /\ snapshot.states.passport_etag = snapshot.processes.etag
ListsAsPublished ==
  /\ TypeOK
  /\ NothingRefused
  /\ \A w \in Watches \ resynced :
       /\ listeners[w] # None => AsPublished(listeners[w])
       /\ waiting[w] # None /\ ~waiting[w].failed =>
            waiting[w].snapshot = published[waiting[w].sample]
  /\ \A t \in Callers : tasks[t].result # None => AsPublished(tasks[t].result)

\* Nothing in a snapshot is older than the call for it, whoever else reads
\* through the same tags; and the call is given up only when the process list
\* moved under every attempt to join the states to it (snapshot).
Current(part, what, since) == \E n \in since..Len(published) : Part(published[n], what) = part
ListMoves(since) == Cardinality({n \in (since + 1)..Len(published) : published[n].processes.etag = n})
SnapshotIsFresh ==
  \A t \in Callers : tasks[t].at = "done" =>
    IF tasks[t].result = None THEN ListMoves(tasks[t].since) > 2 * JoinAttempts
    ELSE /\ Current(tasks[t].result.processes, "processes", tasks[t].since)
         /\ Current(tasks[t].result.states, "states", tasks[t].since)
         /\ Current(tasks[t].result.services, "services", tasks[t].since)

\* A client is refused a watch only when it had as many as it may at the time
\* it asked: what it let go of before, or gave up waiting for, is not counted
\* any more when the agent hears of the next (Holds).
RefusedOnlyWhenFull ==
  \A w \in Watches : watches[w].at = "refused" => watches[w].beside >= MaxHeld
=============================================================================

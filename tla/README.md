# Verification of the uniproc Windows agent

This directory holds TLA+ models of the agent's concurrent core, the TLC
configurations that check them on small instances, and TLAPS proofs about them.
Paths below are the repository's own (`src/feed.rs` is the root crate,
`crates/core/src/...` the core).

## The system

The agent watches one Windows machine and shows what it sees to local and remote
readers. Its parts, the state each keeps and what each must get right:

| part | state | operations | what makes it correct |
|---|---|---|---|
| process table (`crates/core/src/state/process.rs`) | listed processes, running images with verdict and count, what changed | reconcile, judge, observe, take | the differences suffice to follow the table; images are counted right; no verdict is lost or goes back to an older file |
| image judge (`crates/core/src/providers/process/mod.rs`) | a queue of images, a queue of verdicts | ask, judge, hand over | each image asked about is answered, in order: on the file as it is then, or with the default verdict if it is remote or gone |
| supervisor (`crates/core/src/supervisor.rs`) | the held sample, the schedule, the last error | start, tick, sample | one tick hands on everything since the last |
| schedule and subscriptions (`crates/core/src/schedule.rs`, `src/sampler.rs`) | when each interval was last sampled and for what; who wants what | take, due; subscribe, unsubscribe, set_idle, deliver | everyone is served on time with what they asked for, the list is kept up |
| feed (`src/feed.rs`) | the picture, what is published | apply a change, publish | what is published is coherent and complete, each list named by its etag |
| services (`src/scm`) | the watched services, the last status told | scan, follow, notify, poll, sweep | the state shown is the state in the end |
| process events (`crates/core/src/process_events`) | the assembler's halves, the hold, each watcher's cursor | add, release, push, read | no event is missed without a word, none and no loss told twice |
| signature cache (`crates/core/src/providers/process/signature_cache.rs`) | verdicts by the stamp of the file, kept across runs | stamp, look up, remember | no verdict of another content of the file is given |
| commands (`src/commands`), service control (`src/scm/control.rs`, `own.rs`), windows service (`crates/service`) | what runs for which target; the steps of the process; what the SCM was told | run; start, stop, restart, uninstall; exit, fail, recover | one at a time per target as it is named, across the process that leaves and the next; the status is true; the service ends up as asked |
| remote client (`src/remote`), wire (`src/wire`), rpc server (`crates/rpc`) | a cached snapshot, sessions, held answers | ping, snapshot, subscribe, watch, run | the lists a client holds fit together |
| router and sink (`crates/core/src/etw`, `sink.rs`), counters (`state/network.rs`, `state/mod.rs`) | batches, a bounded channel, bytes by process, the timers and the health of the sessions | deliver, hand over, emit, flush, check, restart | every byte is counted once, or lost with a reason, in time; the sessions come back, with the timer set unless they refused it |
| probers (`providers/prober.rs`, `probes.rs`, `vm_memory.rs`, `vm_host.rs`) | what was seen of each process and when | read, probe | each process is probed again within its round |
| vm hosts, http page, machine counters, snapshot | | | see `PROJECT.json` |

How they interact: the *core thread* (supervisor, process table, schedule) ticks
when an interval is due or when it is woken, and sends one change per tick on an
unbounded channel. The *judge's thread* takes requests and sends verdicts. The
*service-inventory* and *service-watch* threads send scans and statuses on the
same channel. The *painter's thread* alone owns the picture: it applies changes,
publishes, hands samples to subscribers and takes their requests on a second
channel; a request sets the demand and wakes the core. *Readers* load what is
published without a lock. The *process-events thread* fills the history from ETW;
its *watchers* read on their own. The *trace threads* batch the kernel's transfers and
hand them to the core on a bounded channel, which the tick drains. *Command workers* run
what clients ask, while the *service's main thread* steps through its start and its stop
and tells the SCM of each; the SCM starts the next process.

What is hard: a pid goes to another process between any two reads; a verdict is on
its way while the image it is for comes and goes; changes pile up while the painter
is busy; a notification of the SCM is one-shot; losses are told in a place other
than the events; the demand changes while a sample is under way; a batch outlives the
process it is for; a command outlives the process it runs in.

## Modules

* `ProcessTable` - the machine, the judge, the core's tick and walk over a snapshot
  (one action per row, so that the judge and the machine interleave with it), and a
  follower that applies each difference as `Picture::update` does. `processes`,
  `images`, `gone`, `passports`, `states` are the fields of `ProcessTable`;
  `requests`, `verdicts` the channels of `Images`; `fresh` is `Reader.fresh`. A
  verdict is the version of the file it was given on, which is all the properties
  tell apart; 0 is the default verdict, on no file. `Remote` are the paths on another
  machine, `there` those that have a file. The judge answers at once, with the default
  verdict, for a file that is remote or gone (`TurnsAway`): nothing is looked up and
  nothing kept, and the answer replaces a verdict already shown. Otherwise it works in
  two steps, as its code does: it stamps the file, which may fail (`Stamps`), then looks
  the stamp up in the signature cache or has the file judged and remembers the verdict
  under its stamp, if it has one (`Judges`); the file may change or go between the two.
  `persisted` is what runs and builds before this one left on disk: a verdict counts only
  for the stamp it was given under and for this build of the resolver. A stamp names a
  version, as it does on a volume with a journal; when the store writes to disk and a
  store that does not open are left out.
* `ProcessTableProofs` - the theorems about it: the differences, the images, the verdicts.
* `Feed` - `Picture`, the channel into it and `paint`. The core keeps a listing and
  hands on how it moved: that its differences suffice is `ProcessTable`'s theorem.
  `image_of` is two reads, of the list published and of the images gone lately, with the
  painter between them.
  The etags are the kit's `Versioned`, modelled from its use (external). `FeedProofs` - the
  theorems about it.
* `Sampling` - `Schedule::take`, the demand, `Subscriptions` and what each sampler
  is delivered. A sampler waits in the steps of its code: it looks at its slot, arms the
  wait, and is woken or not; the idle period may be set meanwhile. Time moves when
  neither the core nor the painter has anything to do, which states that a tick and a
  request take less than a unit of time.
* `History` - `History::push` and `read`, `release`, the end of the thread, and
  `ProcessEventsWatch::next` step by step, its three reads of shared state apart.
* `Assembler` - `Assembler::add` and `release` as operators over the assembler's
  state; where two halves are as near, the one taken is left open, as the order of the
  vectors is left out. `EventIntake` - the machine and the three sessions that tell of
  its processes, each in order and late by its own; the callback's `try_send` and its
  count, apart; `health`; and the thread's `run`. What it lets out goes to `History`,
  which takes batches as they come. `EventIntakeProofs` - the theorems about that way;
  `HistoryProofs` - those about what is held.
* `ServiceWatch` - one service, the one-shot notification, the watcher's loop
  (`run`), the inventory's scan and how both are applied to the picture. The SCM and
  the board of the kit are external. `ThreadsProofs` - the theorem about it, and `Prober`'s.
* `Router` - the kernel's events in their buffers, the batches of disk and network
  (`slots`, the fields of `RouterCore`), the sink's channel, and the tick in two actions:
  up to the flush, the flush timer with it, which any session may refuse (`Flushes`, or
  `Restarts` where `keep_sessions` starts the sessions again) and the drain with its charges (`Drains`), between which events and processes
  come and go. An event is one byte, or one that cannot be read; sessions are started and
  reached in `Order`. `told` and `lost` are history. `RouterProofs` - the theorems.
* `AgentService` - the service's process step by step (`pc`, each step told to the SCM),
  the commands' `Runner` and the calls (`at`, where each is on its way: queued for a
  worker, sent, waiting), and the apps that control the service through the SCM. The SCM,
  the pipe's name and the Runner of the kit are external. `OneAtATime` - what commands
  promise of a target, which is a process or a service by the name the client wrote
  (`Spellings`); `AgentService` implements it with `running <- busy` and the answers as a
  client tells them apart. A pipe that accepts nobody any more (`PipeStops`) leaves the
  process as it is; what was under way goes on, and its answers are heard by nobody.
  `AgentServiceProofs` - the theorems.
* `Lists` - the services, the processes and their states as they go over the wire: what
  an update tells of each (`changes`, `diff`, `encode::update`: whole, unchanged, a
  delta) and what a client makes of it (`held`, `based`, `merge`, `lists`), as operators.
  A list is a set of rows under an etag; a row is a pid, a sequence number and what else
  it says.
* `RemoteWatch` - one session over the pipe: `published` is what `Feed` publishes, one
  snapshot after the other; `pushes`, `held` and `handles` are the agent's `push` tasks,
  `Holds` and `WatchHandleImpl`; `watches`, `listeners`, `cache` and `tasks` the client's
  `RemoteWatch`, `ListenerImpl`, `Session.cache` and the calls of `Session::snapshot`,
  which go from await to await. Both ends are a thread of their own, `to_agent` and
  `to_client` are in order. The end of the session is one action. What is on its way to a
  caller that left is `Void`: it is heard in its turn and nothing comes of it. `seen` of an
  answer is history: which snapshot the agent showed as it answered.
  `RemoteWatchInvariants` - the parts of the inductive invariants of the session, as
  definitions. `RemoteWatchProofs` - the theorems about the lists, for any lists, and the
  session.
* `Sums` - the sum of a row of numbers, which the history and the router add up.
* `Prober` - the probing thread (`work`), the lists handed to it on the core's tick and
  its two users: with `Period = 0` and `~Checked` it is `Mapped`, otherwise `VmMemory`.
  `worker` is where the thread is in its loop, `seen` and `probed` are the fields of that
  name. A probe reads whatever has the pid by then (`of`, 0 for nothing it may open).
  Ages are counted up to what the code compares them with. `ThreadsProofs` - the theorems.
* `MC...` - the small instances.

Variables that are marked *history* in the modules are not in the code: they let a
property relate the state to what happened before.

## Runs

| run | asks | bounds, and why they are enough |
|---|---|---|
| `table` | the differences suffice, images are counted and judged afresh, no verdict is on an older file than one shown before, each image listed is answered in the end and judged if its file stays within reach | two pids, two processes, one image of this machine and one of another (`Remote`), the file installed as the second version, replaced once (`MaxVersion`) and gone in between, with nothing, the verdict of another build or that of this one kept from a run before: a pid is reused and goes from one image to the other, an image is shared, left and joined again while its request is queued, turned away, stamped or not, judged and sent; without symmetry, which liveness does not allow; deadlock is checked |
| `feed` | what is published is coherent, complete, in order; an image once published is found | two pids, one service, three ticks, two service events, three of them (`MaxPending`) in the channel at once: a pid is left and joined again under a scan and a status, and a reader is between its two looks |
| `sampling` | each subscriber is served on time and with rows, the process list is kept up | two samplers, the specs of `MCSampling` clamped to intervals of two and three, two idle periods, one change of them, one failure, three requests, six units: three periods of the shortest, two of the longest, a sample in the slot before, under and after each look |
| `history` | what is held is the latest, nothing is missed or read twice without a word, what a watcher is told as lost is what it missed and what goes with the events it was given, no watch sleeps or ends too early, each ends once the thread is over | three events of one or two bytes in a hold of three bytes and one tick, one loss: evictions by age and by size, out of order, in the middle of a watcher's step; watchers do not touch each other, so one is enough |
| `services` | the state a service stays in is told, no status is left behind, the state shown settles | three changes (a full start and a stop), a deletion, a lag, one follow, two events on their way |
| `intake` | starts and exits go out whole, once, in time, the start first; no loss is counted twice | two processes on one pid over five units of time, sessions one unit late, halves paired within one, an event waits for two; a process starts no later than at three (`LastBirth`); a queue of one, one event lost, by the queue or the kernel: every order in which the halves of two near starts can come |
| `remote` | the lists a client holds and hands out are what was published, each update fits what it is told against, snapshots are current, a watch is refused only when the session has all it may have | one pid, two watches of which the session may have one (`MaxHeld`), one caller of `snapshot`, one attempt to join, four publications (`MaxPublished`; three once a watch is called for, `MaxTold`), two calls (`MaxCalls`): a list moves under each attempt, and a watch is given up while the answer to it is on its way |
| `prober` | what is shown was read from the process it is shown of, each due process is probed, a dropped worker ends | `Mapped`: two pids, two processes (`MaxProcesses`), one move of a shared working set (`MaxMoves`), a tick every eight units, a round of ten, a probe of one and a rest of three: a round of both probes fits between two lists, and a pid changes hands before, under and after its probe |
| `router` | every byte counted once and in time, counters of a listed process never go back, the sessions' timers are the ones set unless one was refused, sessions come back | one pid and two processes on it, two sessions, two events, a window of one unit, flushes of one and two, a check every two, a channel of one (`Capacity`), two faults, one change of the demand, five units: a batch outlives the process it is for, finds the channel full, or is in a session that stops, a start fails and is tried again, and a session that runs refuses a timer |
| `agent_service` | the status is true, the service ends up as asked, commands refine `OneAtATime` | two commands and one app's call, one process besides the service and it the agent's own, two spellings of the service's name, one worker, two failures: a command waits for the worker, a start fails and is recovered, the pipe is lost under a command, the service is stopped, restarted or uninstalled under each |
| `prober_starves`, `restart_self` | a sentence of the code's own docs | each is violated by what the code does; `PROJECT.json` quotes the sentence under "findings" |

Runs with `CHECK_DEADLOCK FALSE` are of systems that stop at their bounds.
Symmetry is used only in `feed`, `remote` and `sampling`, where no liveness is checked.
`prober_starves` is `VmMemory` with two hosts, a list and a due date every four units (a
second) and probes of two. `restart_self` is one command and no failure.

The type invariants are part of the first invariant of their run where they are not
listed by themselves (`PublishedCoherent`, `WatchersAccounted`, `StayingStateTold`,
`Accounted`, `ListsAsPublished`, `Conserved`, `StatusIsTrue`).

Every property has a mutant of the code it is about (`RetoldToNone`, `DescribesAnyBuild`,
`LeftUncleared`, ...): a helper of the model with the mistake a change of that code
could make, under which TLC finds the property violated.

More sentences of the docs were met that the code bends, and are left to this list:

* An error of the snapshot is to stand until a snapshot succeeds, but a sample of the
  machine alone clears it (`supervisor.rs:237`; `feed.rs:27-28`, `report.rs:33`).
* A published sample of the machine alone has no rows under a list that has processes
  (`supervisor.rs:416`; `feed.rs:22` says its rows are exactly the processes).
* An interval sampled for the machine alone that now wants the list is not "more than it
  was last sampled for" until it is due (`schedule.rs:41`; the doc is at 29-30).
* A followed status no longer wins over an older scan once its service is let go
  (`feed.rs:322`; `scm/mod.rs:33`).
* A start has the "Path of the Task Scheduler task that started it; empty otherwise"
  (`process_events/mod.rs:382`), but the task is paired by pid and nearness in time
  (`assemble.rs:197`): a process that takes the pid of one that just ended can get its
  task.
* A watch that read the lists afresh, because an update came in a form it did not know
  (`remote/mod.rs:479`), hands them out under the sample that came before, whose "rows
  are the processes `snapshot.processes` lists" (`api.rs:52`) only if no list moved
  meanwhile; and it then holds later lists than the agent's next update is told against:
  a delta is refused (`decode.rs:387`), a list told unchanged gets the older tag.
  `ListsAsPublished` leaves such watches out (`resynced`).
* "Events missing since the previous batch: dropped by the kernel, or gone from the hold"
  (`process_events/mod.rs:419-420`), but a loss goes with the next event held
  (`history.rs:76`) and out of the hold with it (`history.rs:86`): a watcher that had not
  read that event is told of the one event gone (`history.rs:119-123`), not of those
  dropped before it. With a hold of one event, one loss and two events show it. What holds
  is `NoLossTwice`: a watcher is told what it missed and what goes with what it was given.
* "A service's status: the current one first, then every change" (`scm/watch.rs:47`), but a
  notification is armed for every state but the one told last (`scm/watch.rs:182`): a
  service that stopped and started again between its notification and the next arming is in
  the state left out, nothing fires, and the status told last is of the run before. What
  holds is `ArmedIsCurrent`: the state it stays in is told.
* A flush timer is "half the fastest interval, so a sample sees the events from before the
  last one" (`supervisor.rs:293-295`), but `set_flush_timer` stops at the first session
  that refuses it (`router.rs:322-324`) and the tick, which logs "the sessions keep their
  flush timer", still remembers it as set (`supervisor.rs:212-215`): no later tick asks
  again until the demand changes. `TimersAsSet` leaves that case out (`refused`).
* `serve` is to serve "until the runtime stops" (`crates/rpc/src/lib.rs:33`), but ends with
  an error when the next client cannot be accepted (`crates/rpc/src/lib.rs:40-43`), which
  is only logged (`service.rs:54-56`): the service stays Running without a pipe, and its
  recovery sees no failure. `PipeStops` is that step; `StatusIsTrue` says only that a
  service said to run has bound its pipe.
* One command "for any one process or service" (`commands/mod.rs:43-44`, 59-60), but a
  target is a name compared with its case (`commands/mod.rs:39`), and the SCM opens a
  service by any case of it: two spellings (`Spellings`) have two commands side by side on
  one service. `CommandsOneAtATime` is of a target as it is named.

TLC finds each of the last five in the modules, with the sentence stated as an invariant,
in a few steps.

Two limits of the intake are in the model and no doc denies them: an event dropped after
the thread counted for the last time is never told as lost (`mod.rs:194-202`), and a
session started again that lost more than was told before is taken for the same one
(`mod.rs:181`); `LossesCounted`, a part of `Accounted`, says so.

Three of the service are left out. A process that lost its pipe is taken as gone with its
last word to the SCM, though its threads are there for a moment longer, in which commands
of two processes could overlap; of one that holds its pipe that moment is there
(`leaving`), and keeps the next from binding. The SCM is taken to have the recovery actions
of the install: `ensure_recovery` sets them where there are none and only warns where it
cannot (`service.rs:116-118`), and without them `AsAsked` would not hold after a crash. And
a restart makes the service due to run with its start, not with its stop; that the start
comes is `RestartStarts`, which `restart_self` refutes.

## Fairness

* `ProcessTable`: the judge's thread and the core run as long as the agent does (weak
  fairness of `Judge` and of `Core`); the machine owes nothing.
* `History`: once it let events out, the thread goes on to tell them; a watcher that
  is polled goes on. That events come, or the thread ends, is not assumed.
* `EventIntake` assumes none: its clock stands still while the thread has something to
  do, which states that a wake takes less than a unit of time, and a session hands over
  within `Delay`. `DelaysAssumption` is what the comment on `WAITS_AT_MOST` says of the
  flush timers.
* `RemoteWatch` assumes none: nothing in it is said to happen in the end.
* `Prober`: both threads run (weak fairness of `Core` and of `Worker`) and time passes;
  it does so only when neither has a step to take, which states that a step other than a
  probe or a rest takes less than a unit.
* `Router` and `Sampling` assume none: their clocks stand still while a thread has
  something to do, and a session hands over within its flush timer.
* `AgentService`: the process goes on from step to step, a process that was told to end
  exits, the SCM starts one that failed again, and each call goes on (weak fairness of
  `ProcessSteps`, `Exits`, `Recovers` and of each call's steps): the main thread, the
  SCM's recovery actions and a worker or client per call. Nobody has to ask for anything.
  `OneAtATime` asks of the abstract commands that each taken is answered, and TLC checks
  that the detailed fairness gives as much.
* `ServiceWatch`: the watcher wakes only for a notification, a service asked for that
  it does not watch yet, or its timeout while a service is pending; somebody who stops
  following owes it no wake. The inventory scans every five seconds, the painter applies.

## Proofs

`ProcessTableProofs`, checked by TLAPS for all values of the constants under the
assumptions `PidsFinite`, `ImagesAssumption`, `NoneAssumption`, `BoundsAssumption`:

* `TypeCorrect`: `Spec => []TypeOK`.
* `FollowersHoldTheTable`: `Spec => []DiffsSuffice`. `DiffsSuffice` speaks of the
  moment after a difference was handed on, and says nothing while the core walks a
  snapshot. The inductive invariant `DiffsInv` says it for every step: a listed process
  is current at the follower or marked (`Marked`), what the follower holds beside it is
  marked gone, no mark of a process gone names one that is listed (`GoneAreGone`), and
  no mark survives a `take` (`TakenAtIdle`). With nothing marked, that is
  `DiffsSuffice`.

* `ImagesStayCoherent`: `Spec => []ImagesCoherent`. It is proved image by image
  (`Coherent`): a row that joins, leaves or moves to another image changes the set of
  processes that run an image by one, the gone at the end of a walk by as many as ran it,
  and the count kept goes with it; a verdict goes to the image and to all that run it in
  one step.
* `VerdictsAreFresh`: `Spec => []JudgedAfresh`, and `VerdictsNeverGoBack`: what a process
  shows is the default verdict or the one on the newest file shown of its image so far.
  The default one replaces a good one whenever the file is gone as the judge comes to a
  later request; what that must not do is bring back an older one, or stay where the file
  never was out of reach. `JudgeInv` has four parts. What the signature cache keeps under
  a stamp was judged on that file or a later one, or on none (`KeptWell`). The judge works
  on one request at a time (`OneRequest`). Of the verdicts on their way that are on a file,
  none is on an older one than any before it or one shown (`InOrder`). And a process shows
  a verdict that does for it - on the file it started from or a later one, or the default
  one, its file having been out of reach since -, or is owed one: its image is still to be
  asked about, or stamped, or a verdict on its way will do (`Due`), which is what an image
  that is left and joined again with its request under way comes down to.

`FeedProofs`, under `PidsAssumption`, `NoneAssumption` and `BoundsAssumption`, so for any
number of changes in the channel: `PublishedStaysCoherent`, `PictureFollowsCore`,
`ImageStaysKnown`, `NothingIsWithheld` and `SamplesAreInOrder`. What makes them inductive (`IInv`):

* each change in the channel tells what the core listed and sampled after the change
  before it (`Channel`), so the picture is the core's as of the last change taken, and the
  rest of the channel leads from there to the core;
* what the picture holds by then, what its flags say of what moved since it was last
  published, and that its lists fit together (`Good`, `Coherent`);
* what is published was the picture at an earlier moment, its tags no later, equal only
  where the values are, and its samples all handed on (`Behind`);
* an image that was known is in a row of the list or among the gone (`Recalled`).

`RemoteWatchProofs`. Of any lists and without bounds:

* `DeltaRebuilds`: the difference of two lists, applied to the first, is the second.
* `UpdateRebuilds`: an update told against what a client holds is understood, and makes
  of it the snapshot told of. Assumed of both snapshots: a pid and a sequence number
  name one row (`OnePerProcess`), the states are of the processes beside them
  (`Coherent`), and equal tags are of equal lists (`TagsName`). `Record` proves these of
  what the session's agent publishes, `FeedProofs` the first two of what the feed does;
  that a list written anew has a new tag is the kit's `Versioned`.
* `FirstUpdateTellsAll`: with nothing told before, nothing need be held.

Of the session, for any watches, callers, calls and publications, under
`SessionAssumption` and `NoneAssumption`: `ListsAreAsPublished`,
`Spec => []ListsAsPublished`, `RefusedWhenFull`, `Spec => []RefusedOnlyWhenFull`, and
`SnapshotsAreFresh`, `Spec => []SnapshotIsFresh`. The invariant `Inv`:

* `Typed`, and `Record`: the snapshots published are coherent, their tags never go back
  and name one list each;
* `Reading`: a task of the client reads one thing at a time, or the three lists at once,
  and has each answer once: on a wire or in what it got;
* `Turns`: the agent tells a watch the next update only after the one before was
  answered, so of each watch exactly one thing is under way - an update, its reading
  afresh, the delivery that waits for its reader, or the answer; `Onward`: what it tells
  of goes on;
* `Follows`: the listener of a watch holds the nth snapshot published, and the update
  on its way is told against that one - which is the premise of `UpdateRebuilds`;
* `Caching`: what the client keeps, asks with and is answered under a tag was published
  under it; an answer of "not changed" comes only where something is kept;
* `Places`: the places the session has given away are as many as the watches that hold
  one, each called for and not let go, or its letting go on its way; and a call that is
  on its way finds no more of them before it than the client counted (`FewBeside`). That
  is why a watch is refused only when the session has all it may have, though the
  client's count and the agent's are taken at different times.

`SnapshotIsFresh` needs more than `Inv`: two calls of `snapshot` read through one cache, each
keeps what it is answered over what the other kept, and "not changed" is said of what was
kept when the call was sent. The invariant is `AllInTime`, which adds to `Inv`:

* `Serial`: what one task asks for is answered before all another asks for, or after it,
  and of one task the states come after the list; a task that has got an answer comes
  before the others. So as one task keeps what it got, no other has got anything
  (`GotAlone`): of the three lists read at once none is kept over a later one;
* `Awaited`: what a task that reads three lists did not get yet is on its way, and a task
  that has got the states does not wait for the list any more;
* `Timely`: the cache is not ahead of any answer on its way, and answers come in the order
  of the snapshots they show, so nothing is kept over what is later than it; a call
  carries a tag no later than the cache has, and what a task got is of its time;
* `Dated`: the tag of a list is the number of the snapshot that first showed it, so that
  moves of the list can be counted by tags (`MovesTo`);
* `FreshReads`: from its first answers on the cache is not older than the call of a task,
  and each attempt to join counts moves of the list since the call: with n attempts at
  least 2n - 1 up to the list the kept states are of when the list is asked for again, and
  2n up to the kept list when the states are asked for again. That is the bound at which a
  call may give up.

TLC checked `AllInTime` on a smaller instance of `remote` before it was proved.

`ThreadsProofs` has the two threads that read beside the core, whose modules it extends
(which is why the definitions of `ServiceWatch` that each module has are called `WatchInit`,
`WatchNext`, ...). Of `Prober`, for all values of the constants under `ProberAssumption` and `NoneAssumption`, so for any duration of a probe and both users:

* `TypeCorrect`: `Spec => []TypeOK`, which says too that a pid is seen and answered for
  together and of the same process.
* `ShownOwn`: `Spec => []ShownIsOwn`. `ShownIsOwn` speaks of what is shown while a tick is
  under way; the inductive invariant `IInv` speaks of what is kept (`AnswersOwn`) and of
  the probe under way (`ProbeOwn`): if the process listed still has the pid, it is the one
  read. It is kept because a sequence number never comes back.

Of `ServiceWatch`, under `AbsentAssumption`, for any number of changes, lags and follows and
a channel of any length: `StayingStateIsTold`, `WatchSpec =>
[]StayingStateTold`. (It is of the state a service stays in: what it went through between a
notification and the next arming is told to nobody; see the list of disagreements.) Two facts
make it inductive. What is
armed leaves out the state told last, and the service is in that state (`LeavesOutLast`):
a change is to another state, so it fires. And of a service that is not watched, the last
status on its way is none, or none is on its way and the picture follows none
(`Untold`): the end of a watch is put behind all it told, and scans do not count.

`HistoryProofs`, for any limits, sizes and order of time:

* `HeldStayLatest`, `Spec => []HeldAreLatest`, and `NothingIsMissing`, `Spec =>
  []NothingMissingSince`. The two are inductive together with the types of what is held: an
  event that is let go is the one pushed under its index, and `history_from` never goes
  back.
* `WatchersAreAccounted`, `Spec => []WatchersAccounted`: a watcher is told as lost what it
  missed and what goes with the events it was given, nothing twice; what goes with an event
  it missed it is not told. Beside these (`IInv`), its invariant
  `AInv` says that the bytes counted are the sizes of what is held, that each loss told to
  the history was pushed with an event or waits for the next (`Threads`), and of each
  watcher that what it was given and told makes up all that was pushed up to where it reads
  on, and which news or word of the end it has yet to hear (`Account`, `News`): the events,
  the closing flag and the word are told in three steps, and a watcher reads them in three.

What is said of sums over what is held (`Total`) and of the counts of a batch rests on
induction over sets of numbers: the library's rule for a well-founded order in its form for
a set, not for an operator.

`RouterProofs`, for any sessions, periods, transfers and faults:

* `TimersStayAsSet`, `Spec => []TimersAsSet`, which is inductive as it stands - a session
  that stops makes the premise false, and only a start of all of them, which sets all
  timers, makes it true again; a change that none refuses, with all running, reaches each
  (`EverySessionTook`). After a refusal it says nothing (`refused`), for there the core
  remembers a timer that no tick asks for again.
* `SessionsAreBack`, `Spec => []BackInTime`, by the invariant that a session that is missing
  went missing after the last check (`MissingSinceCheck`) and the distances of the clock
  from the last tick and the last check (`Clocks`).
* `BytesAreInTime`, `Spec => []InTime`. Its invariant `AInv` counts from the last tick: the
  events in the buffers are in order and let go in time (`BufferAges`), the first of a batch
  is no later than any still in the buffers and no older than `Longest` by that tick
  (`SlotAges`), nor is what waits in the channel (`ChannelAges`) - a flush empties what is
  due, a drain the rest.
* `CountersNeverGoBack`, `Spec => [][...]_vars` of `CountersGrow`: through a drain by
  induction over its changes, none of which takes from the process listed, and no sample
  lets a process go that stays listed.
* `BytesAreConserved`, `Spec => []Conserved`, with the types. Loopback is among all the bytes
  of each delta (`Sound`), so what left the machine is a number; an event moves its byte
  from the buffers into its batch (`AddedCounts`), a batch handed over is in the channel or,
  as far as that is full, lost (`HandingOverCounts`), and a drain moves the channel into the
  totals. The sums go over the pids, the channel and the buffers (`TotalConcat`,
  `TotalGrows`).

`AgentServiceProofs`, for any commands, apps, processes, workers and failures under
`CallsAssumption`: `StatusAlwaysTrue`, `Spec => []StatusIsTrue` (that a service said to run
has bound its pipe, not that it still serves it), and
`CommandsRefineOneAtATime`, the safety part of the refinement: initial states are initial
states of `OneAtATime` and every step is one of its steps or none. Its invariant says that
the status is what the process told last (`Coherent`) and that a target is taken by
exactly the one command under way for it (`Taken`), also while a process leaves.

`EventIntakeProofs`, for any number of processes and pids, any queue, any number of losses
and all delays, skews and times that meet `TimesAssumption`, `IntakeAssumption`,
`DelaysAssumption` and `NoneAssumption`: the four properties of the run `intake`. The first
takes only that waiting is longer than a session is late, that a skew is no more than halves
are paired within, and that a pid is given again after two skews at the soonest. The
invariant `IInv`, which is itself proved (`IInvAlways`):

* `Typed`; `Truths`, that what an event says is so of the process it names, wherever the
  event is, and that births are in order; `Prompt`, that none is under way longer than the
  sessions take. They bound how far apart two events can be, which all pairing rests on.
* `Lines`: a session hands over in the order in which it tells. Of two of its events that
  tell of one process, or of two of one kind, the later cannot be there while the earlier is
  still under way (`Ahead`), whatever the other sessions do.
* `Places`: a start or an exit told is in one place of four. With `Lines`, an exit that can
  go out has its start before it, out of the session at least: `StartsComeFirst`.
* `Waiting`: what is pending while the thread waits was there at the last release, which was
  a tick before it wakes; and a start let out lately is still in `went`, so that an exit
  comes out behind it. That is `EventsOutInTime`.
* `Tallied`: the totals told and not read yet rise to the session's count, in one run or in
  two if the session counted anew, and with what is in hand they come to what was lost. With
  `Places`, and as the thread keeps nothing in hand while it waits or at its end
  (`Handed`), it is `EveryEventIsAccounted`.
* `Halves`: of a pid nothing was lost of, a half waits as long as its start is under way,
  and a start is without its half as long as that is under way (`Paired`); of tasks it is
  said of a process that has its pid to itself while halves are near (`Tasked`). It is kept
  because of two processes of one pid the nearer half is the own one: a half is late by a
  skew at most and lives are two skews apart, and with command lines, which are told in
  order of births, an older start never lacks its own while a younger one's is there. That
  is `StartsAreTheirOwn`.

`Core`, the first six of these without the tally, is kept on its own; `Halves` and `Tallied`
are kept beside it. TLC found no state of the instance of `intake` that breaks `IInv`
before it was proved.

Only model-checked: the three properties of `Sampling`, whose inductive invariant would have
to place each step of a sampler against the clock, its slot and the idle period and is not
written; and all liveness, which is out of this prover's reach.

## Plan

What would come next, in this order:

1. Theorems of `Sampling`.
2. `RpcSessions`: samplers, services, commands and process events over the pipe, and the
   limit of sessions, around what `RemoteWatch` has of one session.
3. `Probes`: the handles of the tick and their turn over a list that changes. A process
   waits for its turn as long as others come and go before it, which the round of
   `probes.rs:32` promises to bound.
4. `GoneNames` (`image_of` for exits across `EventIntake`, `Feed` and `History`),
   `VmHosts`, and the helper process that reads temperatures.

## Not modelled

* Generated bindings (`bindings.rs`, `wire` schemas), build tooling, examples, the C#
  helper and the experiments: no logic of the agent.
* Parsing of system buffers, the layout of columns and messages, the conversion of fields
  and enumerations on the wire, formulas over two readings of a counter: input, output
  and arithmetic with no interleaving of their own.
* Machine, GPU, temperatures, display names, passports: reads of the system.
* The http page: read only, over what `Feed` publishes.
* VM hosts and the handles of `probes.rs`: of the core's tick alone; see the plan.
* Of the parts modelled in part, `PROJECT.json` says what is left out.

The generated and vendored code, the parsers and the layouts are most of the repository's
lines: the models cover the part that has state shared between actors. Two hazards no
property covers say why where `PROJECT.json` lists them.

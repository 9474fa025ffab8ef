------------------------------- MODULE Router -------------------------------
(***************************************************************************)
(* What the kernel tells of disk and network on its way into the counters: *)
(* the sessions' events gather in batches (crates/core/src/etw/router.rs), *)
(* the batches pass a bounded channel (sink.rs), and a tick of the core    *)
(* adds them to the machine's totals and charges the traffic to the        *)
(* processes listed by then (state/mod.rs, state/network.rs).  The tick    *)
(* also sets the sessions' flush timer and, now and then, starts the       *)
(* sessions again (supervisor.rs).                                         *)
(*                                                                         *)
(* The trace threads and the core interleave; time is counted in units     *)
(* longer than a step of either takes.                                     *)
(***************************************************************************)
EXTENDS Integers, Sequences, FiniteSets, Functions, Sums

CONSTANTS
  Pids,        \* process ids, which issue disk transfers as threads too
  Order,       \* the sessions a router reads, in the order they are started
  None,        \* no process, no batch begun, no pid read
  Periods,     \* the fastest interval the core may be asked to sample at
  Transfers,   \* what the kernel may tell of: [slot, key, loopback]
  Window,      \* BATCH_WINDOW
  FastFlush,   \* FLUSH_TIMER_MS
  SlowFlush,   \* SLOWEST_FLUSH_MS
  TickEvery,   \* the longest the core goes without a tick
  CheckEvery,  \* SESSIONS_CHECKED
  Capacity,    \* capacity of the channel
  MaxProcs,    \* bound: processes
  MaxTime,     \* bound: units of time
  MaxEvents,   \* bound: events the kernel tells of
  MaxFaults,   \* bound: sessions that stop, starts that fail, timers that are refused
  MaxDemands   \* bound: times the demand changes

ASSUME PeriodsAssumption ==
  /\ {Window, FastFlush, SlowFlush, TickEvery, CheckEvery, Capacity} \subseteq Nat \ {0}
  /\ FastFlush <= SlowFlush
ASSUME SessionsAssumption == Order \in Seq(Range(Order)) /\ Order # <<>> /\ IsInjective(Order)
ASSUME DemandAssumption == Periods \subseteq Nat \cup {None}
ASSUME TransfersAssumption ==
  /\ Transfers \subseteq [slot : {"disk", "net"}, key : Pids \cup {None}, loopback : BOOLEAN]
  /\ \A t \in Transfers : t.loopback => t.slot = "net" /\ t.key # None
ASSUME PidsAssumption == IsFiniteSet(Pids)
ASSUME BoundsAssumption ==
  /\ {MaxProcs, MaxTime, MaxEvents, MaxFaults, MaxDemands} \subseteq Nat
  /\ MaxProcs >= Cardinality(Pids)
ASSUME NamesAssumption == None \notin Nat \cup Pids

Slots == {"disk", "net"}
\* Sequence numbers of processes, in the order they start.
Procs == 1..MaxProcs
Sessions == Range(Order)
\* The kernel flags of disk and network bring one session up, the first.
Kernel == Order[1]

VARIABLES
  now,        \* the clock
  holder,     \* the process that has each pid
  started,    \* how many processes ran so far
  running,    \* the sessions that run and are read
  router,     \* Supervisor.router is there
  checked,    \* Supervisor.sessions_checked
  asked,      \* the fastest interval of the demand, None without one
  flushTimer, \* Supervisor.flush_timer
  timers,     \* the timer each session really has
  buffer,     \* events in the kernel session's buffers
  slots,      \* RouterCore.batches
  channel,    \* the sink's channel
  dropped,    \* Sink.dropped
  woken,      \* the core was woken since its last tick
  core,       \* what the core does: "parked" or "flushed"
  ticked,     \* when the core last ticked
  listed,     \* the process the table lists on each pid
  counters,   \* NetworkCounters.by_pid
  totals,     \* MachineTotals
  told,       \* history: bytes the kernel told of, by slot
  lost,       \* history: bytes that were lost before they were counted
  events,     \* events told so far, for the bound
  down,       \* history: when a session last stopped or did not start, while one is missing
  refused,    \* history: a session that ran refused the timer last set
  faults,     \* sessions stopped, starts failed and timers refused so far, for the bound
  demands     \* times the demand changed, for the bound

machine == <<holder, started, told, events>>
sessions == <<down, running, router, checked, flushTimer, timers, refused>>
sink == <<channel, dropped, woken>>
demand == <<asked, demands>>
state == <<listed, counters, totals>>
vars == <<now, machine, sessions, demand, buffer, slots, sink, core, ticked, state, lost, faults>>

NoBytes == [s \in Slots |-> 0]
\* No event was added since the last batch was taken.  `first` is a history
\* of the oldest event in the batch.
EmptySlot == [deltas |-> <<>>, since |-> None, first |-> None]
EmptySlots == [s \in Slots |-> EmptySlot]

Init ==
  /\ now = 0
  /\ started = Cardinality(Pids) /\ holder \in [Pids -> 1..started]
  /\ IsInjective(holder) /\ listed = holder
  /\ told = NoBytes /\ events = 0
  /\ router \in BOOLEAN /\ running = (IF router THEN Sessions ELSE {}) /\ checked = 0 /\ down = 0
  /\ asked = None /\ flushTimer = FastFlush
  /\ timers = [s \in Sessions |-> FastFlush]
  /\ buffer = <<>> /\ slots = EmptySlots
  /\ channel = <<>> /\ dropped = 0 /\ woken = FALSE
  /\ core = "parked" /\ ticked = 0
  /\ counters = <<>> /\ totals = NoBytes
  /\ lost = NoBytes /\ refused = FALSE /\ faults = 0 /\ demands = 0

-----------------------------------------------------------------------------
\* Bytes that count for the machine: loopback never left it.
PidSeq == CHOOSE pids \in Bijection(1..Cardinality(Pids), Pids) : TRUE
Outside(deltas) ==
  Total([n \in 1..Cardinality(Pids) |->
           IF PidSeq[n] \in DOMAIN deltas THEN deltas[PidSeq[n]].all - deltas[PidSeq[n]].loopback ELSE 0])

\* The bytes of batches and of buffered events, by slot.
BytesIn(changes) ==
  [s \in Slots |-> Total([i \in 1..Len(changes) |->
                           IF changes[i].slot = s THEN Outside(changes[i].deltas) ELSE 0])]
BytesOut(e) == IF e.key = None \/ e.loopback THEN 0 ELSE 1
BytesHeld(read) ==
  [s \in Slots |-> Total([i \in 1..Len(read) |-> IF read[i].slot = s THEN BytesOut(read[i]) ELSE 0])]
Plus(a, b) == [s \in Slots |-> a[s] + b[s]]

\* NetDelta::add and DiskDelta::add of one byte; an event that cannot be
\* read adds nothing.
Counted(d, e) == [all |-> d.all + 1, loopback |-> d.loopback + IF e.loopback THEN 1 ELSE 0]
Zero == [all |-> 0, loopback |-> 0]
Added(deltas, e) ==
  IF e.key = None THEN deltas
  ELSE LET d == IF e.key \in DOMAIN deltas THEN deltas[e.key] ELSE Zero
       IN  [k \in DOMAIN deltas \cup {e.key} |-> IF k = e.key THEN Counted(d, e) ELSE deltas[k]]

\* RouterCore::deliver: the batch's window begins with its first event.
Delivered(e) ==
  LET slot == slots[e.slot]
  IN  [slots EXCEPT ![e.slot] =
         [deltas |-> Added(slot.deltas, e),
          since |-> IF slot.since = None THEN e.at ELSE slot.since,
          first |-> IF slot.first = None \/ e.at < slot.first THEN e.at ELSE slot.first]]

\* RouterCore::hand_over_due: the slots whose window has passed are emptied,
\* in the order they were registered.
DueSlotsToFirstEmpty(held, at) ==
  {s \in Slots : /\ held[s].since # None /\ at - held[s].since >= Window
                 /\ s = "net" => held["disk"].since # None}
DueSlots(held, at) == {s \in Slots : held[s].since # None /\ at - held[s].since >= Window}
LeftUncleared(held, at) ==
  [s \in Slots |-> IF s \in DueSlots(held, at) THEN [held[s] EXCEPT !.since = None] ELSE held[s]]
Left(held, at) == [s \in Slots |-> IF s \in DueSlots(held, at) THEN EmptySlot ELSE held[s]]
Change(held, s) == [slot |-> s, deltas |-> held[s].deltas, first |-> held[s].first]
HandedOver(held, at, s) ==
  IF s \in DueSlots(held, at) /\ held[s].deltas # <<>> THEN <<Change(held, s)>> ELSE <<>>
Taken(held, at) == HandedOver(held, at, "disk") \o HandedOver(held, at, "net")

\* Sink::emit: what finds the channel full is dropped and counted; a channel
\* half full wakes the core.
HighWater == IF Capacity \div 2 > 1 THEN Capacity \div 2 ELSE 1
Wakes(length) == length >= HighWater
Emit(changes, pending) ==
  LET room == Capacity - Len(channel)
      sent == IF Len(changes) < room THEN Len(changes) ELSE room
  IN  /\ channel' = channel \o SubSeq(changes, 1, sent)
      /\ dropped' = dropped + Len(changes) - sent
      /\ woken' = (pending \/ (changes # <<>> /\ Wakes(Len(channel'))))
      /\ lost' = Plus(lost, BytesIn(SubSeq(changes, sent + 1, Len(changes))))

HandOverDue(held, at, pending) == slots' = Left(held, at) /\ Emit(Taken(held, at), pending)

-----------------------------------------------------------------------------
\* The machine.  A process starts on a free pid, the process of a pid ends.
Starts(pid) ==
  /\ holder[pid] = None /\ started < MaxProcs
  /\ started' = started + 1
  /\ holder' = [holder EXCEPT ![pid] = started']
  /\ UNCHANGED <<now, told, events, sessions, demand, buffer, slots, sink, core, ticked, state, lost, faults>>

Ends(pid) ==
  /\ holder[pid] # None
  /\ holder' = [holder EXCEPT ![pid] = None]
  /\ UNCHANGED <<now, started, told, events, sessions, demand, buffer, slots, sink, core, ticked, state, lost, faults>>

Event(t) == [slot |-> t.slot, key |-> t.key, loopback |-> t.loopback, at |-> now]

\* The kernel session tells of a transfer of one byte, or of something the
\* provider does not read.
Tells(transfer) ==
  /\ Kernel \in running /\ router /\ events < MaxEvents /\ now < MaxTime
  /\ transfer.key \in Pids => holder[transfer.key] # None
  /\ buffer' = Append(buffer, Event(transfer))
  /\ told' = [told EXCEPT ![transfer.slot] = @ + BytesOut(transfer)]
  /\ events' = events + 1
  /\ UNCHANGED <<now, holder, started, sessions, demand, slots, sink, core, ticked, state, lost, faults>>

\* A session is stopped from outside or no longer read; what its buffers
\* hold is gone.
SessionStops(s) ==
  /\ s \in running /\ faults < MaxFaults /\ now < MaxTime
  /\ running' = running \ {s} /\ down' = now /\ faults' = faults + 1
  /\ IF s = Kernel
     THEN buffer' = <<>> /\ lost' = Plus(lost, BytesHeld(buffer))
     ELSE UNCHANGED <<buffer, lost>>
  /\ UNCHANGED <<now, machine, router, checked, flushTimer, timers, refused, demand, slots, sink, core,
                 ticked, state>>

-----------------------------------------------------------------------------
\* RouterCore::on_event, of an event of the kernel session and of an event
\* of another, which nothing is batched from.
OnEvent ==
  /\ router /\ buffer # <<>>
  /\ buffer' = Tail(buffer)
  /\ HandOverDue(Delivered(Head(buffer)), Head(buffer).at, woken)
  /\ UNCHANGED <<now, machine, sessions, demand, core, ticked, state, faults>>

OnOtherEvent(at) ==
  /\ router /\ running \ {Kernel} # {}
  /\ at <= now /\ now - at <= SlowFlush
  /\ DueSlots(slots, at) # {}
  /\ HandOverDue(slots, at, woken)
  /\ UNCHANGED <<now, machine, sessions, demand, buffer, core, ticked, state, faults>>

-----------------------------------------------------------------------------
\* The core's tick.  keep_sessions: now and then a router whose sessions do
\* not all run is let go, its batches with it, and started again.
HealthyOrNone == router => running = Sessions
Healthy == router /\ running = Sessions
Checks == now - checked >= CheckEvery
Ticks == core = "parked" /\ (woken \/ now - ticked >= TickEvery)

KeepsSessions ==
  /\ checked' = IF Checks THEN now ELSE checked
  /\ UNCHANGED <<running, router, down>>
  /\ IF Checks THEN Healthy ELSE TRUE

\* flush_timer_for: half the fastest interval, clamped.
FlushTimerFor(period) ==
  IF period = None \/ period \div 2 > SlowFlush THEN SlowFlush
  ELSE IF period \div 2 < FastFlush THEN FastFlush ELSE period \div 2

\* KernelRouter::set_flush_timer stops at the first session that does not
\* take the timer: one that is gone, or one that runs and refuses it, which
\* is a fault.
Took(n) == {Order[i] : i \in 1..n}
Refuses(n, up) == n < Len(Order) /\ Order[n + 1] \in up
Reaches(n, set, had, up) ==
  /\ Refuses(n, up) => faults < MaxFaults
  /\ timers' = [s \in Sessions |-> IF s \in Took(n) THEN set ELSE had[s]]
  /\ refused' = Refuses(n, up)
  /\ faults' = IF Refuses(n, up) THEN faults + 1 ELSE faults

\* The core remembers the timer it asked for, whatever the sessions did. It
\* remembers `remembered` from before, the sessions have `had`, of which the
\* last was refused or not.
TimerSetUnlessHad(remembered, had, before, up) ==
  /\ flushTimer' = FlushTimerFor(asked)
  /\ IF FlushTimerFor(asked) = flushTimer
     THEN timers' = had /\ refused' = before /\ faults' = faults
     ELSE \E n \in 0..Len(Order) : Reaches(n, FlushTimerFor(asked), had, up)
TimerSet(remembered, had, before, up) ==
  /\ flushTimer' = FlushTimerFor(asked)
  /\ IF FlushTimerFor(asked) = remembered
     THEN timers' = had /\ refused' = before /\ faults' = faults
     ELSE \E n \in 0..Len(Order) : Reaches(n, FlushTimerFor(asked), had, up)

\* Supervisor::tick up to the flush, while the sessions are kept.
Flushes ==
  /\ Ticks
  /\ KeepsSessions
  /\ IF router
     THEN TimerSet(flushTimer, timers, refused, running) /\ HandOverDue(slots, now, FALSE)
     ELSE woken' = FALSE /\ UNCHANGED <<flushTimer, timers, refused, slots, channel, dropped, lost, faults>>
  /\ core' = "flushed"
  /\ UNCHANGED <<now, machine, demand, buffer, ticked, state>>

\* The same where the sessions are started again, or do not start.
Restarts(starts) ==
  /\ Ticks
  /\ Checks /\ ~Healthy
  /\ starts \/ faults < MaxFaults
  /\ checked' = now
  /\ router' = starts
  /\ running' = IF starts THEN Sessions ELSE {}
  /\ down' = IF starts THEN 0 ELSE now
  /\ buffer' = <<>> /\ slots' = EmptySlots
  /\ lost' = [s \in Slots |-> lost[s] + BytesHeld(buffer)[s] + Outside(slots[s].deltas)]
  /\ IF starts THEN TimerSet(FastFlush, [s \in Sessions |-> FastFlush], FALSE, Sessions)
               ELSE faults' = faults + 1 /\ UNCHANGED <<flushTimer, timers, refused>>
  /\ woken' = FALSE
  /\ core' = "flushed"
  /\ UNCHANGED <<now, machine, demand, channel, dropped, ticked, state>>

\* SystemState::apply of every change in the channel, in order.
Charged(table, by, deltas) ==
  [pid \in DOMAIN by \cup {p \in DOMAIN deltas : table[p] # None} |->
     IF pid \notin DOMAIN deltas \/ table[pid] = None THEN by[pid]
     ELSE IF pid \in DOMAIN by /\ by[pid].seq = table[pid]
          THEN [by[pid] EXCEPT !.bytes = @ + deltas[pid].all]
          ELSE [seq |-> table[pid], bytes |-> deltas[pid].all]]

Applied(by, change) == IF change.slot = "net" THEN Charged(listed, by, change.deltas) ELSE by
AllApplied(by, changes) ==
  LET after[n \in 0..Len(changes)] ==
        IF n = 0 THEN by ELSE Applied(after[n - 1], changes[n])
  IN  after[Len(changes)]

\* NetworkCounters::retain_listed.
RetainedOthers(by, table) == Restrict(by, {pid \in DOMAIN by : by[pid].seq # table[pid]})
Retained(by, table) == Restrict(by, {pid \in DOMAIN by : by[pid].seq = table[pid]})

\* The tick drains the channel, and takes a sample that reads the process
\* list, or none.
Drains(reads) ==
  /\ core = "flushed"
  /\ totals' = Plus(totals, BytesIn(channel))
  /\ channel' = <<>>
  /\ LET charged == AllApplied(counters, channel)
     IN  IF reads
         THEN listed' = holder /\ counters' = Retained(charged, holder)
         ELSE listed' = listed /\ counters' = charged
  /\ core' = "parked" /\ ticked' = now
  /\ UNCHANGED <<now, machine, sessions, demand, buffer, slots, dropped, woken, lost, faults>>

\* The demand changes, which wakes the core.
Demands(period) ==
  /\ asked # period /\ demands < MaxDemands /\ now < MaxTime
  /\ demands' = demands + 1
  /\ asked' = period /\ woken' = TRUE
  /\ UNCHANGED <<now, machine, sessions, buffer, slots, channel, dropped, core, ticked, state, lost, faults>>

\* Time passes while the core is parked with nothing to wake it, and no
\* event stays in the buffers longer than the slowest flush.
TimePasses ==
  /\ now < MaxTime
  /\ core = "parked" /\ ~woken /\ now - ticked < TickEvery
  /\ buffer # <<>> => now - Head(buffer).at < SlowFlush
  /\ now' = now + 1
  /\ UNCHANGED <<machine, sessions, demand, buffer, slots, sink, core, ticked, state, lost, faults>>

Next ==
  \/ \E pid \in Pids : Starts(pid) \/ Ends(pid)
  \/ \E transfer \in Transfers : Tells(transfer)
  \/ \E s \in Sessions : SessionStops(s)
  \/ OnEvent
  \/ \E at \in 0..MaxTime : OnOtherEvent(at)
  \/ Flushes
  \/ \E starts \in BOOLEAN : Restarts(starts)
  \/ \E reads \in BOOLEAN : Drains(reads)
  \/ \E period \in Periods : Demands(period)
  \/ TimePasses

Spec == Init /\ [][Next]_vars

-----------------------------------------------------------------------------
AreDeltas(d) == DOMAIN d \subseteq Pids /\ \A k \in DOMAIN d : d[k] \in [all : Nat, loopback : Nat]
Times == 0..MaxTime
EventType == [slot : Slots, key : Pids \cup {None}, loopback : BOOLEAN, at : Times]

\* Types.
TypeOK ==
  /\ now \in Times /\ checked \in Times /\ down \in Times /\ ticked \in Times
  /\ holder \in [Pids -> Procs \cup {None}] /\ listed \in [Pids -> Procs \cup {None}]
  /\ started \in 0..MaxProcs
  /\ running \subseteq Sessions /\ router \in BOOLEAN /\ refused \in BOOLEAN
  /\ asked \in Periods \cup {None} /\ flushTimer \in FastFlush..SlowFlush
  /\ timers \in [Sessions -> FastFlush..SlowFlush]
  /\ buffer \in Seq(EventType)
  /\ \A s \in Slots : /\ AreDeltas(slots[s].deltas)
                      /\ slots[s].since \in Times \cup {None} /\ slots[s].first \in Times \cup {None}
  /\ \A i \in DOMAIN channel : /\ channel[i].slot \in Slots /\ channel[i].first \in Times
                              /\ AreDeltas(channel[i].deltas)
  /\ Len(channel) <= Capacity
  /\ dropped \in Nat /\ woken \in BOOLEAN /\ core \in {"parked", "flushed"}
  /\ DOMAIN counters \subseteq Pids
  /\ \A pid \in DOMAIN counters : counters[pid] \in [seq : Procs, bytes : Nat]
  /\ totals \in [Slots -> Nat] /\ told \in [Slots -> Nat] /\ lost \in [Slots -> Nat]
  /\ events \in 0..MaxEvents /\ faults \in 0..MaxFaults /\ demands \in 0..MaxDemands

\* Every byte the kernel told of is counted in the machine's totals once: it
\* is there, on its way there, or lost with a full channel or a session.
Conserved ==
  TypeOK /\ \A s \in Slots :
    told[s] = totals[s] + lost[s] + BytesIn(channel)[s] + Outside(slots[s].deltas) + BytesHeld(buffer)[s]

\* What the process listed on a pid is told to have sent and received never
\* goes back while it is listed, whatever batches, ticks and restarts of the
\* sessions come between (NetworkCounters::get).
Network(by, pid, seq) == IF pid \in DOMAIN by /\ by[pid].seq = seq THEN by[pid].bytes ELSE 0
CountersGrow ==
  [][\A pid \in Pids : listed[pid] # None /\ listed'[pid] = listed[pid] =>
       Network(counters', pid, listed[pid]) >= Network(counters, pid, listed[pid])]_vars

\* A channel half full has woken the core, or is about to be drained: it
\* does not wait for the core's period.
HalfFullIsSeen == Len(channel) >= HighWater => woken \/ core = "flushed"

\* A byte is charged soon: it waits in its batch and in the channel for no
\* longer than its session may hold it, or its window, and the next tick, so
\* what a process is charged for another that had its pid is no older.
Longest == IF Window > SlowFlush THEN Window ELSE SlowFlush
InTime ==
  /\ HalfFullIsSeen
  /\ \A s \in Slots : slots[s].since # None => now - slots[s].first <= Longest + TickEvery
  /\ \A i \in DOMAIN channel : now - channel[i].first <= Longest + TickEvery

\* While all the sessions run, each has the flush timer the core remembers
\* to have set, also after one was missing when it was set, or all were
\* started again; unless a session that ran refused it, which the core does
\* not remember (Supervisor::tick logs it and keeps the timer as set).
TimersAsSet == running = Sessions /\ ~refused => \A s \in Sessions : timers[s] = flushTimer

\* Sessions that were stopped from outside or did not start run again by the
\* tick after the next check, unless they do not start then either.
BackInTime == running # Sessions => now - down <= CheckEvery + TickEvery
=============================================================================

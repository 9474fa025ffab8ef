------------------------------ MODULE Sampling ------------------------------
(***************************************************************************)
(* Who gets which sample when: the core's schedule of intervals            *)
(* (crates/core/src/schedule.rs), the subscriptions the painter keeps, and *)
(* the samplers it delivers to (src/sampler.rs).                           *)
(*                                                                         *)
(* Time is counted in units longer than a step of the core or the painter  *)
(* takes: it passes when neither thread has anything left to do.  Within a *)
(* unit the steps fall in any order.                                       *)
(***************************************************************************)
EXTENDS Integers, Sequences, FiniteSets

CONSTANTS
  Clients,      \* samplers; each subscribes once
  Metrics,      \* what can be measured, of processes or of the machine
  Specs,        \* what samplers may ask for
  Idles,        \* how often the core may be told to sample while nobody subscribes
  MinInterval,  \* MIN_INTERVAL
  MaxInterval,  \* MAX_INTERVAL
  None,         \* no sample, no interval
  MaxTime,      \* bound: units of time
  MaxFailures,  \* bound: samples that fail
  MaxIdles,     \* bound: times the idle period is set
  MaxRequests   \* bound: requests to the painter

ASSUME SpecsAssumption ==
  \A s \in Specs : /\ s.interval \in Nat
                   /\ s.processes \subseteq Metrics /\ s.machine \subseteq Metrics
ASSUME IntervalsAssumption ==
  /\ MinInterval \in Nat \ {0} /\ MaxInterval \in Nat /\ MinInterval <= MaxInterval
  /\ Idles \subseteq MinInterval..MaxInterval /\ Idles # {}

\* MetricSpec.
Period(spec) == IF spec.interval < MinInterval THEN MinInterval
                ELSE IF spec.interval > MaxInterval THEN MaxInterval ELSE spec.interval
Covers(wide, spec) == spec.processes \subseteq wide.processes /\ spec.machine \subseteq wide.machine
ReadsProcesses(spec) == spec.processes # {} \/ spec.machine = {}
ListsOnly(spec) == spec.processes = {} /\ spec.machine = {}
IdleSpec(period) == [interval |-> period, processes |-> {}, machine |-> {}]

Periods == {Period(s) : s \in Specs} \cup Idles

VARIABLES
  now,          \* the clock
  cadences,     \* Schedule.cadences, by interval
  settled,      \* history: when the demand last changed
  snapshots,    \* Reader.snapshots
  failures,     \* samples that failed so far, for the bound
  failed,       \* history: when a sample last failed
  read,         \* history: when the process list was last read
  woken,        \* the monitor was woken since its last tick
  demand,       \* Demand: the specs the core samples for
  changes,      \* samples on their way to the painter
  latest,       \* the sample published last
  requests,     \* what samplers asked of the painter
  painter,      \* what the painter does: "free", "demand" or "wake"
  subscribers,  \* Subscriptions.subscribers
  idle,         \* Subscriptions.idle
  idles,        \* times the idle period was set, for the bound
  slots,        \* Slot.latest of each sampler
  telling,      \* samplers whose slot was filled and who are not notified yet
  sampler,      \* what each sampler does
  reading       \* how each sampler's reader waits, and the sample it has

schedule == <<cadences, snapshots, failures, failed, read, woken>>
painting == <<latest, painter, subscribers, idle, demand, settled>>
delivery == <<slots, telling>>
asking == <<sampler, reading>>
vars == <<now, schedule, changes, requests, idles, painting, delivery, asking>>

Latest(S) == CHOOSE x \in S : \A y \in S : y <= x
Sampler0 == [at |-> "new", spec |-> None, since |-> 0]
Reader0 == [at |-> "off", held |-> None, notified |-> FALSE]

Init ==
  /\ now = 0
  /\ cadences = [i \in Periods |-> None]
  /\ snapshots = 0 /\ failures = 0 /\ failed = 0 /\ read = 0
  /\ woken = FALSE
  /\ idle = Latest(Idles) /\ idles = 0   \* Local::start_as_service: at the idle rate
  /\ demand = {IdleSpec(idle)} /\ settled = 0
  /\ changes = <<>> /\ latest = None /\ requests = <<>>
  /\ painter = "free"
  /\ subscribers = [c \in Clients |-> None]
  /\ slots = [c \in Clients |-> None]
  /\ telling = {}
  /\ sampler = [c \in Clients |-> Sampler0]
  /\ reading = [c \in Clients |-> Reader0]

-----------------------------------------------------------------------------
\* The schedule.  by_interval: the specs of one interval want, together,
\* what any of them wants.
Groups == {Period(s) : s \in demand}
Group(i) == {s \in demand : Period(s) = i}
Wanted(specs) == [processes |-> UNION {s.processes : s \in specs},
                  machine |-> UNION {s.machine : s \in specs}]

Due(i) == cadences[i] = None \/ now >= cadences[i].on_time + i
Grown(i) == cadences[i] = None \/ ~Covers(cadences[i].sampled_for, Wanted(Group(i)))
TakenAt == {i \in Groups : Due(i) \/ Grown(i)}
Taken == {s \in demand : Period(s) \in TakenAt}

\* by_interval: whether any of them reads the process list.
Lists(i) == \E s \in Group(i) : ReadsProcesses(s)

\* Schedule::take: growth is sampled for at once, and does not move when the
\* interval is next due.
CadencesTaken ==
  [i \in Periods |->
     IF i \notin Groups THEN None
     ELSE [on_time |-> IF Due(i) THEN now ELSE cadences[i].on_time,
           sampled_for |-> IF i \in TakenAt THEN Wanted(Group(i)) ELSE cadences[i].sampled_for]]

MinOf(S) == CHOOSE x \in S : \A y \in S : x <= y
SampleTaken ==
  [snapshot |-> snapshots + 1, at |-> now, period |-> MinOf(TakenAt),
   wanted |-> Wanted(Taken), rows |-> \E s \in Taken : ReadsProcesses(s)]

\* The monitor ticks the core when woken, and when Schedule::due says so.
Scheduled == {i \in Periods : cadences[i] # None}
CoreDue == woken \/ Scheduled = {} \/ \E i \in Scheduled : now >= cadences[i].on_time + i

Ticks ==
  /\ CoreDue
  /\ woken' = FALSE
  /\ cadences' = CadencesTaken
  /\ IF TakenAt = {}
     THEN UNCHANGED <<snapshots, failures, failed, read, changes>>
     ELSE \/ /\ changes' = Append(changes, SampleTaken)
             /\ snapshots' = snapshots + 1
             /\ read' = IF SampleTaken.rows THEN now ELSE read
             /\ UNCHANGED <<failures, failed>>
          \/ /\ SampleTaken.rows /\ failures < MaxFailures
             /\ failures' = failures + 1
             /\ failed' = now
             /\ UNCHANGED <<snapshots, read, changes>>
  /\ UNCHANGED <<now, requests, idles, painting, delivery, asking>>

-----------------------------------------------------------------------------
\* The painter.  Subscriber::deliver: a sample that covers the subscription,
\* about its own interval after the one it holds.
MinOf2(a, b) == IF a < b THEN a ELSE b
DueAfter(spec, sample) == Period(spec) - MinOf2(Period(spec), sample.period) \div 2

HasAny(subscriber, sample) == TRUE
HasLists(subscriber, sample) == ListsOnly(subscriber.spec) => sample.rows

Takes(subscriber, sample) ==
  /\ Covers(sample.wanted, subscriber.spec)
  /\ HasLists(subscriber, sample)
  /\ \/ subscriber.delivered = None
     \/ /\ subscriber.delivered.snapshot # sample.snapshot
        /\ sample.at >= subscriber.delivered.at + DueAfter(subscriber.spec, sample)

Takers(sample) == {c \in Clients : subscribers[c] # None /\ Takes(subscribers[c], sample)}

\* Slot::put, for each who takes: the sample first, then the word of it.
Delivered(takers, sample) ==
  /\ slots' = [c \in Clients |-> IF c \in takers THEN sample ELSE slots[c]]
  /\ telling' = takers

Notifies ==
  /\ telling # {}
  /\ telling' = {}
  /\ reading' = [c \in Clients |-> IF c \in telling /\ reading[c].at # "off"
                                  THEN [reading[c] EXCEPT !.notified = TRUE] ELSE reading[c]]
  /\ UNCHANGED <<now, schedule, changes, requests, idles, painting, slots, sampler>>

Publishes ==
  /\ painter = "free" /\ telling = {} /\ changes # <<>>
  /\ changes' = Tail(changes)
  /\ latest' = Head(changes)
  /\ LET sample == Head(changes) IN
     /\ Delivered(Takers(sample), sample)
     /\ subscribers' = [c \in Clients |-> IF c \in Takers(sample)
                                          THEN [subscribers[c] EXCEPT !.delivered = sample]
                                          ELSE subscribers[c]]
  /\ UNCHANGED <<now, schedule, requests, idle, idles, demand, settled, painter, asking>>

\* Subscriptions::handle: a new subscriber gets the latest sample at once,
\* when it covers it; then the core's demand is set, then it is woken.
Subscriber(spec) == [spec |-> spec, delivered |-> None]

Handles ==
  /\ painter = "free" /\ telling = {} /\ requests # <<>>
  /\ requests' = Tail(requests)
  /\ painter' = "demand"
  /\ LET c == Head(requests).client
         spec == Head(requests).spec
         takers == {d \in {c} : latest # None /\ Takes(Subscriber(spec), latest)}
     IN IF c = None
        THEN idle' = spec /\ UNCHANGED <<subscribers, delivery>>
        ELSE IF spec = None
        THEN /\ subscribers' = [subscribers EXCEPT ![c] = None]
             /\ slots' = [slots EXCEPT ![c] = None]   \* freed with the last who holds it
             /\ UNCHANGED <<idle, telling>>
        ELSE /\ Delivered(takers, latest)
             /\ subscribers' = [subscribers EXCEPT
                  ![c] = [Subscriber(spec) EXCEPT !.delivered = IF takers = {} THEN None ELSE latest]]
             /\ UNCHANGED idle
  /\ UNCHANGED <<now, schedule, changes, latest, idles, demand, settled, asking>>

\* Subscriptions::wanted: what the subscribers ask for, and the lists every
\* now and then when none of them has the processes read.
Subscribed == {subscribers[c].spec : c \in {d \in Clients : subscribers[d] # None}}
DemandWithoutLists == IF Subscribed = {} THEN {IdleSpec(idle)} ELSE Subscribed
DemandWanted == Subscribed \cup (IF \E s \in Subscribed : ReadsProcesses(s) THEN {} ELSE {IdleSpec(idle)})

SetsDemand ==
  /\ painter = "demand" /\ telling = {}
  /\ demand' = DemandWanted
  /\ settled' = IF DemandWanted = demand THEN settled ELSE now
  /\ painter' = "wake"
  /\ UNCHANGED <<now, schedule, changes, requests, latest, subscribers, idle, idles, delivery, asking>>

Wakes ==
  /\ painter = "wake"
  /\ woken' = TRUE
  /\ painter' = "free"
  /\ UNCHANGED <<now, cadences, snapshots, failures, failed, read, changes, requests, latest,
                 subscribers, idle, idles, demand, settled, delivery, asking>>

-----------------------------------------------------------------------------
\* The samplers: LocalSampler::subscribe, and its drop.
AsksSoFar == Cardinality({c \in Clients : sampler[c].at # "new"})
             + Cardinality({c \in Clients : sampler[c].at = "dropped"}) + idles

Subscribes(c, spec) ==
  /\ sampler[c].at = "new" /\ AsksSoFar < MaxRequests
  /\ sampler' = [sampler EXCEPT ![c] = [at |-> "live", spec |-> spec, since |-> now]]
  /\ reading' = [reading EXCEPT ![c].at = "looking"]
  /\ requests' = Append(requests, [client |-> c, spec |-> spec])
  /\ UNCHANGED <<now, schedule, changes, idles, painting, delivery>>

Drops(c) ==
  /\ sampler[c].at = "live" /\ AsksSoFar < MaxRequests
  /\ sampler' = [sampler EXCEPT ![c] = [Sampler0 EXCEPT !.at = "dropped"]]
  /\ reading' = [reading EXCEPT ![c] = Reader0]
  /\ requests' = Append(requests, [client |-> c, spec |-> None])
  /\ UNCHANGED <<now, schedule, changes, idles, painting, delivery>>

\* LocalSampler::published, asked again with each sample it gives: it notes
\* the generation and looks at the slot (what is put in between may as well
\* be put before), then waits for the generation to move on from there.
NotedAfresh(reader) == [reader EXCEPT !.notified = FALSE]   \* a mutant: noted after the look
Noted(reader) == reader

Reads(c) == reading[c].at = "looking" \/ (reading[c].at = "waiting" /\ reading[c].notified)
Looks(c) ==
  /\ Reads(c)
  /\ reading' = [reading EXCEPT ![c] =
       [at |-> IF slots[c] = reading[c].held THEN "empty" ELSE "looking", held |-> slots[c], notified |-> FALSE]]
  /\ UNCHANGED <<now, schedule, changes, requests, idles, painting, delivery, sampler>>

Waits(c) ==
  /\ reading[c].at = "empty"
  /\ reading' = [reading EXCEPT ![c] = Noted([reading[c] EXCEPT !.at = "waiting"])]
  /\ UNCHANGED <<now, schedule, changes, requests, idles, painting, delivery, sampler>>

\* Feed::set_idle: an idle period is a request of nobody's.
SetsIdle(period) ==
  /\ idles < MaxIdles /\ AsksSoFar < MaxRequests
  /\ idles' = idles + 1
  /\ requests' = Append(requests, [client |-> None, spec |-> period])
  /\ UNCHANGED <<now, schedule, changes, painting, delivery, asking>>

-----------------------------------------------------------------------------
Busy == \/ CoreDue \/ changes # <<>> \/ requests # <<>> \/ painter # "free" \/ telling # {}
        \/ \E c \in Clients : Reads(c) \/ reading[c].at = "empty"

TimePasses ==
  /\ ~Busy /\ now < MaxTime
  /\ now' = now + 1
  /\ UNCHANGED <<schedule, changes, requests, idles, painting, delivery, asking>>

Painter == Publishes \/ Notifies \/ Handles \/ SetsDemand \/ Wakes
Sampler == \/ \E c \in Clients : (\E spec \in Specs : Subscribes(c, spec)) \/ Drops(c) \/ Looks(c) \/ Waits(c)
           \/ \E period \in Idles : SetsIdle(period)

Next == Ticks \/ Painter \/ Sampler \/ TimePasses
Spec == Init /\ [][Next]_vars

-----------------------------------------------------------------------------
Want == [processes : SUBSET Metrics, machine : SUBSET Metrics]
Sample == [snapshot : Nat, at : Nat, period : Periods, wanted : Want, rows : BOOLEAN]

\* Each part of the state holds what its type in the code allows.
TypeOK ==
  /\ now \in Nat /\ snapshots \in Nat /\ failures \in Nat
  /\ failed \in 0..now /\ read \in 0..now /\ settled \in 0..now
  /\ \A i \in Periods : cadences[i] # None => /\ cadences[i].on_time \in 0..now
                                              /\ cadences[i].sampled_for \in Want
  /\ woken \in BOOLEAN
  /\ demand # {} /\ demand \subseteq Specs \cup {IdleSpec(period) : period \in Idles}
  /\ \A n \in 1..Len(changes) : changes[n] \in Sample
  /\ latest \in Sample \cup {None}
  /\ \A n \in 1..Len(requests) :
       \/ requests[n].client \in Clients /\ requests[n].spec \in Specs \cup {None}
       \/ requests[n].client = None /\ requests[n].spec \in Idles
  /\ idle \in Idles /\ idles \in Nat
  /\ painter \in {"free", "demand", "wake"}
  /\ \A c \in Clients : subscribers[c] # None => /\ subscribers[c].spec \in Specs
                                                 /\ subscribers[c].delivered \in Sample \cup {None}
  /\ slots \in [Clients -> Sample \cup {None}] /\ telling \subseteq Clients
  /\ \A c \in Clients : reading[c].at \in {"off", "looking", "empty", "waiting"} /\ reading[c].held \in Sample \cup {None}
  /\ \A c \in Clients : sampler[c].at \in {"new", "live", "dropped"}

\* A sampler that asked for counters of processes is delivered samples with
\* the processes in them, and one that asked for the lists alone is too,
\* whatever else the sample was taken for.
RowsWhereAsked ==
  /\ TypeOK
  /\ \A c \in Clients : sampler[c].at = "live" /\ slots[c] # None /\ ReadsProcesses(sampler[c].spec)
                           => slots[c].rows

\* No reader waits for a sample that covers it two of its intervals, counted
\* from when it subscribed, from the sample it has or from a sample that
\* failed, whoever else comes, goes or is sampled for; and none sleeps on a
\* sample put into its slot while it looked (published).
ServedOnTime ==
  \A c \in Clients : sampler[c].at = "live" =>
    /\ now < Latest({sampler[c].since, failed, IF reading[c].held = None THEN 0 ELSE reading[c].held.at})
               + 2 * Period(sampler[c].spec)
    /\ reading[c].at = "waiting" /\ c \notin telling => reading[c].notified \/ reading[c].held = slots[c]

\* While the demand stands still the process list is never unread for longer
\* than the shortest interval that asks for it, and some interval always
\* does, even with subscribers of the machine alone only (wanted).
ListKeptUp ==
  painter = "free" =>
    \E i \in Groups : Lists(i) /\ \A j \in Groups : Lists(j) =>
      now <= Latest({read, failed, settled}) + j
=============================================================================

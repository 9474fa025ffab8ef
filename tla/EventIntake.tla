---------------------------- MODULE EventIntake ----------------------------
(***************************************************************************)
(* From the processes that start and end to the events let out             *)
(* (crates/core/src/process_events/mod.rs over assemble.rs): the sessions  *)
(* that tell of them, each late by its own, the bounded queue the ETW      *)
(* callbacks copy into, the count of what is lost, and the thread that     *)
(* assembles.  What becomes of an event let out is History's.              *)
(*                                                                         *)
(* A wake of the thread takes less than a unit of time: the clock moves    *)
(* only while it waits.                                                    *)
(***************************************************************************)
EXTENDS Assembler, Sequences, SequencesExt

CONSTANTS
  Pids,
  Queued,        \* QUEUED
  Tick,          \* TICK
  Delay,         \* the longest a session takes: the slowest flush timer
  Skew,          \* how far a half's time may be from the creation
  MinLife,       \* a pid is given again no sooner than this after it was given
  Undated,       \* BOOLEAN: exits may not tell when their process started
  MaxTime,       \* bound: the clock
  LastBirth,     \* bound: no process starts after it
  MaxBorn,       \* bound: processes
  MaxLosses      \* bound: events lost before the thread has them

\* The sessions, each of which hands over what it tells in order.
Sessions == {"kernel_process", "kernel", "task_scheduler"}
SessionOf(kind) == CASE kind \in {"created", "ended"} -> "kernel_process"
                     [] kind = "launched" -> "kernel"
                     [] kind = "scheduled" -> "task_scheduler"

ASSUME IntakeAssumption ==
  /\ Queued \in Nat \ {0} /\ Tick \in Nat \ {0} /\ Delay \in Nat /\ Skew \in Nat
  /\ MinLife \in Nat /\ Undated \in BOOLEAN
  /\ MaxTime \in Nat /\ WaitsAtMost <= MaxTime /\ LastBirth \in Nat /\ MaxBorn \in Nat /\ MaxLosses \in Nat
\* "longer than the slowest flush timer", and the times that tell the halves
\* of one start from those of the next of its pid.
ASSUME DelaysAssumption ==
  Delay + Skew < WaitsAtMost /\ Skew <= PairedWithin /\ 2 * Skew < MinLife

VARIABLES
  now,          \* the clock; starts where an undated exit is long past
  born,         \* every process so far: its pid, its birth, who started it, whether it ended
  underway,     \* events told and not handed over yet, by session
  inbox,        \* input, inbox
  full,         \* a callback found the queue full and has not counted it yet
  dropped,      \* ProcessEventsProvider.dropped
  events_lost,  \* the session's own count of events dropped
  open,         \* the provider and its sessions are there
  pc,           \* where the thread is
  wake_by,      \* when recv_timeout gives up
  asm,          \* assembler
  kernel_lost, dropped_seen, lost,  \* run's own counts
  out,          \* history: what each process was told with
  outlost,      \* history: the losses told
  missing,      \* history: the events that never reached the thread
  counted,      \* history: those of them that the session or the callback counts
  restarted     \* history: the session was started again

machine == <<now, born, underway>>
intake == <<inbox, full, dropped, events_lost, open>>
thread == <<pc, wake_by, asm, kernel_lost, dropped_seen, lost>>
ghosts == <<out, outlost, missing, counted, restarted>>
vars == <<machine, intake, thread, ghosts>>

Processes == 1..Len(born)
Untold == [start |-> None, exit |-> FALSE]

Init ==
  /\ now = WaitsAtMost
  /\ born = <<>>
  /\ underway = [s \in Sessions |-> <<>>]
  /\ inbox = <<>> /\ full = FALSE /\ dropped = 0 /\ events_lost = 0 /\ open = TRUE
  /\ pc = "wait" /\ wake_by = now + Tick /\ asm = Empty
  /\ kernel_lost = 0 /\ dropped_seen = 0 /\ lost = 0
  /\ out = [n \in 1..MaxBorn |-> Untold]
  /\ outlost = 0 /\ missing = {} /\ counted = 0 /\ restarted = FALSE

-----------------------------------------------------------------------------
(***************************************************************************)
(* The machine and its sessions.                                           *)
(***************************************************************************)
\* What is handed over must be there by its time plus the delay.
Late == \E s \in Sessions : underway[s] # <<>> /\ now >= Head(underway[s]).time + Delay
Resting == pc = "wait" /\ inbox = <<>> /\ now < wake_by

TimePasses ==
  /\ open /\ Resting /\ ~Late /\ ~full
  /\ now < MaxTime
  /\ now' = now + 1
  /\ UNCHANGED <<born, underway, intake, thread, ghosts>>

Told(under, raw) == [under EXCEPT ![SessionOf(raw.kind)] = Append(@, raw)]

\* The Task Scheduler tells of a process it started for a task; it may start
\* others, and those it tells nothing of.
Starts(pid, scheduled_by, task, launched_at, scheduled_at) ==
  LET seq == Len(born) + 1
      halves == Told(Told(underway, Created(pid, seq, now, scheduled_by)),
                     Launched(pid, launched_at, seq))
  IN  /\ open /\ seq <= MaxBorn /\ now <= LastBirth
      /\ \A n \in Processes : born[n].pid = pid => born[n].ended /\ now >= born[n].time + MinLife
      /\ task => scheduled_by
      /\ task \/ scheduled_at = now
      /\ born' = Append(born, [pid |-> pid, time |-> now, task |-> task, ended |-> FALSE])
      /\ underway' = IF task THEN Told(halves, Scheduled(pid, scheduled_at, seq)) ELSE halves
      /\ UNCHANGED <<now, intake, thread, ghosts>>

Ends(seq, dated) ==
  /\ open /\ seq \in Processes /\ ~born[seq].ended
  /\ dated \/ Undated
  /\ born' = [born EXCEPT ![seq].ended = TRUE]
  /\ underway' = Told(underway, Ended(born[seq].pid, seq, now,
                                      IF dated THEN born[seq].time ELSE 0))
  /\ UNCHANGED <<now, intake, thread, ghosts>>

Name(raw) == <<raw.kind, IF raw.kind \in {"created", "ended"} THEN raw.seq ELSE raw.of>>

\* The callback of ProcessEventsProvider::register: copies the event into the
\* queue, or counts it as dropped when the queue is full.
Delivers(s) ==
  /\ open /\ ~full /\ underway[s] # <<>> /\ Head(underway[s]).time <= now
  /\ Len(inbox) < Queued \/ Cardinality(missing) < MaxLosses
  /\ underway' = [underway EXCEPT ![s] = Tail(@)]
  /\ IF Len(inbox) < Queued
     THEN /\ inbox' = Append(inbox, Head(underway[s]))
          /\ UNCHANGED <<full, missing, counted>>
     ELSE /\ full' = TRUE
          /\ missing' = missing \cup {Name(Head(underway[s]))}
          /\ counted' = counted + 1
          /\ UNCHANGED inbox
  /\ UNCHANGED <<now, born, dropped, events_lost, open, thread, out, outlost, restarted>>

CountsDropped ==
  /\ full
  /\ full' = FALSE
  /\ dropped' = dropped + 1
  /\ UNCHANGED <<machine, inbox, events_lost, open, thread, ghosts>>

\* The kernel has no buffer left.  Only the session of Kernel-Process is
\* asked for its count.
Counted(kind) == kind \in {"created", "ended"}
KernelDrops(s) ==
  /\ open /\ underway[s] # <<>> /\ Cardinality(missing) < MaxLosses
  /\ underway' = [underway EXCEPT ![s] = Tail(@)]
  /\ missing' = missing \cup {Name(Head(underway[s]))}
  /\ IF Counted(Head(underway[s]).kind)
     THEN events_lost' = events_lost + 1 /\ counted' = counted + 1
     ELSE UNCHANGED <<events_lost, counted>>
  /\ UNCHANGED <<now, born, inbox, full, dropped, open, thread, out, outlost, restarted>>

\* ProcessEventsProvider::health, on the core's thread: a count that finds
\* the queue full is passed over, the next one carries it.  A count told
\* already says nothing new, and is left out.
Total(count) == [kind |-> "kernel_lost", total |-> count]
TellsHealth ==
  /\ open /\ Len(inbox) < Queued
  /\ Total(events_lost) \notin Range(inbox) /\ events_lost # kernel_lost
  /\ inbox' = Append(inbox, Total(events_lost))
  /\ UNCHANGED <<machine, full, dropped, events_lost, open, thread, ghosts>>

\* Supervisor::keep_sessions: a session stopped from outside counts anew;
\* one that lost nothing yet is told from no other.
Restarts ==
  /\ open /\ ~restarted /\ ~full /\ events_lost # 0
  /\ events_lost' = 0 /\ restarted' = TRUE
  /\ UNCHANGED <<machine, inbox, full, dropped, open, thread, out, outlost, missing, counted>>

\* The provider and every router it registered with are gone.
Stops ==
  /\ open /\ ~full
  /\ open' = FALSE
  /\ underway' = [s \in Sessions |-> <<>>]
  /\ missing' = missing \cup {Name(raw) : raw \in UNION {Range(underway[s]) : s \in Sessions}}
  /\ UNCHANGED <<now, born, inbox, full, dropped, events_lost, thread, out, outlost, counted, restarted>>

-----------------------------------------------------------------------------
(***************************************************************************)
(* The thread: run.                                                        *)
(***************************************************************************)
\* How many more were lost since the total told last, after which the session
\* may have counted anew.
NewlyLost(total) == IF total < kernel_lost THEN total ELSE total - kernel_lost

Takes(input) ==
  IF input.kind = "kernel_lost"
  THEN /\ lost' = lost + NewlyLost(input.total)
       /\ kernel_lost' = input.total
       /\ UNCHANGED asm
  ELSE /\ asm' \in Added(asm, input)
       /\ UNCHANGED <<lost, kernel_lost>>

\* recv_timeout, then try_recv until the queue is empty, then the count of
\* what the callbacks dropped.
Receives ==
  /\ pc \in {"wait", "drain"} /\ inbox # <<>>
  /\ Takes(Head(inbox))
  /\ inbox' = Tail(inbox)
  /\ pc' = "drain"
  /\ UNCHANGED <<machine, full, dropped, events_lost, open, wake_by, dropped_seen, ghosts>>

Seen == dropped
Counts ==
  /\ inbox = <<>>
  /\ \/ pc = "drain"
     \/ pc = "wait" /\ now >= wake_by /\ open
  /\ lost' = lost + (dropped - dropped_seen)
  /\ dropped_seen' = Seen
  /\ pc' = "release"
  /\ UNCHANGED <<machine, intake, wake_by, asm, kernel_lost, ghosts>>

\* What is let out at `ready_at` and told with it.
Half(half) == IF half = None THEN None ELSE half.of
StartsOut(ready_at) ==
  [n \in 1..MaxBorn |->
     IF \E s \in DueStarts(asm, ready_at) : s.seq = n
     THEN LET s == CHOOSE s \in DueStarts(asm, ready_at) : s.seq = n
          IN  [launched |-> Half(s.launched), task |-> Half(s.task)]
     ELSE out[n].start]
Lets(ready_at) ==
  /\ out' = [n \in 1..MaxBorn |->
               [start |-> StartsOut(ready_at)[n],
                exit |-> out[n].exit \/ \E e \in DueExits(asm, ready_at) : e.seq = n]]
  /\ asm' = Left(asm, ready_at)
  /\ outlost' = outlost + lost

Releases ==
  /\ pc = "release"
  /\ Lets(now)
  /\ lost' = 0
  /\ wake_by' = now + Tick
  /\ pc' = "wait"
  /\ UNCHANGED <<machine, intake, kernel_lost, dropped_seen, missing, counted, restarted>>

\* The queue is disconnected: everything goes out as it is.
Forever == MaxTime + PairedWithin + WaitsAtMost
Finishes ==
  /\ pc = "wait" /\ inbox = <<>> /\ ~open
  /\ Lets(Forever)
  /\ lost' = 0
  /\ pc' = "closed"
  /\ UNCHANGED <<machine, intake, wake_by, kernel_lost, dropped_seen, missing, counted, restarted>>

Machine ==
  \/ TimePasses
  \/ \E p \in Pids, by, task \in BOOLEAN, l, t \in now..(now + Skew) : Starts(p, by, task, l, t)
  \/ \E n \in Processes, dated \in BOOLEAN : Ends(n, dated)
Intake ==
  \/ \E s \in Sessions : Delivers(s) \/ KernelDrops(s)
  \/ CountsDropped \/ TellsHealth \/ Restarts \/ Stops
Thread == Receives \/ Counts \/ Releases \/ Finishes

Next == Machine \/ Intake \/ Thread
Spec == Init /\ [][Next]_vars

-----------------------------------------------------------------------------
Raws == [kind : {"created"}, pid : Pids, seq : Nat, time : Nat, scheduled_by : BOOLEAN]
        \cup [kind : {"launched", "scheduled"}, pid : Pids, time : Nat, of : Nat]
        \cup [kind : {"ended"}, pid : Pids, seq : Nat, time : Nat, since : Nat]
\* What a start goes out with: the processes that its command line and its task
\* tell of.
StartOut == [launched : Nat \cup {None}, task : Nat \cup {None}]
\* None is no event and nothing a start goes out with.
ASSUME NoneAssumption == None \notin Raws \cup StartOut

\* Each part of the state holds what its type in the code allows.
TypeOK ==
  /\ now \in Nat /\ wake_by \in Nat
  /\ \A n \in Processes : born[n] \in [pid : Pids, time : Nat, task : BOOLEAN, ended : BOOLEAN]
  /\ \A s \in Sessions : Range(underway[s]) \subseteq Raws
  /\ Range(inbox) \subseteq Raws \cup [kind : {"kernel_lost"}, total : Nat]
  /\ full \in BOOLEAN /\ open \in BOOLEAN /\ restarted \in BOOLEAN
  /\ {dropped, events_lost, kernel_lost, dropped_seen, lost, outlost, counted} \subseteq Nat
  /\ pc \in {"wait", "drain", "release", "closed"}
  /\ asm.launched \subseteq Raws /\ asm.scheduled \subseteq Raws /\ asm.exits \subseteq Raws
  /\ \A s \in asm.starts : s.launched \in Raws \cup {None} /\ s.task \in Raws \cup {None}
  /\ out \in [1..MaxBorn -> [start : StartOut \cup {None}, exit : BOOLEAN]]

\* With nothing lost of the processes of its pid, a start goes out with the
\* command line of its own process, not without one and not with one of the
\* next process of its pid, however the sessions delay them; and with its
\* task, where no other process was given the pid so soon that the halves
\* are near (add, take_nearest, release).
Lossless(pid) == \A m \in missing : born[m[2]].pid # pid
Alone(n) ==
  \A m \in Processes \ {n} :
    born[m].pid = born[n].pid => Apart(born[m].time, born[n].time) > PairedWithin + Skew
StartsAreWhole ==
  \A n \in Processes :
    out[n].start # None /\ Lossless(born[n].pid) =>
      /\ out[n].start.launched = n
      /\ Alone(n) => out[n].start.task = IF born[n].task THEN n ELSE None

\* The losses counted that are told, in the thread's hand, or counted by a
\* callback since the thread looked last (or just found, and not counted yet).
InHand == outlost + lost + (dropped - dropped_seen) + (IF full THEN 1 ELSE 0)
\* Each loss that a callback or the session counted is one of these or still
\* in the session's count, so it is told no more than once, and gets lost on
\* the way only if the session was started again before it was asked.  As the
\* thread waits or is done it has told all it took: untold for good are, at
\* the end, those a callback counted after the thread looked last and those
\* the session was not asked for again (run, health).
LossesCounted ==
  /\ InHand <= counted
  /\ ~restarted => InHand + (events_lost - kernel_lost) = counted
  /\ pc \in {"wait", "closed"} => lost = 0

\* A start or an exit the sessions told is in one place: on its way, lost,
\* pending or let out; at the end nothing is pending.  And the count of what
\* was lost goes on as LossesCounted says (add, release, run).
OnTheWay(name) ==
  \/ \E s \in Sessions : \E n \in 1..Len(underway[s]) : Name(underway[s][n]) = name
  \/ \E n \in 1..Len(inbox) : inbox[n].kind # "kernel_lost" /\ Name(inbox[n]) = name
OneOf(places) == Cardinality({n \in 1..Len(places) : places[n]}) = 1
Accounted ==
  /\ TypeOK
  /\ \A n \in Processes :
       /\ OneOf(<<OnTheWay(<<"created", n>>), <<"created", n>> \in missing,
                  \E s \in asm.starts : s.seq = n, out[n].start # None>>)
       /\ born[n].ended =>
            OneOf(<<OnTheWay(<<"ended", n>>), <<"ended", n>> \in missing,
                    \E e \in asm.exits : e.seq = n, out[n].exit>>)
  /\ pc = "closed" => asm.starts = {} /\ asm.exits = {}
  /\ LossesCounted

\* Nobody waits on an event longer than the bound and a tick: a start goes
\* out that late at most, and so does an exit that tells when its process
\* started; and none is kept once its start went out, for the starts let out
\* lately are remembered as long as an exit may wait for them (went).
OutInTime ==
  pc = "wait" =>
    /\ \A s \in asm.starts : now < s.time + WaitsAtMost + Tick
    /\ \A e \in asm.exits : e.since # 0 => now < e.since + WaitsAtMost + Tick
    /\ \A e \in asm.exits : out[e.seq].start = None

\* An exit goes out with its start or after it, unless the start was lost:
\* "a start always before its exit" (release).
StartsFirst ==
  [][\A n \in Processes :
       out'[n].exit /\ ~out[n].exit =>
         out'[n].start # None \/ <<"created", n>> \in missing]_vars
=============================================================================

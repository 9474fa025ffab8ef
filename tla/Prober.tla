------------------------------- MODULE Prober -------------------------------
(***************************************************************************)
(* A thread that probes listed processes on its own (providers/prober.rs), *)
(* and its two users, which hand it their lists on the core's tick and     *)
(* show what it last saw: Mapped (providers/mapped.rs), which tells it     *)
(* every snapshot, and VmMemory (providers/vm_memory.rs), which tells it   *)
(* one a second and asks of a reading whose it is and how old.             *)
(*                                                                         *)
(* Time is counted in ages, none further than what the code compares it    *)
(* with.  It passes when neither thread has anything to do: that a step    *)
(* other than a probe or a rest takes less than a unit is the model's.     *)
(***************************************************************************)
EXTENDS Integers

CONSTANTS
  None,
  Pids,          \* processes that are listed: of VmMemory, those of VM hosts
  Shared,        \* shared working sets, each moved from the others; one for VmMemory
  Interval,      \* the time between two ticks of the core
  Period,        \* Limits::PERIOD of VmMemory, 0 for Mapped
  Round,         \* how long a probe stands: FULL_ROUND, Limits::PERIOD
  Checked,       \* BOOLEAN: readings tell whose they are and since when, as VmMemory's
  Fresh,         \* Limits::FRESH
  Takes,         \* how long a probe may take
  REST,
  MaxProcesses,  \* bound: processes that ever run
  MaxMoves       \* bound: how often a shared working set moves

ASSUME ProberAssumption ==
  /\ Pids \subseteq Nat /\ Checked \in BOOLEAN
  /\ Interval \in Nat \ {0} /\ Round \in Nat \ {0} /\ Period \in Nat /\ Fresh \in Nat
  /\ Takes \subseteq Nat \ {0} /\ REST \in Nat
  /\ MaxProcesses \in Nat /\ MaxMoves \in Nat
  /\ Shared # {}
\* None is no record.
ASSUME NoneAssumption ==
  /\ None \notin [seq : Nat, shared : Shared, age : Nat]
  /\ None \notin [seq : Nat, of : Nat, age : Nat]
  /\ None \notin [pid : Nat, seq : Nat, shared : Shared]

VARIABLES
  running,  \* the process of each pid: its sequence number, 0 for none, and its shared set
  born,     \* processes that ever ran
  moves,    \* how often a shared set moved
  ticked,   \* how long ago the core's last tick was
  submitted,\* how long ago the last list was handed over: VmMemory.submitted
  rows,     \* the snapshot of the tick under way, None between two
  handed,   \* the newest list in the channel `lists`, None when it is empty
  worker,   \* where the thread is: the processes due, the probe under way
  seen,     \* the worker's `seen`
  probed,   \* the answers kept: Prober.probed
  dropped,  \* the Prober was dropped
  after     \* history: how many probes began since

machine == <<running, born, moves>>
core == <<ticked, submitted, rows>>
thread == <<worker, seen, probed>>
vars == <<machine, core, handed, thread, dropped, after>>

\* The worker with nothing to do.
Waiting == [at |-> "waits", due |-> {}, listed |-> None, of |-> 0, took |-> 0, left |-> 0]

\* No process has the pid.
Nobody == [seq |-> 0, shared |-> CHOOSE s \in Shared : TRUE]
Gone(r) == r.seq = 0
Older(age, most) == IF age < most THEN age + 1 ELSE age
Init ==
  /\ running = [p \in Pids |-> Nobody]
  /\ born = 0 /\ moves = 0
  /\ ticked = Interval /\ submitted = Period
  /\ rows = None
  /\ handed = None
  /\ worker = Waiting
  /\ seen = [p \in Pids |-> None] /\ probed = [p \in Pids |-> None]
  /\ dropped = FALSE /\ after = 0

-----------------------------------------------------------------------------
(***************************************************************************)
(* The machine.                                                            *)
(***************************************************************************)
Starts(p) ==
  /\ Gone(running[p]) /\ born < MaxProcesses
  /\ born' = born + 1
  /\ \E s \in Shared : running' = [running EXCEPT ![p] = [seq |-> born + 1, shared |-> s]]
  /\ UNCHANGED <<moves, core, handed, thread, dropped, after>>
Ends(p) ==
  /\ ~Gone(running[p])
  /\ running' = [running EXCEPT ![p] = Nobody]
  /\ UNCHANGED <<born, moves, core, handed, thread, dropped, after>>
Moves(p) ==
  /\ ~Gone(running[p]) /\ moves < MaxMoves
  /\ moves' = moves + 1
  /\ \E s \in Shared \ {running[p].shared} : running' = [running EXCEPT ![p].shared = s]
  /\ UNCHANGED <<born, core, handed, thread, dropped, after>>

-----------------------------------------------------------------------------
(***************************************************************************)
(* The core's tick: the snapshot is read and told, and a moment later its  *)
(* rows are filled in.                                                     *)
(***************************************************************************)
Reads ==
  /\ ~dropped /\ rows = None /\ ticked = Interval
  /\ rows' = running /\ ticked' = 0
  /\ IF submitted < Period THEN UNCHANGED <<handed, submitted>>
     ELSE handed' = running /\ submitted' = 0
  /\ UNCHANGED <<machine, thread, dropped, after>>

KeptOfPid(p) == probed[p]
\* Prober::get, and Reading::for_row of what it gives: what the tick shows of
\* a row while it is under way.
Kept(p) ==
  IF probed[p] = None \/ probed[p].seq # rows[p].seq THEN None ELSE probed[p]
Fits(answer, p) == Checked => answer.of = rows[p].seq /\ answer.age <= Fresh
Shown(p) == IF Kept(p) = None \/ ~Fits(Kept(p), p) THEN None ELSE Kept(p)
TickIsOver ==
  /\ rows # None
  /\ rows' = None
  /\ UNCHANGED <<machine, ticked, submitted, handed, thread, dropped, after>>

\* The Prober is dropped with what uses it, between two ticks.
Drops ==
  /\ ~dropped /\ rows = None
  /\ dropped' = TRUE
  /\ UNCHANGED <<machine, core, handed, thread, after>>

-----------------------------------------------------------------------------
(***************************************************************************)
(* The worker.                                                             *)
(***************************************************************************)
IsDue(last, listed) ==
  \/ last = None
  \/ last.seq # listed.seq
  \/ last.shared # listed.shared
  \/ last.age >= Round

\* What is kept of a process that is not listed any more is let go.
StillListed(list, p, kept) == kept # None /\ kept.seq = list[p].seq
Retained(kept, list) ==
  [p \in Pids |-> IF StillListed(list, p, kept[p]) THEN kept[p] ELSE None]

\* What is due of a list.
Listed(list, p) == [pid |-> p, seq |-> list[p].seq, shared |-> list[p].shared]
DueOfNew(list, last) ==
  {Listed(list, p) : p \in {q \in Pids : ~Gone(list[q]) /\ last[q] = None}}
DueOf(list, last) ==
  {Listed(list, p) : p \in {q \in Pids : ~Gone(list[q]) /\ IsDue(last[q], list[q])}}

RetainsSeen(list) == seen' = Retained(seen, list) /\ UNCHANGED probed
Retains(list) == seen' = Retained(seen, list) /\ probed' = Retained(probed, list)
TakesList ==
  /\ worker.at = "waits" /\ handed # None
  /\ Retains(handed)
  /\ worker' = [worker EXCEPT !.at = "next", !.due = DueOf(handed, Retained(seen, handed))]
  /\ handed' = None
  /\ UNCHANGED <<machine, core, dropped, after>>

\* No process is due any more, or a newer list has come.
BrokenOff == handed # None
LoopsRound ==
  /\ worker.at = "next" /\ (worker.due = {} \/ BrokenOff)
  /\ worker' = [worker EXCEPT !.at = "waits", !.due = {}]
  /\ UNCHANGED <<machine, core, handed, seen, probed, dropped, after>>

\* The next in the order of the rows; the probe opens what has the pid by
\* now, or nothing it may read.
Begins ==
  /\ worker.at = "next" /\ ~BrokenOff
  /\ \E l \in worker.due, took \in Takes :
       /\ \A other \in worker.due : l.pid <= other.pid
       /\ \E of \in {0, running[l.pid].seq} :
            worker' = [at |-> "probes", due |-> worker.due \ {l}, listed |-> l,
                       of |-> of, took |-> took, left |-> took]
  /\ after' = IF dropped THEN after + 1 ELSE 0
  /\ UNCHANGED <<machine, core, handed, seen, probed, dropped>>

Probes ==
  /\ worker.at = "probes" /\ worker.left = 0
  /\ LET l == worker.listed
     IN  /\ seen' = [seen EXCEPT ![l.pid] = [seq |-> l.seq, shared |-> l.shared,
                       age |-> IF worker.took < Round THEN worker.took ELSE Round]]
         /\ probed' = [probed EXCEPT ![l.pid] = [seq |-> l.seq, of |-> worker.of, age |-> 0]]
  /\ worker' = [Waiting EXCEPT !.at = "rests", !.due = worker.due, !.left = REST * worker.took]
  /\ UNCHANGED <<machine, core, handed, dropped, after>>

Rested ==
  /\ worker.at = "rests" /\ worker.left = 0
  /\ worker' = [worker EXCEPT !.at = "next"]
  /\ UNCHANGED <<machine, core, handed, seen, probed, dropped, after>>

HearsStopIdle == worker.at = "waits"
\* The sender of `stop` is gone: seen where the worker waits or rests.
HearsStop == worker.at \in {"waits", "rests"}
Stops ==
  /\ dropped /\ HearsStop
  /\ worker' = [Waiting EXCEPT !.at = "over"]
  /\ UNCHANGED <<machine, core, handed, seen, probed, dropped, after>>

Worker == TakesList \/ LoopsRound \/ Begins \/ Probes \/ Rested \/ Stops

-----------------------------------------------------------------------------
Busy ==
  \/ rows # None
  \/ ~dropped /\ ticked = Interval
  \/ worker.at = "next"
  \/ worker.at = "waits" /\ (handed # None \/ dropped)
  \/ worker.at = "probes" /\ worker.left = 0
  \/ worker.at = "rests" /\ (worker.left = 0 \/ dropped)
Aged(kept, most) ==
  [p \in Pids |-> IF kept[p] = None THEN None ELSE [kept[p] EXCEPT !.age = Older(@, most)]]
Passes ==
  /\ ~Busy
  /\ ticked' = Older(ticked, Interval) /\ submitted' = Older(submitted, Period)
  /\ seen' = Aged(seen, Round) /\ probed' = Aged(probed, Fresh + 1)
  /\ worker' = [worker EXCEPT !.left = IF @ = 0 THEN 0 ELSE @ - 1]
  /\ UNCHANGED <<machine, rows, handed, dropped, after>>

Machine == \E p \in Pids : Starts(p) \/ Ends(p) \/ Moves(p)
Core == Reads \/ TickIsOver
Next == Machine \/ Core \/ Drops \/ Worker \/ Passes

\* Both threads run, and time passes.
Fairness == WF_vars(Core) /\ WF_vars(Worker) /\ WF_vars(Passes)
Spec == Init /\ [][Next]_vars /\ Fairness

-----------------------------------------------------------------------------
\* What each thread keeps is what its type in the code allows.
Processes == [seq : 0..born, shared : Shared]
Listings == [pid : Pids, seq : 1..born, shared : Shared]
Sightings == [seq : 1..born, shared : Shared, age : 0..Round]
Answers == [seq : 1..born, of : 0..born, age : 0..(Fresh + 1)]
Threads ==
  [at : {"waits", "next", "probes", "rests", "over"}, due : SUBSET Listings,
   listed : Listings \cup {None}, of : 0..born, took : Takes \cup {0}, left : Nat]
\* What the worker keeps and what it answers are of the same process.
Together(last, answer) ==
  /\ (last = None) <=> (answer = None)
  /\ last # None => last.seq = answer.seq
TypeOK ==
  /\ born \in 0..MaxProcesses /\ moves \in 0..MaxMoves
  /\ ticked \in 0..Interval /\ submitted \in 0..Period
  /\ running \in [Pids -> Processes]
  /\ rows \in [Pids -> Processes] \cup {None} /\ handed \in [Pids -> Processes] \cup {None}
  /\ seen \in [Pids -> Sightings \cup {None}] /\ probed \in [Pids -> Answers \cup {None}]
  /\ \A p \in Pids : Together(seen[p], probed[p])
  /\ worker \in Threads
  /\ worker.at = "probes" => worker.listed # None

\* What is shown of a process that still runs was read from that process,
\* whoever had its pid before: a list is old when it is worked on, and the
\* pid is opened when its turn comes (work, get).
ShownIsOwn ==
  rows # None =>
    \A p \in Pids :
      Shown(p) # None /\ rows[p].seq = running[p].seq => Shown(p).of \in {0, rows[p].seq}

\* Dropped, the worker ends after the process it is probing (Prober): one more
\* probe begins at most, of a worker that was about to, and then it is over.
EndsWhenDropped ==
  /\ [](after <= 1)
  /\ dropped ~> worker.at = "over"

\* "Probes the processes it is handed whenever is_due says so" (prober.rs): a
\* process that runs and is due is probed, or is due no more, in the end.
Wants(p) == ~dropped /\ ~Gone(running[p]) /\ IsDue(seen[p], running[p])
DueIsProbed == \A p \in Pids : Wants(p) ~> ~Wants(p)
=============================================================================

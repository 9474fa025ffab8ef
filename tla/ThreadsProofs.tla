---------------------------- MODULE ThreadsProofs ----------------------------
(***************************************************************************)
(* What holds of the two threads that read beside the core: a Prober, for  *)
(* any pids, lists and durations, and the watcher of ServiceWatch, which   *)
(* misses no state and leaves no status behind however often the service   *)
(* changes, the client lags and somebody follows, and however long the     *)
(* painter's channel gets.                                                 *)
(***************************************************************************)
EXTENDS Prober, ServiceWatch, TLAPS

USE ProberAssumption

\* A process that has no pid is a process of the type.
LEMMA NobodyType ==
  /\ Nobody \in [seq : {0}, shared : Shared]
  /\ \A n \in Nat : Nobody \in [seq : 0..n, shared : Shared]
<1>1. (CHOOSE s \in Shared : TRUE) \in Shared
  OBVIOUS
<1>2. QED
  BY <1>1 DEF Nobody

\* An age that grows stays within what it is compared with.
LEMMA OlderType ==
  ASSUME NEW most \in Nat, NEW age \in 0..most
  PROVE  Older(age, most) \in 0..most
BY DEF Older

\* What is due of a list are listings of it.
LEMMA DueType ==
  ASSUME NEW list \in [Pids -> [seq : 0..born, shared : Shared]], NEW before, born \in Nat
  PROVE  DueOf(list, before) \subseteq Listings
<1>1. ASSUME NEW p \in Pids, ~Gone(list[p])
      PROVE  Listed(list, p) \in Listings
  <2>1. list[p] \in [seq : 0..born, shared : Shared]
    OBVIOUS
  <2>2. list[p].seq \in 1..born
    BY <1>1, <2>1 DEF Gone
  <2>3. QED
    BY <2>1, <2>2 DEF Listed, Listings
<1>2. QED
  BY <1>1 DEF DueOf

\* The state is well typed from the start.
LEMMA TypeInit == Init => TypeOK
<1> SUFFICES ASSUME Init PROVE TypeOK
  OBVIOUS
<1>1. running \in [Pids -> Processes]
  BY NobodyType DEF Init, Processes
<1>2. QED
  BY <1>1 DEF Init, TypeOK, Waiting, Threads, Processes, Listings, Together

\* The part of the types the lemmas below need most.
LEMMA BornType == TypeOK => born \in Nat /\ running \in [Pids -> Processes]
BY DEF TypeOK

\* None is neither a listing nor an answer.
LEMMA NoneType ==
  ASSUME born \in Nat
  PROVE  None \notin Listings /\ None \notin Sightings /\ None \notin Answers
<1>1. Listings \subseteq [pid : Nat, seq : Nat, shared : Shared]
  <2>1. Pids \subseteq Nat /\ 1..born \subseteq Nat
    BY ProberAssumption
  <2>2. QED
    BY <2>1 DEF Listings
<1>2. Sightings \subseteq [seq : Nat, shared : Shared, age : Nat]
  BY DEF Sightings
<1>3. Answers \subseteq [seq : Nat, of : Nat, age : Nat]
  BY DEF Answers
<1>4. QED
  BY <1>1, <1>2, <1>3, NoneAssumption

\* What is known of processes stays of its type when another is born.
LEMMA TypeGrows ==
  ASSUME TypeOK, born' \in Nat, born <= born', born' \in 0..MaxProcesses,
         running' \in [Pids -> Processes'],
         UNCHANGED <<moves, ticked, submitted, rows, handed, seen, probed, worker>>
  PROVE  TypeOK'
<1>1. /\ Processes \subseteq Processes' /\ Listings \subseteq Listings'
      /\ Sightings \subseteq Sightings' /\ Answers \subseteq Answers'
  BY DEF TypeOK, Processes, Listings, Sightings, Answers
<1>2. /\ rows' \in [Pids -> Processes'] \cup {None}
      /\ handed' \in [Pids -> Processes'] \cup {None}
  BY <1>1 DEF TypeOK
<1>3. /\ seen' \in [Pids -> Sightings' \cup {None}]
      /\ probed' \in [Pids -> Answers' \cup {None}]
      /\ \A p \in Pids : Together(seen'[p], probed'[p])
  BY <1>1 DEF TypeOK
<1>4. worker' \in Threads'
  <2>1. worker \in Threads /\ 0..born \subseteq 0..born'
    BY DEF TypeOK
  <2>2. QED
    BY <1>1, <2>1 DEF Threads
<1>5. QED
  BY <1>2, <1>3, <1>4 DEF TypeOK

\* The steps of the machine keep the types.
LEMMA TypeMachine ==
  ASSUME TypeOK, Machine
  PROVE  TypeOK'
<1>0. born \in Nat
  BY DEF TypeOK
<1>1. ASSUME NEW p \in Pids, Starts(p)
      PROVE  TypeOK'
  <2>1. PICK s \in Shared : running' = [running EXCEPT ![p] = [seq |-> born + 1, shared |-> s]]
    BY <1>1 DEF Starts
  <2>2. /\ born' = born + 1 /\ born' \in 0..MaxProcesses
        /\ UNCHANGED <<moves, ticked, submitted, rows, handed, seen, probed, worker>>
    BY <1>0, <1>1 DEF Starts, core, thread, TypeOK
  <2>3. Processes \subseteq Processes' /\ [seq |-> born + 1, shared |-> s] \in Processes'
    BY <1>0, <2>2 DEF Processes
  <2>4. running' \in [Pids -> Processes']
    BY <2>1, <2>3 DEF TypeOK
  <2>5. QED
    BY <1>0, <2>2, <2>4, TypeGrows
<1>2. ASSUME NEW p \in Pids, Ends(p)
      PROVE  TypeOK'
  <2>1. UNCHANGED <<born, moves, ticked, submitted, rows, handed, seen, probed, worker>>
    BY <1>2 DEF Ends, core, thread
  <2>2. Nobody \in Processes'
    BY <1>0, <2>1, NobodyType DEF Processes
  <2>3. running' \in [Pids -> Processes']
    BY <1>2, <2>1, <2>2 DEF TypeOK, Ends, Processes
  <2>4. QED
    BY <1>0, <2>1, <2>3, TypeGrows DEF TypeOK
<1>3. ASSUME NEW p \in Pids, Moves(p)
      PROVE  TypeOK'
  <2>1. UNCHANGED <<born, ticked, submitted, rows, handed, seen, probed, worker>> /\ moves' \in 0..MaxMoves
    BY <1>3 DEF Moves, core, thread, TypeOK
  <2>2. PICK s \in Shared : running' = [running EXCEPT ![p].shared = s]
    BY <1>3 DEF Moves
  <2>3. running' \in [Pids -> Processes']
    BY <2>1, <2>2 DEF TypeOK, Processes
  <2>4. QED
    BY <2>1, <2>3 DEF TypeOK, Threads, Processes, Listings, Sightings, Answers
<1>4. QED
  BY <1>1, <1>2, <1>3 DEF Machine

\* So do those of the tick, and the drop.
LEMMA TypeCore ==
  ASSUME TypeOK, Core \/ Drops
  PROVE  TypeOK'
<1>1. UNCHANGED <<running, born, moves, seen, probed, worker>>
  BY DEF Core, Reads, TickIsOver, Drops, machine, thread
<1>2. /\ Processes' = Processes /\ Listings' = Listings
      /\ Sightings' = Sightings /\ Answers' = Answers /\ Threads' = Threads
  BY <1>1 DEF Processes, Listings, Sightings, Answers, Threads
<1>3. /\ rows' \in [Pids -> Processes] \cup {None} /\ handed' \in [Pids -> Processes] \cup {None}
      /\ ticked' \in 0..Interval /\ submitted' \in 0..Period
  <2>1. CASE Reads
    BY <2>1 DEF Reads, TypeOK
  <2>2. CASE TickIsOver
    BY <2>2 DEF TickIsOver, TypeOK
  <2>3. CASE Drops
    BY <2>3 DEF Drops, core, TypeOK
  <2>4. QED
    BY <2>1, <2>2, <2>3 DEF Core
<1>4. QED
  BY <1>1, <1>2, <1>3 DEF TypeOK

\* A step of the worker that leaves what the machine and the core keep.
LEMMA TypeOfWorker ==
  ASSUME TypeOK, UNCHANGED <<machine, core>>,
         handed' \in [Pids -> Processes] \cup {None},
         seen' \in [Pids -> Sightings \cup {None}], probed' \in [Pids -> Answers \cup {None}],
         \A p \in Pids : Together(seen'[p], probed'[p]),
         worker' \in Threads, worker'.at = "probes" => worker'.listed # None
  PROVE  TypeOK'
BY DEF TypeOK, machine, core, Threads, Processes, Listings, Sightings, Answers

\* So does taking a list: what is retained is of the types it was.
LEMMA TypeTakesList ==
  ASSUME TypeOK, TakesList
  PROVE  TypeOK'
<1>1. handed \in [Pids -> [seq : 0..born, shared : Shared]] /\ born \in Nat
  BY DEF TakesList, TypeOK, Processes
<1>2. seen' \in [Pids -> Sightings \cup {None}] /\ probed' \in [Pids -> Answers \cup {None}]
  BY DEF TakesList, Retains, Retained, TypeOK
<1>3. ASSUME NEW p \in Pids
      PROVE  Together(seen'[p], probed'[p])
  <2>1. Together(seen[p], probed[p])
    BY DEF TypeOK
  <2>2. seen'[p] = IF StillListed(handed, p, seen[p]) THEN seen[p] ELSE None
    BY DEF TakesList, Retains, Retained
  <2>3. probed'[p] = IF StillListed(handed, p, probed[p]) THEN probed[p] ELSE None
    BY DEF TakesList, Retains, Retained
  <2>4. QED
    BY <2>1, <2>2, <2>3 DEF StillListed, Together
<1>4. DueOf(handed, Retained(seen, handed)) \subseteq Listings
  BY <1>1, DueType
<1>5. worker' \in Threads /\ worker'.at = "next"
  BY <1>4 DEF TakesList, TypeOK, Threads
<1>6. handed' = None /\ UNCHANGED <<machine, core>>
  BY DEF TakesList
<1>7. QED
  BY <1>2, <1>3, <1>5, <1>6, TypeOfWorker

\* So does beginning a probe.
LEMMA TypeBegins ==
  ASSUME TypeOK, Begins
  PROVE  TypeOK'
<1>0. PICK l \in worker.due, took \in Takes :
        \E of \in {0, running[l.pid].seq} :
          worker' = [at |-> "probes", due |-> worker.due \ {l}, listed |-> l,
                     of |-> of, took |-> took, left |-> took]
  BY DEF Begins
<1>1. PICK of \in {0, running[l.pid].seq} :
        worker' = [at |-> "probes", due |-> worker.due \ {l}, listed |-> l,
                   of |-> of, took |-> took, left |-> took]
  BY <1>0
<1>2. l \in Listings /\ worker.due \subseteq Listings
  BY DEF TypeOK, Threads
<1>3. of \in 0..born
  <2>1. l.pid \in Pids
    BY <1>2 DEF Listings
  <2>2. running[l.pid] \in Processes /\ born \in Nat
    BY <2>1, BornType
  <2>3. QED
    BY <2>2 DEF Processes
<1>4. took \in Nat
  OBVIOUS
<1>5. UNCHANGED <<machine, core>> /\ handed' = handed /\ seen' = seen /\ probed' = probed
  BY DEF Begins
<1>6. worker' \in Threads
  BY <1>1, <1>2, <1>3, <1>4 DEF Threads
<1>9. worker'.listed # None
  BY <1>1, <1>2, BornType, NoneType
<1>7. /\ handed' \in [Pids -> Processes] \cup {None}
      /\ seen' \in [Pids -> Sightings \cup {None}] /\ probed' \in [Pids -> Answers \cup {None}]
      /\ \A p \in Pids : Together(seen'[p], probed'[p])
  BY <1>5 DEF TypeOK
<1>8. QED
  BY <1>5, <1>6, <1>7, <1>9, TypeOfWorker

\* So does a probe: what is kept and what is answered is of one process.
LEMMA TypeProbes ==
  ASSUME TypeOK, Probes
  PROVE  TypeOK'
<1> DEFINE l == worker.listed
           sight == [seq |-> l.seq, shared |-> l.shared,
                    age |-> IF worker.took < Round THEN worker.took ELSE Round]
           answer == [seq |-> l.seq, of |-> worker.of, age |-> 0]
<1>1. l \in Listings /\ born \in Nat /\ worker.took \in Nat
  BY DEF Probes, TypeOK, Threads
<1>2. sight \in Sightings /\ answer \in Answers
  BY <1>1 DEF Listings, TypeOK, Threads, Sightings, Answers
<1>3. sight # None /\ answer # None
  <2> HIDE DEF sight, answer
  <2>2. QED
    BY <1>1, <1>2, NoneType
<1>4. sight.seq = answer.seq
  OBVIOUS
<1>5. seen' = [seen EXCEPT ![l.pid] = sight] /\ probed' = [probed EXCEPT ![l.pid] = answer]
  BY DEF Probes
<1>6. worker' \in Threads /\ worker'.at = "rests"
  <2>1. worker \in Threads /\ REST * worker.took \in Nat
    BY <1>1 DEF TypeOK
  <2>2. worker' = [at |-> "rests", due |-> worker.due, listed |-> None, of |-> 0, took |-> 0,
                   left |-> REST * worker.took]
    BY DEF Probes, Waiting
  <2>3. worker.due \in SUBSET Listings /\ 0 \in 0..born
    BY <1>1, <2>1 DEF Threads
  <2>4. QED
    BY <2>1, <2>2, <2>3 DEF Threads
<1> HIDE DEF sight, answer, l
<1>7. /\ seen' \in [Pids -> Sightings \cup {None}]
      /\ probed' \in [Pids -> Answers \cup {None}]
  BY <1>2, <1>5 DEF TypeOK
<1>8. \A p \in Pids : Together(seen'[p], probed'[p])
  <2>1. \A p \in Pids : Together(seen[p], probed[p])
    BY DEF TypeOK
  <2>2. seen \in [Pids -> Sightings \cup {None}] /\ probed \in [Pids -> Answers \cup {None}]
    BY DEF TypeOK
  <2>3. QED
    BY <1>3, <1>4, <1>5, <2>1, <2>2 DEF Together
<1>9. QED
  BY <1>1, <1>6, <1>7, <1>8, TypeOfWorker DEF Probes, TypeOK

\* The steps of the worker that keep what it has seen.
LEMMA TypeMoves ==
  ASSUME TypeOK, LoopsRound \/ Rested \/ Stops
  PROVE  TypeOK'
<1>1. worker' \in Threads /\ worker'.at # "probes"
  <2>1. CASE LoopsRound
    BY <2>1 DEF LoopsRound, TypeOK, Threads
  <2>2. CASE Rested
    BY <2>2 DEF Rested, TypeOK, Threads
  <2>3. CASE Stops
    BY <2>3 DEF Stops, Waiting, TypeOK, Threads
  <2>4. QED
    BY <2>1, <2>2, <2>3
<1>2. UNCHANGED <<machine, core>> /\ handed' = handed /\ seen' = seen /\ probed' = probed
  BY DEF LoopsRound, Rested, Stops
<1>3. /\ handed' \in [Pids -> Processes] \cup {None}
      /\ seen' \in [Pids -> Sightings \cup {None}] /\ probed' \in [Pids -> Answers \cup {None}]
      /\ \A p \in Pids : Together(seen'[p], probed'[p])
  BY <1>2 DEF TypeOK
<1>4. QED
  BY <1>1, <1>2, <1>3, TypeOfWorker

\* What is kept, older.
LEMMA AgedType ==
  ASSUME TypeOK
  PROVE  /\ Aged(seen, Round) \in [Pids -> Sightings \cup {None}]
         /\ Aged(probed, Fresh + 1) \in [Pids -> Answers \cup {None}]
         /\ \A p \in Pids : Together(Aged(seen, Round)[p], Aged(probed, Fresh + 1)[p])
<1>0. born \in Nat
  BY DEF TypeOK
<1>1. ASSUME NEW p \in Pids, seen[p] # None
      PROVE  /\ [seen[p] EXCEPT !.age = Older(@, Round)] \in Sightings
             /\ [seen[p] EXCEPT !.age = Older(@, Round)].seq = seen[p].seq
  <2>1. seen[p] \in Sightings
    BY <1>1 DEF TypeOK
  <2>2. Older(seen[p].age, Round) \in 0..Round
    BY <2>1, OlderType DEF Sightings
  <2>3. QED
    BY <2>1, <2>2 DEF Sightings
<1>2. ASSUME NEW p \in Pids, probed[p] # None
      PROVE  /\ [probed[p] EXCEPT !.age = Older(@, Fresh + 1)] \in Answers
             /\ [probed[p] EXCEPT !.age = Older(@, Fresh + 1)].seq = probed[p].seq
             /\ [probed[p] EXCEPT !.age = Older(@, Fresh + 1)].of = probed[p].of
  <2>1. probed[p] \in Answers /\ Fresh + 1 \in Nat
    BY <1>2 DEF TypeOK
  <2>2. Older(probed[p].age, Fresh + 1) \in 0..(Fresh + 1)
    BY <2>1, OlderType DEF Answers
  <2>3. QED
    BY <2>1, <2>2 DEF Answers
<1>3. None \notin Sightings /\ None \notin Answers
  BY <1>0, NoneType
<1>4. \A p \in Pids : Together(seen[p], probed[p])
  BY DEF TypeOK
<1>5. QED
  BY <1>1, <1>2, <1>3, <1>4 DEF Aged, Together

\* So does time: what is kept gets no older than it is told apart.
LEMMA TypePasses ==
  ASSUME TypeOK, Passes
  PROVE  TypeOK'
<1>1. UNCHANGED <<machine, rows, handed>>
  BY DEF Passes
<1>2. /\ Processes' = Processes /\ Listings' = Listings
      /\ Sightings' = Sightings /\ Answers' = Answers /\ Threads' = Threads
  BY <1>1 DEF machine, Processes, Listings, Sightings, Answers, Threads
<1>3. ticked' \in 0..Interval /\ submitted' \in 0..Period
  BY OlderType DEF Passes, TypeOK
<1>4. /\ seen' \in [Pids -> Sightings \cup {None}] /\ probed' \in [Pids -> Answers \cup {None}]
      /\ \A p \in Pids : Together(seen'[p], probed'[p])
  BY AgedType DEF Passes
<1>5. worker' \in Threads /\ worker'.at = worker.at /\ worker'.listed = worker.listed
  BY DEF Passes, TypeOK, Threads
<1>6. QED
  BY <1>1, <1>2, <1>3, <1>4, <1>5 DEF TypeOK, machine

\* A step of any kind keeps the types.
LEMMA TypeNext == TypeOK /\ [Next]_vars => TypeOK'
<1> SUFFICES ASSUME TypeOK, [Next]_vars PROVE TypeOK'
  OBVIOUS
<1>1. CASE Machine
  BY <1>1, TypeMachine
<1>2. CASE Core \/ Drops
  BY <1>2, TypeCore
<1>3. CASE Worker
  BY <1>3, TypeTakesList, TypeMoves, TypeBegins, TypeProbes DEF Worker
<1>4. CASE Passes
  BY <1>4, TypePasses
<1>5. CASE UNCHANGED vars
  BY <1>5 DEF vars, machine, core, thread, TypeOK, Together,
              Processes, Listings, Sightings, Answers, Threads
<1>6. QED
  BY <1>1, <1>2, <1>3, <1>4, <1>5 DEF Next

\* Whatever runs and however long a probe takes, the rows, the list handed
\* over, the thread and what it keeps are what their types in the code allow:
\* a pid is seen and answered for together, of the same process (Prober).
THEOREM TypeCorrect == Spec => []TypeOK
BY TypeInit, TypeNext, PTL DEF Spec

-----------------------------------------------------------------------------
(***************************************************************************)
(* An answer of the process that still has the pid was read from it, and   *)
(* so will be the one the thread is probing for: between the listing and   *)
(* the probe a pid may go to another process, never back to the first.     *)
(***************************************************************************)
ReadFrom(p, seq, of) == seq = running[p].seq => of \in {0, seq}
AnswersOwn == \A p \in Pids : probed[p] # None => ReadFrom(p, probed[p].seq, probed[p].of)
ProbeOwn ==
  worker.at = "probes" => ReadFrom(worker.listed.pid, worker.listed.seq, worker.of)
IInv == TypeOK /\ AnswersOwn /\ ProbeOwn

\* What is shown is one of the answers.
LEMMA ShownFollows == IInv => ShownIsOwn
<1> SUFFICES ASSUME IInv, NEW p \in Pids, Shown(p) # None, rows[p].seq = running[p].seq
             PROVE  Shown(p).of \in {0, rows[p].seq}
  BY DEF ShownIsOwn
<1>1. Shown(p) = probed[p] /\ probed[p] # None /\ probed[p].seq = rows[p].seq
  BY DEF Shown, Kept
<1>2. QED
  BY <1>1 DEF IInv, AnswersOwn, ReadFrom

\* The invariant holds at first.
LEMMA OwnInit == Init => IInv
BY TypeInit DEF Init, IInv, AnswersOwn, ProbeOwn, Waiting

\* Who has a pid changes to none or to a process never seen before.
LEMMA OwnMachine ==
  ASSUME IInv, Machine
  PROVE  AnswersOwn' /\ ProbeOwn'
<1>1. /\ UNCHANGED <<seen, probed, worker>>
      /\ \A p \in Pids : running'[p].seq \in {running[p].seq, 0, born + 1}
  <2>1. ASSUME NEW q \in Pids, Starts(q)
        PROVE  \A p \in Pids : running'[p].seq \in {running[p].seq, born + 1}
    BY <2>1 DEF Starts, IInv, TypeOK
  <2>2. ASSUME NEW q \in Pids, Ends(q)
        PROVE  \A p \in Pids : running'[p].seq \in {running[p].seq, 0}
    BY <2>2 DEF Ends, Nobody, IInv, TypeOK
  <2>3. ASSUME NEW q \in Pids, Moves(q)
        PROVE  \A p \in Pids : running'[p].seq = running[p].seq
    BY <2>3 DEF Moves, IInv, TypeOK, Processes
  <2>4. UNCHANGED <<seen, probed, worker>>
    BY DEF Machine, Starts, Ends, Moves, thread
  <2>5. QED
    BY <2>1, <2>2, <2>3, <2>4 DEF Machine
<1>2. born \in Nat
  BY BornType DEF IInv
<1>3. ASSUME NEW p \in Pids, NEW seq \in 1..born, NEW of, ReadFrom(p, seq, of)
      PROVE  ReadFrom(p, seq, of)'
  <2>1. running'[p].seq \in {running[p].seq, 0, born + 1}
    BY <1>1
  <2>2. seq # 0 /\ seq # born + 1
    BY <1>2
  <2>3. QED
    BY <1>3, <2>1, <2>2 DEF ReadFrom
<1>4. AnswersOwn'
  <2>1. ASSUME NEW p \in Pids, probed[p] # None
        PROVE  probed[p].seq \in 1..born
    BY <2>1 DEF IInv, TypeOK, Answers
  <2>2. QED
    BY <1>1, <1>3, <2>1 DEF IInv, AnswersOwn, ReadFrom
<1>5. ProbeOwn'
  <2>1. worker.at = "probes" => worker.listed.pid \in Pids /\ worker.listed.seq \in 1..born
    BY DEF IInv, TypeOK, Threads, Listings
  <2>2. QED
    BY <1>1, <1>3, <2>1 DEF IInv, ProbeOwn, ReadFrom
<1>6. QED
  BY <1>4, <1>5

\* The pid is opened when its turn comes, and what has it then is what is read.
LEMMA OwnWorker ==
  ASSUME IInv, Worker
  PROVE  AnswersOwn' /\ ProbeOwn'
<1>0. running' = running
  BY DEF Worker, TakesList, LoopsRound, Begins, Probes, Rested, Stops, machine
<1>1. CASE TakesList
  <2>1. worker'.at = "next"
    BY <1>1 DEF TakesList, IInv, TypeOK, Threads
  <2>2. \A p \in Pids : probed'[p] \in {probed[p], None}
    BY <1>1 DEF TakesList, Retains, Retained
  <2>3. QED
    BY <1>0, <2>1, <2>2 DEF IInv, AnswersOwn, ProbeOwn, ReadFrom
<1>2. CASE LoopsRound \/ Rested \/ Stops
  <2>1. worker'.at # "probes" /\ probed' = probed
    BY <1>2 DEF LoopsRound, Rested, Stops, Waiting, IInv, TypeOK, Threads
  <2>2. QED
    BY <1>0, <2>1 DEF IInv, AnswersOwn, ProbeOwn, ReadFrom
<1>3. CASE Begins
  <2>1. PICK l \in worker.due, took \in Takes :
          \E of \in {0, running[l.pid].seq} :
            worker' = [at |-> "probes", due |-> worker.due \ {l}, listed |-> l,
                       of |-> of, took |-> took, left |-> took]
    BY <1>3 DEF Begins
  <2>2. worker'.listed = l /\ worker'.of \in {0, running[l.pid].seq} /\ probed' = probed
    BY <1>3, <2>1 DEF Begins
  <2>3. QED
    BY <1>0, <2>2 DEF IInv, AnswersOwn, ProbeOwn, ReadFrom
<1>4. CASE Probes
  <2> DEFINE l == worker.listed
             answer == [seq |-> l.seq, of |-> worker.of, age |-> 0]
  <2>1. l.pid \in Pids /\ probed' = [probed EXCEPT ![l.pid] = answer] /\ worker'.at = "rests"
    BY <1>4 DEF Probes, Waiting, IInv, TypeOK, Threads, Listings
  <2>2. ReadFrom(l.pid, answer.seq, answer.of)
    BY <1>4 DEF Probes, IInv, ProbeOwn
  <2> HIDE DEF answer
  <2>3. \A p \in Pids : probed'[p] = IF p = l.pid THEN answer ELSE probed[p]
    BY <2>1 DEF IInv, TypeOK
  <2>4. QED
    BY <1>0, <2>1, <2>2, <2>3 DEF IInv, AnswersOwn, ProbeOwn, ReadFrom
<1>5. QED
  BY <1>1, <1>2, <1>3, <1>4 DEF Worker

\* Time passes: an answer gets older and stays what it is.
LEMMA OwnPasses ==
  ASSUME IInv, Passes
  PROVE  AnswersOwn' /\ ProbeOwn'
<1>1. UNCHANGED running /\ probed' = Aged(probed, Fresh + 1)
  BY DEF Passes, machine
<1>2. ASSUME NEW p \in Pids, probed'[p] # None
      PROVE  probed[p] # None /\ probed'[p].seq = probed[p].seq /\ probed'[p].of = probed[p].of
  <2>1. probed[p] # None /\ probed'[p] = [probed[p] EXCEPT !.age = Older(@, Fresh + 1)]
    BY <1>1, <1>2 DEF Aged
  <2>2. probed[p] \in Answers
    BY <2>1 DEF IInv, TypeOK
  <2>3. QED
    BY <2>1, <2>2 DEF Answers
<1>3. worker'.at = worker.at /\ worker'.listed = worker.listed /\ worker'.of = worker.of
  BY DEF Passes, IInv, TypeOK, Threads
<1>4. QED
  BY <1>1, <1>2, <1>3 DEF IInv, AnswersOwn, ProbeOwn, ReadFrom

\* Every step keeps it.
LEMMA OwnNext == IInv /\ [Next]_vars => IInv'
<1> SUFFICES ASSUME IInv, [Next]_vars PROVE IInv'
  OBVIOUS
<1>1. TypeOK'
  BY TypeNext DEF IInv
<1>2. AnswersOwn' /\ ProbeOwn'
  <2>1. CASE Machine
    BY <2>1, OwnMachine
  <2>2. CASE Core \/ Drops
    BY <2>2 DEF Core, Reads, TickIsOver, Drops, machine, thread,
                IInv, AnswersOwn, ProbeOwn, ReadFrom
  <2>3. CASE Worker
    BY <2>3, OwnWorker
  <2>4. CASE Passes
    BY <2>4, OwnPasses
  <2>5. CASE UNCHANGED vars
    BY <2>5 DEF vars, machine, thread, IInv, AnswersOwn, ProbeOwn, ReadFrom
  <2>6. QED
    BY <2>1, <2>2, <2>3, <2>4, <2>5 DEF Next
<1>3. QED
  BY <1>1, <1>2 DEF IInv

\* What is shown of a process that still runs was read from it, whatever was
\* handed over and however late the probe came (Prober::get, work).
THEOREM ShownOwn == Spec => []ShownIsOwn
<1>1. Spec => []IInv
  BY OwnInit, OwnNext, PTL DEF Spec
<1>2. QED
  BY <1>1, ShownFollows, PTL

-----------------------------------------------------------------------------
(***************************************************************************)
(* The watcher's thread.                                                   *)
(***************************************************************************)
Events == [kind : {"scan", "status"}, status : Status \cup {Absent}]

\* The types the actions preserve: TypeOK without what relates its parts.
Typed ==
  /\ actual \in Status \cup {Absent} /\ changes \in Nat /\ runs \in Nat
  /\ lags \in Nat /\ follows \in Nat
  /\ armed \in States \cup {Absent, Nothing}
  /\ fired \in [code : Codes, status : Status \cup {Absent}] \cup {Absent}
  /\ wanted \in BOOLEAN /\ watched \in BOOLEAN /\ service \in BOOLEAN
  /\ pc \in {"wait", "take", "notified", "arm", "poll", "sweep"}
  /\ last \in Status \cup {Absent} /\ followed \in Status \cup {Absent}
  /\ shown \in Status \cup {Absent}
  /\ scanning \in [status : Status \cup {Absent}] \cup {Absent}
  /\ inbox \in Seq(Events)

\* A notification is armed or delivered, never both, and of a service that is
\* watched, as is one about to be armed again.  A change says to which state.
Noticed ==
  /\ armed # Absent \/ fired # Absent => watched
  /\ armed = Absent \/ fired = Absent
  /\ pc = "arm" => watched
  /\ fired # Absent /\ fired.code = "changed" => fired.status # Absent

\* What is armed leaves out the state told last, which the service is in.
LeavesOutLast ==
  armed # Absent => /\ last # Absent /\ actual # Absent
                  /\ armed = last.state /\ actual.state = last.state

\* Of a service that is not watched, the status on its way that comes last is
\* none, and where none is on its way the picture follows none.
IsLast(n) ==
  /\ inbox[n].kind = "status"
  /\ \A k \in 1..Len(inbox) : k > n => inbox[k].kind = "scan"
LastIsNone == \A n \in 1..Len(inbox) : IsLast(n) => inbox[n].status = Absent
Unsaid == (\A n \in 1..Len(inbox) : inbox[n].kind = "scan") => followed = Absent
Untold == ~watched => LastIsNone /\ Unsaid

WatchInv == Typed /\ Noticed /\ LeavesOutLast /\ Untold

-----------------------------------------------------------------------------
\* Arming a service that runs in a state that was told leaves that state out.
LEMMA ArmsFacts ==
  ASSUME Typed, NEW status \in Status \cup {Absent}, Arms(status)
  PROVE  /\ armed' \in States \cup {Absent, Nothing}
         /\ fired' \in [code : Codes, status : Status \cup {Absent}] \cup {Absent}
         /\ service' \in BOOLEAN
         /\ armed' = Absent \/ fired' = Absent
         /\ fired' # Absent /\ fired'.code = "changed" => fired'.status # Absent
         /\ armed' # Absent => /\ status # Absent /\ actual # Absent
                             /\ armed' = status.state /\ actual.state = status.state
         /\ actual = Absent => armed' = Absent /\ fired' = Absent
<1>1. CASE actual = Absent
  BY <1>1 DEF Arms, Typed
<1>2. CASE actual # Absent
  <2>0. actual \in Status /\ actual.state \in States
    BY <1>2 DEF Typed, Status
  <2>1. CASE actual.state # Excluded(status)
    <3>1. armed' = Absent /\ fired' = Notice("changed", actual) /\ service' = TRUE
      BY <1>2, <2>1 DEF Arms
    <3>2. fired' = [code |-> "changed", status |-> actual]
      BY <3>1 DEF Notice
    <3> QED BY <1>2, <2>0, <3>1, <3>2 DEF Codes
  <2>2. CASE actual.state = Excluded(status)
    <3>1. armed' = Excluded(status) /\ fired' = Absent /\ service' = TRUE
      BY <1>2, <2>2 DEF Arms
    <3>2. status # Absent
      BY <2>0, <2>2 DEF Excluded, Nothing, States
    <3> QED BY <1>2, <2>0, <2>2, <3>1, <3>2 DEF Excluded
  <2> QED BY <2>1, <2>2
<1> QED BY <1>1, <1>2

\* A status dispatched is the one told last, or the same state and run.
LEMMA DispatchesFacts ==
  ASSUME Typed, NEW status \in Status, Dispatches(status)
  PROVE  /\ last' \in Status /\ last'.state = status.state
         /\ inbox' \in Seq(Events)
<1>1. CASE Same(last, status)
  BY <1>1 DEF Dispatches, Same, Typed
<1>2. CASE ~Same(last, status)
  <2>1. last' = status /\ inbox' = Append(inbox, [kind |-> "status", status |-> status])
    BY <1>2 DEF Dispatches
  <2>2. [kind |-> "status", status |-> status] \in Events
    BY DEF Events
  <2>3. inbox' \in Seq(Events)
    BY <2>1, <2>2 DEF Typed
  <2> QED BY <2>1, <2>3
<1> QED BY <1>1, <1>2

\* The channel and what is followed stay, and so does what they say of a
\* service that is not watched.
LEMMA UntoldStays ==
  ASSUME Untold, inbox' = inbox, followed' = followed, ~watched' => ~watched
  PROVE  Untold'
BY DEF Untold, LastIsNone, Unsaid, IsLast

\* A scan put behind leaves the last status the last.
LEMMA UntoldScan ==
  ASSUME Untold, Typed, NEW e \in Events, e.kind = "scan",
         inbox' = Append(inbox, e), followed' = followed, watched' = watched
  PROVE  Untold'
<1> SUFFICES ASSUME ~watched PROVE LastIsNone' /\ Unsaid'
  BY DEF Untold
<1>0. inbox \in Seq(Events) /\ LastIsNone /\ Unsaid
  BY DEF Untold, Typed
<1>1. Len(inbox') = Len(inbox) + 1 /\ Len(inbox) \in Nat
  BY <1>0
<1>2. \A n \in 1..Len(inbox) : inbox'[n] = inbox[n]
  BY <1>0
<1>3. inbox'[Len(inbox) + 1] = e
  BY <1>0
<1>4. ASSUME NEW n \in 1..Len(inbox'), IsLast(n)' PROVE inbox'[n].status = Absent
  <2>1. n \in 1..Len(inbox)
    BY <1>1, <1>3, <1>4 DEF IsLast
  <2>2. IsLast(n)
    BY <1>1, <1>2, <1>4, <2>1 DEF IsLast
  <2> QED BY <1>0, <1>2, <2>1, <2>2 DEF LastIsNone
<1>5. ASSUME \A n \in 1..Len(inbox') : inbox'[n].kind = "scan" PROVE followed' = Absent
  BY <1>0, <1>1, <1>2, <1>5 DEF Unsaid
<1> QED BY <1>4, <1>5 DEF LastIsNone, Unsaid

\* So does the painter taking the first: it is the last status, or leaves it.
LEMMA UntoldPaint ==
  ASSUME Untold, Typed, inbox # <<>>, inbox' = Tail(inbox), watched' = watched,
         Head(inbox).kind = "scan" => followed' = followed,
         Head(inbox).kind = "status" => followed' = Head(inbox).status
  PROVE  Untold'
<1> SUFFICES ASSUME ~watched PROVE LastIsNone' /\ Unsaid'
  BY DEF Untold
<1>0. inbox \in Seq(Events) /\ LastIsNone /\ Unsaid
  BY DEF Untold, Typed
<1>1. Len(inbox') = Len(inbox) - 1 /\ Len(inbox) \in Nat /\ Len(inbox) >= 1
  BY <1>0
<1>2. \A n \in 1..Len(inbox') : inbox'[n] = inbox[n + 1]
  BY <1>0, <1>1
<1>3. Head(inbox) = inbox[1] /\ inbox[1].kind \in {"scan", "status"}
  <2>1. Head(inbox) = inbox[1]
    BY <1>0
  <2>2. inbox[1] \in Events
    BY <1>0, <1>1
  <2> QED BY <2>1, <2>2 DEF Events
<1>4. ASSUME NEW n \in 1..Len(inbox'), IsLast(n)' PROVE inbox'[n].status = Absent
  <2>1. n + 1 \in 1..Len(inbox)
    BY <1>1
  <2>2. inbox[n + 1].kind = "status"
    BY <1>2, <1>4 DEF IsLast
  <2>3. ASSUME NEW k \in 1..Len(inbox), k > n + 1 PROVE inbox[k].kind = "scan"
    <3>1. k - 1 \in 1..Len(inbox') /\ k - 1 > n /\ inbox'[k - 1] = inbox[(k - 1) + 1]
      BY <1>1, <1>2, <2>3
    <3>2. (k - 1) + 1 = k
      OBVIOUS
    <3> QED BY <1>4, <3>1, <3>2 DEF IsLast
  <2>4. IsLast(n + 1)
    BY <2>2, <2>3 DEF IsLast
  <2> QED BY <1>0, <1>2, <2>1, <2>4 DEF LastIsNone
<1>5. ASSUME \A n \in 1..Len(inbox') : inbox'[n].kind = "scan" PROVE followed' = Absent
  <2>1. ASSUME NEW k \in 1..Len(inbox), k > 1 PROVE inbox[k].kind = "scan"
    <3>1. k - 1 \in 1..Len(inbox') /\ inbox'[k - 1] = inbox[(k - 1) + 1] /\ (k - 1) + 1 = k
      BY <1>1, <1>2, <2>1
    <3> QED BY <1>5, <3>1
  <2>2. CASE inbox[1].kind = "scan"
    BY <1>0, <1>1, <1>3, <2>1, <2>2 DEF Unsaid
  <2>3. CASE inbox[1].kind = "status"
    <3>1. IsLast(1)
      BY <2>1, <2>3 DEF IsLast
    <3>2. inbox[1].status = Absent
      BY <1>0, <1>1, <3>1 DEF LastIsNone
    <3> QED BY <1>3, <2>3, <3>2
  <2> QED BY <1>3, <2>2, <2>3
<1> QED BY <1>4, <1>5 DEF LastIsNone, Unsaid

\* A watch that ends says so last.
LEMMA UntoldEnd ==
  ASSUME Typed, inbox' = Unfollowed
  PROVE  Untold'
<1>0. inbox \in Seq(Events)
  BY DEF Typed
<1> DEFINE e == [kind |-> "status", status |-> Absent]
<1>1. e \in Events /\ e.kind # "scan" /\ e.status = Absent
  BY DEF Events
<1>2. inbox' = Append(inbox, e)
  BY DEF Unfollowed
<1> HIDE DEF e
<1>3. Len(inbox') = Len(inbox) + 1 /\ Len(inbox) \in Nat /\ inbox'[Len(inbox) + 1] = e
  BY <1>0, <1>1, <1>2
<1>4. Unsaid'
  BY <1>1, <1>3 DEF Unsaid
<1>5. ASSUME NEW n \in 1..Len(inbox'), IsLast(n)' PROVE inbox'[n].status = Absent
  <2>1. n = Len(inbox) + 1
    BY <1>1, <1>3, <1>5 DEF IsLast
  <2> QED BY <1>1, <1>3, <2>1
<1> QED BY <1>4, <1>5 DEF Untold, LastIsNone

-----------------------------------------------------------------------------
\* The invariant holds at first.
LEMMA Initially == WatchInit => WatchInv
<1> SUFFICES ASSUME WatchInit PROVE WatchInv
  OBVIOUS
<1> DEFINE e == [kind |-> "scan", status |-> actual]
<1>0. actual \in Status /\ actual = Stopped
  BY DEF WatchInit, Stopped, Status, States
<1>1. e \in Events /\ e.kind = "scan" /\ inbox = <<e>>
  BY <1>0 DEF WatchInit, Events
<1> HIDE DEF e
<1>2. inbox \in Seq(Events) /\ Len(inbox) = 1 /\ inbox[1] = e
  BY <1>1
<1>3. Typed
  BY <1>0, <1>2 DEF WatchInit, Typed
<1>4. Noticed /\ LeavesOutLast
  BY DEF WatchInit, Noticed, LeavesOutLast
<1>5. Untold
  <2>1. LastIsNone
    BY <1>1, <1>2 DEF LastIsNone, IsLast
  <2> QED BY <2>1 DEF Untold, Unsaid, WatchInit
<1> QED BY <1>3, <1>4, <1>5 DEF WatchInv

\* A step of the SCM preserves it: what is armed fires, for the service leaves
\* the state the notification leaves out.
LEMMA ScmStep == WatchInv /\ Scm => WatchInv'
<1> SUFFICES ASSUME WatchInv, Scm PROVE WatchInv'
  OBVIOUS
<1>0. Typed /\ Noticed /\ LeavesOutLast /\ Untold
  BY DEF WatchInv
<1>1. ASSUME NEW state \in States, Changes(state) PROVE WatchInv'
  <2>1. /\ actual' = [state |-> state, run |-> IF state = "stopped" THEN 0 ELSE runs']
        /\ actual # Absent /\ changes' = changes + 1
        /\ runs' = IF actual.state = "stopped" THEN runs + 1 ELSE runs
        /\ Legal(actual.state, state)
        /\ UNCHANGED <<lags, wanted, follows, watcher, scanning, inbox, picture>>
    BY <1>1 DEF Changes
  <2>2. runs' \in Nat /\ actual' \in Status /\ actual' # Absent /\ changes' \in Nat
    <3>1. runs' \in Nat /\ changes' \in Nat
      BY <1>0, <2>1 DEF Typed
    <3>2. actual' \in Status
      BY <2>1, <3>1 DEF Status
    <3> QED BY <3>1, <3>2, AbsentAssumption
  <2>3. actual.state # state
    <3>1. actual.state \in States
      BY <1>0, <2>1 DEF Typed, Status
    <3> QED BY <2>1, <3>1 DEF Legal, States
  <2>4. armed # Absent => armed # state
    BY <1>0, <2>3 DEF LeavesOutLast
  <2>5. CASE armed # Absent
    <3>1. armed' = Absent /\ fired' = Notice("changed", actual')
      BY <1>1, <2>4, <2>5 DEF Changes
    <3>2. fired' = [code |-> "changed", status |-> actual']
      BY <3>1 DEF Notice
    <3>3. fired' \in [code : Codes, status : Status \cup {Absent}] /\ fired'.status # Absent
      BY <2>2, <3>2 DEF Codes
    <3>4. Typed'
      BY <1>0, <2>1, <2>2, <3>1, <3>3 DEF Typed, watcher, picture
    <3>5. Noticed' /\ LeavesOutLast'
      BY <1>0, <2>1, <2>5, <3>1, <3>3 DEF Noticed, LeavesOutLast, watcher
    <3>6. Untold'
      BY <1>0, <2>1, UntoldStays DEF watcher, picture
    <3> QED BY <3>4, <3>5, <3>6 DEF WatchInv
  <2>6. CASE armed = Absent
    <3>1. armed' = armed /\ fired' = fired
      BY <1>1, <2>6 DEF Changes
    <3>2. Typed'
      BY <1>0, <2>1, <2>2, <3>1 DEF Typed, watcher, picture
    <3>3. Noticed' /\ LeavesOutLast'
      BY <1>0, <2>1, <2>6, <3>1 DEF Noticed, LeavesOutLast, watcher
    <3>4. Untold'
      BY <1>0, <2>1, UntoldStays DEF watcher, picture
    <3> QED BY <3>2, <3>3, <3>4 DEF WatchInv
  <2> QED BY <2>5, <2>6
<1>2. CASE Deleted
  <2>1. /\ actual' = Absent /\ armed' = Absent
        /\ fired' = IF armed # Absent THEN Notice("deleted", Absent) ELSE fired
        /\ UNCHANGED <<changes, runs, lags, wanted, follows, watcher, scanning, inbox, picture>>
    BY <1>2 DEF Deleted
  <2>2. /\ fired' \in [code : Codes, status : Status \cup {Absent}] \cup {Absent}
        /\ armed # Absent => fired'.code # "changed"
    BY <1>0, <2>1 DEF Notice, Codes, Typed
  <2>3. Typed'
    BY <1>0, <2>1, <2>2 DEF Typed, watcher, picture
  <2>4. Noticed' /\ LeavesOutLast'
    BY <1>0, <2>1, <2>2 DEF Noticed, LeavesOutLast, watcher
  <2>5. Untold'
    BY <1>0, <2>1, UntoldStays DEF watcher, picture
  <2> QED BY <2>3, <2>4, <2>5 DEF WatchInv
<1>3. CASE Lags
  <2>1. /\ armed' = Absent /\ fired' = Notice("lagging", Absent) /\ armed # Absent /\ lags' = lags + 1
        /\ UNCHANGED <<actual, changes, runs, wanted, follows, watcher, scanning, inbox, picture>>
    BY <1>3 DEF Lags
  <2>2. /\ fired' \in [code : Codes, status : Status \cup {Absent}]
        /\ fired'.code # "changed"
    BY <2>1 DEF Notice, Codes
  <2>3. Typed'
    BY <1>0, <2>1, <2>2 DEF Typed, watcher, picture
  <2>4. Noticed' /\ LeavesOutLast'
    BY <1>0, <2>1, <2>2 DEF Noticed, LeavesOutLast, watcher
  <2>5. Untold'
    BY <1>0, <2>1, UntoldStays DEF watcher, picture
  <2> QED BY <2>3, <2>4, <2>5 DEF WatchInv
<1> QED BY <1>1, <1>2, <1>3 DEF Scm

\* Steps of whoever follows, of the inventory's thread and of the painter.
LEMMA OthersStep == WatchInv /\ (Follows \/ Unfollows \/ Inventory \/ Paints) => WatchInv'
<1> SUFFICES ASSUME WatchInv, Follows \/ Unfollows \/ Inventory \/ Paints PROVE WatchInv'
  OBVIOUS
<1>0. Typed /\ Noticed /\ LeavesOutLast /\ Untold
  BY DEF WatchInv
<1>1. CASE Follows
  <2>1. Typed'
    BY <1>0, <1>1 DEF Follows, Typed, scm, watcher, picture
  <2>2. Noticed' /\ LeavesOutLast'
    BY <1>0, <1>1 DEF Follows, Noticed, LeavesOutLast, scm, watcher
  <2>3. Untold'
    BY <1>0, <1>1, UntoldStays DEF Follows, watcher, picture
  <2> QED BY <2>1, <2>2, <2>3 DEF WatchInv
<1>2. CASE Unfollows
  <2>1. Typed'
    <3>1. wanted' \in BOOLEAN
      BY <1>2 DEF Unfollows
    <3>2. UNCHANGED <<scm, follows, watcher, scanning, inbox, picture>>
      BY <1>2 DEF Unfollows
    <3> QED BY <1>0, <3>1, <3>2 DEF Typed, scm, watcher, picture
  <2>2. Noticed' /\ LeavesOutLast'
    BY <1>0, <1>2 DEF Unfollows, Noticed, LeavesOutLast, scm, watcher
  <2>3. Untold'
    BY <1>0, <1>2, UntoldStays DEF Unfollows, watcher, picture
  <2> QED BY <2>1, <2>2, <2>3 DEF WatchInv
<1>3. CASE Scans
  <2>1. Typed'
    BY <1>0, <1>3 DEF Scans, Typed, scm, watcher, picture
  <2>2. Noticed' /\ LeavesOutLast'
    BY <1>0, <1>3 DEF Scans, Noticed, LeavesOutLast, scm, watcher
  <2>3. Untold'
    BY <1>0, <1>3, UntoldStays DEF Scans, watcher, picture
  <2> QED BY <2>1, <2>2, <2>3 DEF WatchInv
<1>4. CASE HandsOver
  <2> DEFINE e == [kind |-> "scan", status |-> scanning.status]
  <2>0. e \in Events /\ e.kind = "scan"
    <3>1. scanning \in [status : Status \cup {Absent}]
      BY <1>0, <1>4 DEF HandsOver, Typed
    <3> QED BY <3>1 DEF Events
  <2>1. inbox' = Append(inbox, e)
    BY <1>4 DEF HandsOver
  <2> HIDE DEF e
  <2>2. inbox' \in Seq(Events)
    BY <1>0, <2>0, <2>1 DEF Typed
  <2>3. Typed'
    BY <1>0, <1>4, <2>2 DEF HandsOver, Typed, scm, watcher, picture
  <2>4. Noticed' /\ LeavesOutLast'
    BY <1>0, <1>4 DEF HandsOver, Noticed, LeavesOutLast, scm, watcher
  <2>5. Untold'
    BY <1>0, <1>4, <2>0, <2>1, UntoldScan DEF HandsOver, watcher, picture
  <2> QED BY <2>3, <2>4, <2>5 DEF WatchInv
<1>5. CASE Paints
  <2>1. /\ inbox # <<>> /\ inbox' = Tail(inbox)
        /\ UNCHANGED <<scm, wanted, follows, watcher, scanning>>
    BY <1>5 DEF Paints
  <2>2. Head(inbox) \in Events /\ inbox' \in Seq(Events)
    BY <1>0, <2>1 DEF Typed
  <2>3. Head(inbox).kind = "scan" => followed' = followed /\ shown' = StatusShown(Head(inbox).status, followed)
    BY <1>5 DEF Paints
  <2>4. Head(inbox).kind = "status" => /\ followed' = Head(inbox).status
                                       /\ shown' = StatusShown(shown, Head(inbox).status)
    BY <1>5 DEF Paints
  <2>5. followed' \in Status \cup {Absent} /\ shown' \in Status \cup {Absent}
    BY <1>0, <2>2, <2>3, <2>4 DEF Typed, Events, StatusShown
  <2>6. Typed'
    BY <1>0, <2>1, <2>2, <2>5 DEF Typed, scm, watcher
  <2>7. Noticed' /\ LeavesOutLast'
    BY <1>0, <2>1 DEF Noticed, LeavesOutLast, scm, watcher
  <2>8. Untold'
    BY <1>0, <2>1, <2>3, <2>4, UntoldPaint DEF watcher
  <2> QED BY <2>6, <2>7, <2>8 DEF WatchInv
<1> QED BY <1>1, <1>2, <1>3, <1>4, <1>5 DEF Inventory

\* A step of the watcher's thread: what it arms leaves out the state told
\* last, and a watch ends with what it says of it behind all it said before.
LEMMA WatcherStep == WatchInv /\ Watcher => WatchInv'
<1> SUFFICES ASSUME WatchInv, Watcher PROVE WatchInv'
  OBVIOUS
<1>0. Typed /\ Noticed /\ LeavesOutLast /\ Untold
  BY DEF WatchInv
<1>1. CASE Wakes
  <2>1. Typed'
    BY <1>0, <1>1 DEF Wakes, Typed, scm, picture
  <2>2. Noticed' /\ LeavesOutLast'
    BY <1>0, <1>1 DEF Wakes, Noticed, LeavesOutLast, scm
  <2>3. Untold'
    BY <1>0, <1>1, UntoldStays DEF Wakes, picture
  <2> QED BY <2>1, <2>2, <2>3 DEF WatchInv
<1>2. CASE TakesRequests
  <2>1. /\ pc' = "notified"
        /\ UNCHANGED <<actual, changes, runs, lags, follows, last, scanning, inbox, picture>>
    BY <1>2 DEF TakesRequests
  <2>2. CASE wanted /\ ~watched
    <3>1. Arms(Absent) /\ watched' = (actual # Absent) /\ wanted' = (actual # Absent)
      BY <1>2, <2>2 DEF TakesRequests, KnownAtFirst
    <3>2. /\ armed' \in States \cup {Absent, Nothing} /\ service' \in BOOLEAN
          /\ fired' \in [code : Codes, status : Status \cup {Absent}] \cup {Absent}
          /\ fired' # Absent /\ fired'.code = "changed" => fired'.status # Absent
          /\ armed' = Absent
          /\ actual = Absent => fired' = Absent
      BY <1>0, <3>1, ArmsFacts
    <3>3. Typed'
      BY <1>0, <2>1, <3>1, <3>2 DEF Typed, picture
    <3>4. Noticed' /\ LeavesOutLast'
      BY <1>0, <2>1, <3>1, <3>2 DEF Noticed, LeavesOutLast
    <3>5. Untold'
      BY <1>0, <2>1, <2>2, UntoldStays DEF picture
    <3> QED BY <3>3, <3>4, <3>5 DEF WatchInv
  <2>3. CASE ~(wanted /\ ~watched)
    <3>1. UNCHANGED <<armed, fired, service, watched, wanted>>
      BY <1>2, <2>3 DEF TakesRequests
    <3>2. Typed'
      BY <1>0, <2>1, <3>1 DEF Typed, picture
    <3>3. Noticed' /\ LeavesOutLast'
      BY <1>0, <2>1, <3>1 DEF Noticed, LeavesOutLast
    <3>4. Untold'
      BY <1>0, <2>1, <3>1, UntoldStays DEF picture
    <3> QED BY <3>2, <3>3, <3>4 DEF WatchInv
  <2> QED BY <2>2, <2>3
<1>3. CASE Forgets
  <2>1. /\ pc' = "poll" /\ last' = Absent /\ fired # Absent /\ Arms(Absent)
        /\ UNCHANGED <<actual, changes, runs, lags, wanted, follows, watched, scanning, inbox, picture>>
    BY <1>3 DEF Forgets
  <2>2. /\ service' \in BOOLEAN /\ armed' = Absent
        /\ fired' \in [code : Codes, status : Status \cup {Absent}] \cup {Absent}
        /\ fired' # Absent /\ fired'.code = "changed" => fired'.status # Absent
    BY <1>0, <2>1, ArmsFacts
  <2>3. Typed'
    BY <1>0, <2>1, <2>2 DEF Typed, picture
  <2>4. Noticed' /\ LeavesOutLast'
    BY <1>0, <2>1, <2>2 DEF Noticed, LeavesOutLast
  <2>5. Untold'
    BY <1>0, <2>1, UntoldStays DEF picture
  <2> QED BY <2>3, <2>4, <2>5 DEF WatchInv
<1>4. CASE LetsGo
  <2>1. Typed'
    BY <1>0, <1>4 DEF LetsGo, Typed, picture
  <2>2. Noticed' /\ LeavesOutLast'
    BY <1>0, <1>4 DEF LetsGo, Noticed, LeavesOutLast
  <2>3. Untold'
    BY <1>0, <1>4, UntoldStays DEF LetsGo, picture
  <2> QED BY <2>1, <2>2, <2>3 DEF WatchInv
<1>5. CASE Hears
  <2>1. /\ pc' = "arm" /\ fired # Absent /\ fired.code = "changed" /\ Dispatches(fired.status)
        /\ UNCHANGED <<scm, wanted, follows, watched, service, scanning, picture>>
    BY <1>5 DEF Hears
  <2>2. fired.status \in Status /\ watched /\ armed = Absent
    BY <1>0, <2>1 DEF Typed, Noticed
  <2>3. last' \in Status /\ inbox' \in Seq(Events)
    BY <1>0, <2>1, <2>2, DispatchesFacts
  <2>4. Typed'
    BY <1>0, <2>1, <2>3 DEF Typed, scm, picture
  <2>5. Noticed' /\ LeavesOutLast'
    BY <1>0, <2>1, <2>2 DEF Noticed, LeavesOutLast, scm
  <2>6. Untold'
    BY <2>1, <2>2 DEF Untold
  <2> QED BY <2>4, <2>5, <2>6 DEF WatchInv
<1>6. CASE ArmsAgain
  <2>1. /\ pc = "arm" /\ pc' = "poll" /\ Arms(last)
        /\ UNCHANGED <<actual, changes, runs, lags, wanted, follows, watched, last, scanning, inbox, picture>>
    BY <1>6 DEF ArmsAgain
  <2>2. watched
    BY <1>0, <2>1 DEF Noticed
  <2>3. /\ armed' \in States \cup {Absent, Nothing} /\ service' \in BOOLEAN
        /\ fired' \in [code : Codes, status : Status \cup {Absent}] \cup {Absent}
        /\ armed' = Absent \/ fired' = Absent
        /\ fired' # Absent /\ fired'.code = "changed" => fired'.status # Absent
        /\ armed' # Absent => /\ last # Absent /\ actual # Absent
                            /\ armed' = last.state /\ actual.state = last.state
    <3>1. last \in Status \cup {Absent}
      BY <1>0 DEF Typed
    <3> QED BY <1>0, <2>1, <3>1, ArmsFacts
  <2>4. Typed'
    BY <1>0, <2>1, <2>3 DEF Typed, picture
  <2>5. Noticed' /\ LeavesOutLast'
    BY <1>0, <2>1, <2>2, <2>3 DEF Noticed, LeavesOutLast
  <2>6. Untold'
    BY <1>0, <2>1, UntoldStays DEF picture
  <2> QED BY <2>4, <2>5, <2>6 DEF WatchInv
<1>7. CASE NoNotice
  <2>1. Typed'
    BY <1>0, <1>7 DEF NoNotice, Typed, scm, picture
  <2>2. Noticed' /\ LeavesOutLast'
    BY <1>0, <1>7 DEF NoNotice, Noticed, LeavesOutLast, scm
  <2>3. Untold'
    BY <1>0, <1>7, UntoldStays DEF NoNotice, picture
  <2> QED BY <2>1, <2>2, <2>3 DEF WatchInv
<1>8. CASE Polls
  <2>1. /\ pc' = "sweep"
        /\ UNCHANGED <<scm, wanted, follows, watched, service, scanning, picture>>
    BY <1>8 DEF Polls
  <2>2. CASE Pending /\ service /\ actual # Absent /\ Dispatches(actual)
    <3>1. actual \in Status /\ watched
      BY <1>0, <2>2 DEF Typed, Pending
    <3>2. last' \in Status /\ last'.state = actual.state /\ inbox' \in Seq(Events)
      BY <1>0, <2>2, <3>1, DispatchesFacts
    <3>3. Typed'
      BY <1>0, <2>1, <3>2 DEF Typed, scm, picture
    <3>4. Noticed'
      BY <1>0, <2>1 DEF Noticed, scm
    <3>5. LeavesOutLast'
      <4>1. last' # Absent
        BY <3>2, AbsentAssumption
      <4> QED BY <1>0, <2>1, <3>2, <4>1 DEF LeavesOutLast, scm
    <3>6. Untold'
      BY <2>1, <3>1 DEF Untold
    <3> QED BY <3>3, <3>4, <3>5, <3>6 DEF WatchInv
  <2>3. CASE UNCHANGED <<last, inbox>>
    <3>1. Typed'
      BY <1>0, <2>1, <2>3 DEF Typed, scm, picture
    <3>2. Noticed' /\ LeavesOutLast'
      BY <1>0, <2>1, <2>3 DEF Noticed, LeavesOutLast, scm
    <3>3. Untold'
      BY <1>0, <2>1, <2>3, UntoldStays DEF picture
    <3> QED BY <3>1, <3>2, <3>3 DEF WatchInv
  <2> QED BY <1>8, <2>2, <2>3 DEF Polls
<1>9. CASE Sweeps
  <2>1. pc' = "wait" /\ UNCHANGED <<actual, changes, runs, lags, follows, scanning, picture>>
    BY <1>9 DEF Sweeps
  <2>2. CASE watched /\ Over
    <3>1. /\ watched' = FALSE /\ wanted' = FALSE /\ last' = Absent /\ service' = FALSE
          /\ armed' = Absent /\ fired' = Absent /\ inbox' = Unfollowed
      BY <1>9, <2>2 DEF Sweeps, HandleClosed
    <3>2. inbox' \in Seq(Events)
      <4>1. [kind |-> "status", status |-> Absent] \in Events
        BY DEF Events
      <4> QED BY <1>0, <3>1, <4>1 DEF Typed, Unfollowed
    <3>3. Typed'
      BY <1>0, <2>1, <3>1, <3>2 DEF Typed, picture
    <3>4. Noticed' /\ LeavesOutLast'
      BY <2>1, <3>1 DEF Noticed, LeavesOutLast
    <3>5. Untold'
      BY <1>0, <3>1, UntoldEnd
    <3> QED BY <3>3, <3>4, <3>5 DEF WatchInv
  <2>3. CASE ~(watched /\ Over)
    <3>1. UNCHANGED <<watched, service, wanted, last, armed, fired, inbox>>
      BY <1>9, <2>3 DEF Sweeps
    <3>2. Typed'
      BY <1>0, <2>1, <3>1 DEF Typed, picture
    <3>3. Noticed' /\ LeavesOutLast'
      BY <1>0, <2>1, <3>1 DEF Noticed, LeavesOutLast
    <3>4. Untold'
      BY <1>0, <2>1, <3>1, UntoldStays DEF picture
    <3> QED BY <3>2, <3>3, <3>4 DEF WatchInv
  <2> QED BY <2>2, <2>3
<1> QED BY <1>1, <1>2, <1>3, <1>4, <1>5, <1>6, <1>7, <1>8, <1>9 DEF Watcher

-----------------------------------------------------------------------------
\* The invariant is kept by every step.
LEMMA StepKeeps == WatchInv /\ [WatchNext]_watch_vars => WatchInv'
<1> SUFFICES ASSUME WatchInv, [WatchNext]_watch_vars PROVE WatchInv'
  OBVIOUS
<1>1. CASE UNCHANGED watch_vars
  <2>0. Typed /\ Noticed /\ LeavesOutLast /\ Untold
    BY DEF WatchInv
  <2>1. Typed'
    BY <1>1, <2>0 DEF Typed, watch_vars, scm, watcher, picture
  <2>2. Noticed' /\ LeavesOutLast'
    BY <1>1, <2>0 DEF Noticed, LeavesOutLast, watch_vars, scm, watcher
  <2>3. Untold'
    BY <1>1, <2>0, UntoldStays DEF watch_vars, watcher, picture
  <2> QED BY <2>1, <2>2, <2>3 DEF WatchInv
<1>2. CASE WatchNext
  BY <1>2, ScmStep, OthersStep, WatcherStep DEF WatchNext
<1> QED BY <1>1, <1>2

\* What the run checks follows from it.
LEMMA Implies == WatchInv => StayingStateTold
<1> SUFFICES ASSUME WatchInv PROVE StayingStateTold
  OBVIOUS
<1>1. Typed /\ Noticed /\ LeavesOutLast /\ Untold
  BY DEF WatchInv
<1>2. WatchTypeOK
  BY <1>1 DEF WatchTypeOK, Typed, Noticed
<1>3. ArmedIsCurrent
  BY <1>1 DEF ArmedIsCurrent, LeavesOutLast
<1>4. UnwatchedIsScanned
  BY <1>1 DEF UnwatchedIsScanned, Untold, Unsaid
<1> QED BY <1>2, <1>3, <1>4 DEF StayingStateTold

\* However often the service changes, lags and is followed: what is armed
\* fires for every state but the one told last and the service is in that
\* one, so a state it stays in is told; and of a service no longer watched no
\* status is left in the picture once the channel holds none (run, arm,
\* sweep).
THEOREM StayingStateIsTold == WatchSpec => []StayingStateTold
<1>1. WatchSpec => []WatchInv
  BY Initially, StepKeeps, PTL DEF WatchSpec
<1> QED BY <1>1, Implies, PTL
=============================================================================

---------------------------- MODULE RouterProofs ----------------------------
(***************************************************************************)
(* Proofs about the sessions and what comes of their events (Router), for  *)
(* any sessions, periods, transfers and limits, and however often sessions *)
(* stop, starts fail and the demand changes: the timers the sessions keep, *)
(* how soon they run again, how long a byte waits, and that the counters   *)
(* of a listed process never go back.                                      *)
(***************************************************************************)
EXTENDS Router, FiniteSetTheorems, FunctionTheorems, SequenceTheorems, NaturalsInduction,
        WellFoundedInduction, TLAPS

-----------------------------------------------------------------------------
\* There is a session.
LEMMA ThereIsASession == Sessions # {}
<1>1. Order \in Seq(Sessions) /\ Order # <<>>
  BY SessionsAssumption DEF Sessions
<1> QED BY <1>1

\* Where every session runs and none refuses, each takes the timer.
LEMMA EverySessionTook ==
  ASSUME NEW n \in 0..Len(Order), ~Refuses(n, Sessions)
  PROVE  Took(n) = Sessions
<1>1. Order \in Seq(Sessions)
  BY SessionsAssumption DEF Sessions
<1> DEFINE last == Len(Order)
<1>2. last \in Nat /\ DOMAIN Order = 1..last
  BY <1>1
<1>3. n \in 0..last /\ (n < last => Order[n + 1] \notin Sessions)
  BY DEF Refuses
<1> HIDE DEF last
<1>4. ASSUME n < last PROVE FALSE
  <2>1. n + 1 \in 1..last
    BY <1>2, <1>3, <1>4
  <2>2. Order[n + 1] \in Sessions
    BY <1>2, <2>1 DEF Sessions, Range
  <2> QED BY <1>3, <1>4, <2>2
<1>5. n = last
  BY <1>2, <1>3, <1>4
<1>6. Sessions = {Order[i] : i \in DOMAIN Order}
  BY DEF Sessions, Range
<1> QED BY <1>2, <1>5, <1>6 DEF Took

\* A timer that is set where every session runs is the one each has, if none
\* refuses it.
LEMMA SetOnAll ==
  ASSUME NEW remembered, NEW had, NEW before, TimerSet(remembered, had, before, Sessions),
         ~before => \A s \in Sessions : had[s] = remembered,
         ~refused'
  PROVE  \A s \in Sessions : timers'[s] = flushTimer'
<1> DEFINE set == FlushTimerFor(asked)
<1>1. flushTimer' = set
  BY DEF TimerSet
<1>2. CASE set = remembered
  <2>1. timers' = had /\ refused' = before
    BY <1>2 DEF TimerSet
  <2>2. ~before
    BY <2>1
  <2> QED BY <1>1, <1>2, <2>1, <2>2
<1>3. CASE set # remembered
  <2>1. PICK n \in 0..Len(Order) : Reaches(n, set, had, Sessions)
    BY <1>3 DEF TimerSet
  <2> HIDE DEF set
  <2>2. refused' = Refuses(n, Sessions)
    BY <2>1 DEF Reaches
  <2>3. Took(n) = Sessions
    BY <2>2, EverySessionTook
  <2>4. timers' = [s \in Sessions |-> IF s \in Took(n) THEN set ELSE had[s]]
    BY <2>1 DEF Reaches
  <2> QED BY <1>1, <2>3, <2>4
<1> QED BY <1>2, <1>3

\* While all the sessions run, each has the flush timer the core remembers to
\* have set, also after one was missing when it was set, or all were started
\* again, unless a session that ran refused it (Supervisor::tick,
\* keep_sessions, KernelRouter::set_flush_timer).
THEOREM TimersStayAsSet == Spec => []TimersAsSet
<1>1. Init => TimersAsSet
  BY DEF Init, TimersAsSet
<1>2. ASSUME TimersAsSet, [Next]_vars PROVE TimersAsSet'
  <2>1. CASE Flushes
    <3>1. running' = running
      BY <2>1 DEF Flushes, KeepsSessions
    <3>2. CASE router
      <4>1. ASSUME running = Sessions, ~refused' PROVE \A s \in Sessions : timers'[s] = flushTimer'
        <5>1. TimerSet(flushTimer, timers, refused, Sessions)
          BY <2>1, <3>2, <4>1 DEF Flushes
        <5>2. ~refused => \A s \in Sessions : timers[s] = flushTimer
          BY <1>2, <4>1 DEF TimersAsSet
        <5> QED BY <4>1, <5>1, <5>2, SetOnAll
      <4> QED BY <3>1, <4>1 DEF TimersAsSet
    <3>3. CASE ~router
      <4>1. flushTimer' = flushTimer /\ timers' = timers /\ refused' = refused
        BY <2>1, <3>3 DEF Flushes
      <4> QED BY <1>2, <3>1, <4>1 DEF TimersAsSet
    <3> QED BY <3>2, <3>3
  <2>2. CASE Restarts(TRUE)
    <3>1. TimerSet(FastFlush, [s \in Sessions |-> FastFlush], FALSE, Sessions)
      BY <2>2 DEF Restarts
    <3> DEFINE anew == [s \in Sessions |-> FastFlush]
    <3>2. \A s \in Sessions : anew[s] = FastFlush
      OBVIOUS
    <3> HIDE DEF anew
    <3>3. ~refused' => \A s \in Sessions : timers'[s] = flushTimer'
      BY <3>1, <3>2, SetOnAll DEF anew
    <3> QED BY <3>3 DEF TimersAsSet
  <2>3. CASE Restarts(FALSE)
    <3>1. running' = {} /\ flushTimer' = flushTimer /\ timers' = timers
      BY <2>3 DEF Restarts
    <3> QED BY <3>1, ThereIsASession DEF TimersAsSet
  <2>4. ASSUME NEW s \in Sessions, SessionStops(s) PROVE TimersAsSet'
    <3>1. s \in running /\ running' = running \ {s}
      BY <2>4 DEF SessionStops
    <3>2. running' # Sessions
      BY <3>1
    <3> QED BY <3>2 DEF TimersAsSet
  <2>5. CASE UNCHANGED <<running, flushTimer, timers, refused>>
    BY <1>2, <2>5 DEF TimersAsSet
  <2>6. ASSUME NEW pid \in Pids, Starts(pid) \/ Ends(pid) PROVE TimersAsSet'
    BY <2>5, <2>6 DEF Starts, Ends, sessions
  <2>7. ASSUME NEW transfer \in Transfers, Tells(transfer) PROVE TimersAsSet'
    BY <2>5, <2>7 DEF Tells, sessions
  <2>8. ASSUME NEW at, OnOtherEvent(at) PROVE TimersAsSet'
    BY <2>5, <2>8 DEF OnOtherEvent, sessions
  <2>9. ASSUME NEW reads, Drains(reads) PROVE TimersAsSet'
    BY <2>5, <2>9 DEF Drains, sessions
  <2>10. ASSUME NEW period, Demands(period) PROVE TimersAsSet'
    BY <2>5, <2>10 DEF Demands, sessions
  <2>11. CASE OnEvent \/ TimePasses \/ UNCHANGED vars
    BY <2>5, <2>11 DEF OnEvent, TimePasses, vars, sessions
  <2>12. ASSUME NEW starts \in BOOLEAN, Restarts(starts) PROVE TimersAsSet'
    <3>1. CASE starts = TRUE
      BY <2>2, <2>12, <3>1
    <3>2. CASE starts = FALSE
      BY <2>3, <2>12, <3>2
    <3> QED BY <3>1, <3>2
  <2> QED
    BY <1>2, <2>1, <2>4, <2>6, <2>7, <2>8, <2>9, <2>10, <2>11, <2>12 DEF Next
<1> QED BY <1>1, <1>2, PTL DEF Spec

-----------------------------------------------------------------------------
\* The clock never stands further than a tick from the last one, nor a tick
\* further than a check from the last check; a session that is missing went
\* missing after that check, for a check leaves none missing that it could
\* start, and counts anew the one it could not.
Clocks ==
  /\ now \in Nat /\ ticked \in Nat /\ checked \in Nat /\ down \in Nat
  /\ core \in {"parked", "flushed"}
  /\ ticked <= now /\ checked <= now /\ down <= now
  /\ now - ticked <= TickEvery
  /\ ticked - checked <= CheckEvery
  /\ core = "flushed" => now - checked <= CheckEvery
MissingSinceCheck == running # Sessions => checked <= down
CInv == Clocks /\ MissingSinceCheck

\* Steps that leave the clocks and the sessions alone keep it.
LEMMA ClocksStay ==
  ASSUME CInv, UNCHANGED <<now, ticked, checked, down, core, running>>
  PROVE  CInv'
BY DEF CInv, Clocks, MissingSinceCheck

\* A tick up to its flush keeps it: it checks, or the last check is recent.
LEMMA TickKeeps == CInv /\ (Flushes \/ \E starts \in BOOLEAN : Restarts(starts)) => CInv'
<1> SUFFICES ASSUME CInv, Flushes \/ \E starts \in BOOLEAN : Restarts(starts) PROVE CInv'
  OBVIOUS
<1>0. Clocks /\ MissingSinceCheck
  BY DEF CInv
<1>00. TickEvery \in Nat \ {0} /\ CheckEvery \in Nat \ {0}
  BY PeriodsAssumption
<1>1. CASE Flushes
  <2>1. /\ core' = "flushed" /\ UNCHANGED <<now, ticked, down, running>>
        /\ checked' = IF Checks THEN now ELSE checked
        /\ Checks => running = Sessions
    BY <1>1 DEF Flushes, KeepsSessions, Healthy
  <2>2. CASE Checks
    BY <1>0, <1>00, <2>1, <2>2 DEF CInv, Clocks, MissingSinceCheck
  <2>3. CASE ~Checks
    <3>1. now - checked < CheckEvery
      BY <1>0, <1>00, <2>3 DEF Checks, Clocks
    <3> QED BY <1>0, <1>00, <2>1, <2>3, <3>1 DEF CInv, Clocks, MissingSinceCheck
  <2> QED BY <2>2, <2>3
<1>2. ASSUME NEW starts \in BOOLEAN, Restarts(starts) PROVE CInv'
  <2>1. /\ core' = "flushed" /\ checked' = now /\ UNCHANGED <<now, ticked>>
        /\ down' = IF starts THEN 0 ELSE now
        /\ starts => running' = Sessions
    BY <1>2 DEF Restarts
  <2>2. Clocks'
    BY <1>0, <1>00, <2>1 DEF Clocks
  <2>3. MissingSinceCheck'
    BY <1>0, <2>1 DEF MissingSinceCheck, Clocks
  <2> QED BY <2>2, <2>3 DEF CInv
<1> QED BY <1>1, <1>2

\* Every step keeps it.
LEMMA ClockStep == CInv /\ [Next]_vars => CInv'
<1> SUFFICES ASSUME CInv, [Next]_vars PROVE CInv'
  OBVIOUS
<1>0. Clocks /\ MissingSinceCheck
  BY DEF CInv
<1>00. TickEvery \in Nat \ {0} /\ CheckEvery \in Nat \ {0}
  BY PeriodsAssumption
<1>1. CASE TimePasses
  <2>1. /\ core = "parked" /\ now - ticked < TickEvery /\ now' = now + 1
        /\ UNCHANGED <<ticked, checked, down, core, running>>
    BY <1>1 DEF TimePasses, sessions
  <2> QED BY <1>0, <1>00, <2>1 DEF CInv, Clocks, MissingSinceCheck
<1>2. ASSUME NEW reads, Drains(reads) PROVE CInv'
  <2>1. /\ core = "flushed" /\ core' = "parked" /\ ticked' = now
        /\ UNCHANGED <<now, checked, down, running>>
    BY <1>2 DEF Drains, sessions
  <2> QED BY <1>0, <1>00, <2>1 DEF CInv, Clocks, MissingSinceCheck
<1>3. ASSUME NEW s \in Sessions, SessionStops(s) PROVE CInv'
  <2>1. down' = now /\ UNCHANGED <<now, ticked, checked, core>>
    BY <1>3 DEF SessionStops
  <2> QED BY <1>0, <2>1 DEF CInv, Clocks, MissingSinceCheck
<1>4. ASSUME NEW pid \in Pids, Starts(pid) \/ Ends(pid) PROVE CInv'
  BY <1>4, ClocksStay DEF Starts, Ends, sessions
<1>5. ASSUME NEW transfer \in Transfers, Tells(transfer) PROVE CInv'
  BY <1>5, ClocksStay DEF Tells, sessions
<1>6. ASSUME NEW at, OnOtherEvent(at) PROVE CInv'
  BY <1>6, ClocksStay DEF OnOtherEvent, sessions
<1>7. ASSUME NEW period, Demands(period) PROVE CInv'
  BY <1>7, ClocksStay DEF Demands, sessions
<1>8. CASE OnEvent
  BY <1>8, ClocksStay DEF OnEvent, sessions
<1>9. CASE UNCHANGED vars
  BY <1>9, ClocksStay DEF vars, sessions
<1> QED
  BY <1>1, <1>2, <1>3, <1>4, <1>5, <1>6, <1>7, <1>8, <1>9, TickKeeps DEF Next

\* Sessions that were stopped from outside or did not start run again by the
\* tick after the next check, unless they do not start then either, whatever
\* the periods (Supervisor::keep_sessions).
THEOREM SessionsAreBack == Spec => []BackInTime
<1>1. Init => CInv
  BY PeriodsAssumption DEF Init, CInv, Clocks, MissingSinceCheck
<1>2. CInv => BackInTime
  BY PeriodsAssumption DEF CInv, Clocks, MissingSinceCheck, BackInTime
<1> QED BY <1>1, <1>2, ClockStep, PTL DEF Spec

-----------------------------------------------------------------------------
(***************************************************************************)
(* How long a byte waits.  A tick leaves no batch whose window has passed, *)
(* and what its session hands over later is no older than the slowest      *)
(* flush: nothing in a batch or in the channel was that old by the last    *)
(* tick, and the next one is not far.                                      *)
(***************************************************************************)
Deltas == UNION {[keys -> [all : Nat, loopback : Nat]] : keys \in SUBSET Pids}
Read == [slot : Slots, key : Pids \cup {None}, loopback : BOOLEAN, at : Nat]
BatchSlot == [deltas : Deltas, since : Nat \cup {None}, first : Nat \cup {None}]
BatchChange == [slot : Slots, deltas : Deltas, first : Nat]

Typed ==
  /\ buffer \in Seq(Read)
  /\ slots \in [Slots -> BatchSlot]
  /\ channel \in Seq(BatchChange) /\ Len(channel) <= Capacity

\* The buffers are in order of time and let go of in time.
BufferAges ==
  /\ \A i \in 1..Len(buffer) : buffer[i].at <= now /\ now - buffer[i].at <= SlowFlush
  /\ \A i, j \in 1..Len(buffer) : i <= j => buffer[i].at <= buffer[j].at

\* A batch has waited since its first event, which no event to come precedes.
SlotAges ==
  \A s \in Slots :
    /\ slots[s].since = slots[s].first
    /\ slots[s].first # None =>
         /\ router /\ slots[s].first <= now
         /\ ticked - slots[s].first <= Longest
         /\ core = "flushed" => now - slots[s].first <= Longest
         /\ \A i \in 1..Len(buffer) : slots[s].first <= buffer[i].at

ChannelAges == \A i \in 1..Len(channel) : ticked - channel[i].first <= Longest

AInv == CInv /\ Typed /\ BufferAges /\ SlotAges /\ ChannelAges /\ HalfFullIsSeen

\* The limits are numbers.
LEMMA LimitsTyped ==
  /\ Window \in Nat /\ SlowFlush \in Nat /\ TickEvery \in Nat /\ Capacity \in Nat
  /\ Longest \in Nat /\ Window <= Longest /\ SlowFlush <= Longest
  /\ HighWater \in Nat /\ HighWater >= 1
  /\ None \notin Nat
BY PeriodsAssumption, NamesAssumption DEF Longest, HighWater

\* Nothing is in a slot that was emptied.
LEMMA EmptyTyped == EmptySlot \in BatchSlot
<1>1. <<>> \in [{} -> [all : Nat, loopback : Nat]]
  OBVIOUS
<1>2. <<>> \in Deltas
  BY <1>1 DEF Deltas
<1> QED BY <1>2 DEF EmptySlot, BatchSlot

\* What an event adds to a batch.
LEMMA AddedTyped ==
  ASSUME NEW deltas \in Deltas, NEW e \in Read
  PROVE  Added(deltas, e) \in Deltas
<1>1. PICK keys \in SUBSET Pids : deltas \in [keys -> [all : Nat, loopback : Nat]]
  BY DEF Deltas
<1>2. CASE e.key = None
  BY <1>2 DEF Added
<1>3. CASE e.key # None
  <2> DEFINE d == IF e.key \in DOMAIN deltas THEN deltas[e.key] ELSE Zero
  <2>1. e.key \in Pids
    BY <1>3 DEF Read
  <2>2. d \in [all : Nat, loopback : Nat]
    BY <1>1 DEF Zero
  <2>3. Counted(d, e) \in [all : Nat, loopback : Nat]
    BY <2>2 DEF Counted
  <2>4. Added(deltas, e) = [k \in DOMAIN deltas \cup {e.key} |-> IF k = e.key THEN Counted(d, e) ELSE deltas[k]]
    BY <1>3 DEF Added
  <2> HIDE DEF d
  <2>5. Added(deltas, e) \in [{e.key} \cup keys -> [all : Nat, loopback : Nat]]
    BY <1>1, <2>3, <2>4
  <2> QED BY <2>1, <2>5 DEF Deltas
<1> QED BY <1>2, <1>3

\* What is emitted goes behind what is in the channel, as far as there is
\* room, and a channel half full by then is no news but to who knows.
LEMMA Emitted ==
  ASSUME Typed, NEW changes \in Seq(BatchChange), NEW pending, Emit(changes, pending)
  PROVE  /\ channel' \in Seq(BatchChange) /\ Len(channel') <= Capacity
         /\ \A i \in 1..Len(channel') :
              \/ i \in 1..Len(channel) /\ channel'[i] = channel[i]
              \/ \E n \in 1..Len(changes) : channel'[i] = changes[n]
         /\ changes = <<>> => channel' = channel
         /\ pending => woken'
         /\ changes # <<>> /\ Len(channel') >= HighWater => woken'
<1> DEFINE room == Capacity - Len(channel)
           sent == IF Len(changes) < room THEN Len(changes) ELSE room
           rest == SubSeq(changes, 1, sent)
<1>1. channel \in Seq(BatchChange) /\ Len(channel) <= Capacity /\ Capacity \in Nat
  BY LimitsTyped DEF Typed
<1>2. sent \in 0..Len(changes) /\ sent <= room
  BY <1>1
<1>3. /\ channel' = channel \o rest
      /\ woken' = (pending \/ (changes # <<>> /\ Wakes(Len(channel'))))
  BY DEF Emit
<1> HIDE DEF sent
<1>4. /\ rest \in Seq(BatchChange) /\ Len(rest) = sent
      /\ \A i \in 1..sent : rest[i] = changes[i]
  <2>1. \A i \in 1..sent : i \in 1..Len(changes)
    BY <1>2
  <2>2. \A i \in 1..sent : changes[i] \in BatchChange
    BY <2>1
  <2>3. rest = [i \in 1..sent |-> changes[i]]
    BY <1>2
  <2> QED BY <1>2, <2>2, <2>3
<1> HIDE DEF rest
<1>5. /\ channel' \in Seq(BatchChange) /\ Len(channel') = Len(channel) + sent
      /\ \A i \in 1..Len(channel) : channel'[i] = channel[i]
      /\ \A i \in Len(channel) + 1..Len(channel) + sent : channel'[i] = rest[i - Len(channel)]
  <2>1. /\ channel' \in Seq(BatchChange) /\ Len(channel') = Len(channel) + Len(rest)
        /\ \A i \in 1..Len(channel) + Len(rest) :
             channel'[i] = IF i <= Len(channel) THEN channel[i] ELSE rest[i - Len(channel)]
    BY <1>1, <1>3, <1>4, ConcatProperties
  <2>2. Len(channel) \in Nat /\ sent \in Nat /\ Len(rest) = sent
    BY <1>1, <1>2, <1>4
  <2> QED BY <2>1, <2>2
<1>6. Len(channel') <= Capacity
  BY <1>1, <1>2, <1>5
<1>7. ASSUME NEW i \in 1..Len(channel')
      PROVE  \/ i \in 1..Len(channel) /\ channel'[i] = channel[i]
             \/ \E n \in 1..Len(changes) : channel'[i] = changes[n]
  <2>1. CASE i <= Len(channel)
    BY <1>1, <1>5, <2>1
  <2>2. CASE i > Len(channel)
    <3>1. i - Len(channel) \in 1..sent /\ i \in Len(channel) + 1..Len(channel) + sent
      BY <1>1, <1>2, <1>5, <2>2
    <3>2. channel'[i] = changes[i - Len(channel)] /\ i - Len(channel) \in 1..Len(changes)
      BY <1>2, <1>4, <1>5, <3>1
    <3> QED BY <3>2
  <2> QED BY <1>1, <1>5, <2>1, <2>2
<1>8. ASSUME changes = <<>> PROVE channel' = channel
  <2>1. sent = 0
    BY <1>2, <1>8
  <2> QED BY <1>1, <1>5, <2>1
<1> QED BY <1>3, <1>5, <1>6, <1>7, <1>8 DEF Wakes

\* A batch that is handed over is one whose window has passed.
LEMMA TakenTyped ==
  ASSUME NEW kept \in [Slots -> BatchSlot], NEW at,
         \A s \in Slots : kept[s].since = kept[s].first
  PROVE  /\ Taken(kept, at) \in Seq(BatchChange)
         /\ \A n \in 1..Len(Taken(kept, at)) : \E s \in Slots :
              kept[s].first # None /\ Taken(kept, at)[n].first = kept[s].first
<1> DEFINE one == HandedOver(kept, at, "disk")
           other == HandedOver(kept, at, "net")
<1>1. ASSUME NEW s \in Slots
      PROVE  /\ HandedOver(kept, at, s) \in Seq(BatchChange)
             /\ \A n \in 1..Len(HandedOver(kept, at, s)) :
                  kept[s].first # None /\ HandedOver(kept, at, s)[n].first = kept[s].first
  <2>1. CASE s \in DueSlots(kept, at) /\ kept[s].deltas # <<>>
    <3>1. kept[s].first # None /\ kept[s] \in BatchSlot
      BY <2>1 DEF DueSlots
    <3>2. Change(kept, s) \in BatchChange /\ Change(kept, s).first = kept[s].first
      BY <3>1 DEF Change, BatchSlot, BatchChange
    <3>3. HandedOver(kept, at, s) = <<Change(kept, s)>>
      BY <2>1 DEF HandedOver
    <3> QED BY <3>1, <3>2, <3>3
  <2>2. CASE ~(s \in DueSlots(kept, at) /\ kept[s].deltas # <<>>)
    <3>1. HandedOver(kept, at, s) = <<>>
      BY <2>2 DEF HandedOver
    <3> QED BY <3>1
  <2> QED BY <2>1, <2>2
<1>2. /\ one \in Seq(BatchChange) /\ other \in Seq(BatchChange)
      /\ Taken(kept, at) = one \o other
  BY <1>1 DEF Taken, Slots
<1>3. ASSUME NEW n \in 1..Len(Taken(kept, at))
      PROVE  \E s \in Slots : kept[s].first # None /\ Taken(kept, at)[n].first = kept[s].first
  <2>1. "disk" \in Slots /\ "net" \in Slots
    BY DEF Slots
  <2>2. /\ \A i \in 1..Len(one) : kept["disk"].first # None /\ one[i].first = kept["disk"].first
        /\ \A i \in 1..Len(other) : kept["net"].first # None /\ other[i].first = kept["net"].first
    BY <1>1, <2>1
  <2> HIDE DEF one, other
  <2>3. \/ n \in 1..Len(one) /\ Taken(kept, at)[n] = one[n]
        \/ n - Len(one) \in 1..Len(other) /\ Taken(kept, at)[n] = other[n - Len(one)]
    BY <1>2
  <2> QED BY <2>1, <2>2, <2>3
<1> HIDE DEF one, other
<1>4. Taken(kept, at) \in Seq(BatchChange)
  BY <1>2
<1> QED BY <1>3, <1>4

\* What is handed over is no older than it may be, and what stays in its
\* batch stays as it is.
LEMMA HandsOver ==
  ASSUME Typed, ChannelAges, ticked \in Nat, UNCHANGED ticked,
         NEW kept \in [Slots -> BatchSlot],
         \A s \in Slots : /\ kept[s].since = kept[s].first
                          /\ kept[s].first # None => ticked - kept[s].first <= Longest,
         NEW at, NEW pending, HandOverDue(kept, at, pending)
  PROVE  /\ slots' \in [Slots -> BatchSlot]
         /\ \A s \in Slots : slots'[s] = IF s \in DueSlots(kept, at) THEN EmptySlot ELSE kept[s]
         /\ channel' \in Seq(BatchChange) /\ Len(channel') <= Capacity
         /\ ChannelAges'
         /\ pending => woken'
         /\ channel' = channel \/ (Len(channel') >= HighWater => woken')
<1>1. /\ slots' = [s \in Slots |-> IF s \in DueSlots(kept, at) THEN EmptySlot ELSE kept[s]]
      /\ Emit(Taken(kept, at), pending)
  BY DEF HandOverDue, Left
<1>2. slots' \in [Slots -> BatchSlot]
  BY <1>1, EmptyTyped
<1> DEFINE changes == Taken(kept, at)
<1>3. /\ changes \in Seq(BatchChange)
      /\ \A n \in 1..Len(changes) : ticked - changes[n].first <= Longest
  <2>1. /\ changes \in Seq(BatchChange)
        /\ \A n \in 1..Len(changes) : \E s \in Slots :
             kept[s].first # None /\ changes[n].first = kept[s].first
    BY TakenTyped
  <2> HIDE DEF changes
  <2> QED BY <2>1
<1> HIDE DEF changes
<1>4. Emit(changes, pending)
  BY <1>1 DEF changes
<1>5. /\ channel' \in Seq(BatchChange) /\ Len(channel') <= Capacity
      /\ \A i \in 1..Len(channel') :
           \/ i \in 1..Len(channel) /\ channel'[i] = channel[i]
           \/ \E n \in 1..Len(changes) : channel'[i] = changes[n]
      /\ changes = <<>> => channel' = channel
      /\ pending => woken'
      /\ changes # <<>> /\ Len(channel') >= HighWater => woken'
  BY <1>3, <1>4, Emitted
<1>6. ChannelAges'
  BY <1>3, <1>5 DEF ChannelAges
<1> QED BY <1>1, <1>2, <1>5, <1>6

\* Steps that leave the batches alone keep their ages.
LEMMA AgesStay ==
  ASSUME AInv, CInv', UNCHANGED <<now, ticked, core, router, buffer, slots, channel>>,
         woken => woken'
  PROVE  AInv'
BY DEF AInv, Typed, BufferAges, SlotAges, ChannelAges, HalfFullIsSeen

\* An event goes into its batch and what is due goes out.
LEMMA EventKeepsAges == AInv /\ CInv' /\ OnEvent => AInv'
<1> SUFFICES ASSUME AInv, CInv', OnEvent PROVE AInv'
  OBVIOUS
<1>0. Clocks /\ Typed /\ BufferAges /\ SlotAges /\ ChannelAges /\ HalfFullIsSeen
  BY DEF AInv, CInv
<1> DEFINE e == Head(buffer)
           kept == Delivered(e)
<1>1. /\ router /\ buffer # <<>> /\ buffer' = Tail(buffer)
      /\ HandOverDue(kept, e.at, woken)
      /\ UNCHANGED <<now, ticked, core, router>>
  BY DEF OnEvent, sessions
<1>2. /\ e \in Read /\ e.at \in Nat /\ e.slot \in Slots
      /\ e.at <= now /\ now - e.at <= SlowFlush
      /\ \A i \in 1..Len(buffer) : e.at <= buffer[i].at
  <2>1. buffer \in Seq(Read) /\ Len(buffer) >= 1 /\ e = buffer[1]
    BY <1>0, <1>1 DEF Typed
  <2> HIDE DEF e
  <2>2. e \in Read /\ 1 \in 1..Len(buffer)
    BY <2>1
  <2> QED BY <1>0, <2>1, <2>2 DEF BufferAges, Read
<1> HIDE DEF e
<1>3. buffer' \in Seq(Read) /\ BufferAges'
      /\ \A i \in 1..Len(buffer') : \E j \in 1..Len(buffer) : buffer'[i] = buffer[j]
  <2>1. buffer \in Seq(Read) /\ buffer # <<>>
    BY <1>0, <1>1 DEF Typed
  <2>2. /\ buffer' \in Seq(Read) /\ Len(buffer') = Len(buffer) - 1
        /\ \A i \in 1..Len(buffer') : i + 1 \in 1..Len(buffer) /\ buffer'[i] = buffer[i + 1]
    BY <1>1, <2>1
  <2>3. BufferAges'
    BY <1>0, <1>1, <2>1, <2>2 DEF BufferAges
  <2> QED BY <2>2, <2>3
<1>4. /\ kept \in [Slots -> BatchSlot]
      /\ \A s \in Slots : s # e.slot => kept[s] = slots[s]
      /\ kept[e.slot].since = kept[e.slot].first
      /\ kept[e.slot].first = IF slots[e.slot].first = None THEN e.at ELSE slots[e.slot].first
  <2>1. slots[e.slot] \in BatchSlot /\ slots \in [Slots -> BatchSlot]
    BY <1>0, <1>2 DEF Typed
  <2>2. /\ slots[e.slot].since = slots[e.slot].first
        /\ slots[e.slot].first # None => slots[e.slot].first \in Nat /\ slots[e.slot].first <= e.at
    <3>1. 1 \in 1..Len(buffer) /\ e = buffer[1]
      BY <1>0, <1>1 DEF Typed, e
    <3> QED BY <1>0, <1>2, <2>1, <3>1 DEF SlotAges, BatchSlot
  <2> DEFINE new == [deltas |-> Added(slots[e.slot].deltas, e),
                     since |-> IF slots[e.slot].since = None THEN e.at ELSE slots[e.slot].since,
                     first |-> IF slots[e.slot].first = None \/ e.at < slots[e.slot].first
                               THEN e.at ELSE slots[e.slot].first]
  <2>3. /\ new \in BatchSlot /\ new.since = new.first
        /\ new.first = IF slots[e.slot].first = None THEN e.at ELSE slots[e.slot].first
    <3>1. Added(slots[e.slot].deltas, e) \in Deltas
      BY <1>2, <2>1, AddedTyped DEF BatchSlot
    <3>2. new.first = IF slots[e.slot].first = None THEN e.at ELSE slots[e.slot].first
      BY <1>2, <2>2
    <3>3. new.since = new.first
      BY <2>2, <3>2
    <3>4. new.first \in Nat
      BY <1>2, <2>2, <3>2
    <3> QED BY <3>1, <3>2, <3>3, <3>4 DEF BatchSlot
  <2>4. kept = [slots EXCEPT ![e.slot] = new]
    BY DEF Delivered
  <2> HIDE DEF new, kept
  <2> QED BY <1>2, <2>1, <2>3, <2>4
<1> HIDE DEF kept
<1>5. ASSUME NEW s \in Slots
      PROVE  /\ kept[s].since = kept[s].first
             /\ kept[s].first # None =>
                  /\ kept[s].first \in Nat /\ kept[s].first <= now
                  /\ ticked - kept[s].first <= Longest
                  /\ core = "flushed" => now - kept[s].first <= Longest
                  /\ \A i \in 1..Len(buffer) : kept[s].first <= buffer[i].at
  <2>1. CASE kept[s].first = slots[s].first
    <3>1. kept[s].since = kept[s].first
      BY <1>0, <1>4, <2>1 DEF SlotAges
    <3>2. slots[s] \in BatchSlot
      BY <1>0 DEF Typed
    <3> QED BY <1>0, <2>1, <3>1, <3>2 DEF SlotAges, BatchSlot
  <2>2. CASE kept[s].first = e.at /\ s = e.slot
    <3>1. ticked \in Nat /\ now \in Nat /\ ticked <= now
      BY <1>0 DEF Clocks
    <3>2. now - e.at <= Longest /\ ticked - e.at <= Longest
      BY <1>2, <3>1, LimitsTyped
    <3> QED BY <1>2, <1>4, <2>2, <3>2
  <2> QED BY <1>4, <2>1, <2>2
<1>6. /\ slots' \in [Slots -> BatchSlot]
      /\ \A s \in Slots : slots'[s] = IF s \in DueSlots(kept, e.at) THEN EmptySlot ELSE kept[s]
      /\ channel' \in Seq(BatchChange) /\ Len(channel') <= Capacity
      /\ ChannelAges'
      /\ woken => woken'
      /\ channel' = channel \/ (Len(channel') >= HighWater => woken')
  <2>1. ticked \in Nat
    BY <1>0 DEF Clocks
  <2> QED BY <1>0, <1>1, <1>4, <1>5, <2>1, HandsOver
<1>7. SlotAges'
  <2>1. ASSUME NEW s \in Slots
        PROVE  /\ slots'[s].since = slots'[s].first
               /\ slots'[s].first # None => slots'[s].first = kept[s].first /\ kept[s].first # None
    BY <1>5, <1>6 DEF EmptySlot
  <2> QED BY <1>1, <1>3, <1>5, <2>1 DEF SlotAges
<1>8. HalfFullIsSeen'
  BY <1>0, <1>1, <1>6 DEF HalfFullIsSeen
<1> QED BY <1>3, <1>6, <1>7, <1>8 DEF AInv, Typed

\* The batches due at another session's event go out, the others stay.
LEMMA OtherEventKeepsAges ==
  ASSUME AInv, CInv', NEW at, OnOtherEvent(at)
  PROVE  AInv'
<1>0. Clocks /\ Typed /\ BufferAges /\ SlotAges /\ ChannelAges /\ HalfFullIsSeen
  BY DEF AInv, CInv
<1>1. HandOverDue(slots, at, woken) /\ UNCHANGED <<now, ticked, core, router, buffer>>
  BY DEF OnOtherEvent, sessions
<1>2. /\ slots' \in [Slots -> BatchSlot]
      /\ \A s \in Slots : slots'[s] = IF s \in DueSlots(slots, at) THEN EmptySlot ELSE slots[s]
      /\ channel' \in Seq(BatchChange) /\ Len(channel') <= Capacity
      /\ ChannelAges'
      /\ woken => woken'
      /\ channel' = channel \/ (Len(channel') >= HighWater => woken')
  <2>1. slots \in [Slots -> BatchSlot] /\ ticked \in Nat
    BY <1>0 DEF Typed, Clocks
  <2>2. \A s \in Slots : /\ slots[s].since = slots[s].first
                         /\ slots[s].first # None => ticked - slots[s].first <= Longest
    BY <1>0 DEF SlotAges
  <2> QED BY <1>0, <1>1, <2>1, <2>2, HandsOver
<1>3. SlotAges'
  BY <1>0, <1>1, <1>2 DEF SlotAges, EmptySlot
<1>4. BufferAges'
  BY <1>0, <1>1 DEF BufferAges
<1>5. HalfFullIsSeen'
  BY <1>0, <1>1, <1>2 DEF HalfFullIsSeen
<1> QED BY <1>0, <1>1, <1>2, <1>3, <1>4, <1>5 DEF AInv, Typed

\* A tick hands over all whose window has passed: what stays is younger.
LEMMA FlushKeepsAges == AInv /\ CInv' /\ Flushes => AInv'
<1> SUFFICES ASSUME AInv, CInv', Flushes PROVE AInv'
  OBVIOUS
<1>0. Clocks /\ Typed /\ BufferAges /\ SlotAges /\ ChannelAges /\ HalfFullIsSeen
  BY DEF AInv, CInv
<1>1. core' = "flushed" /\ UNCHANGED <<now, ticked, router, buffer>>
  BY DEF Flushes, KeepsSessions
<1>2. BufferAges' /\ HalfFullIsSeen'
  BY <1>0, <1>1 DEF BufferAges, HalfFullIsSeen
<1>3. CASE router
  <2>1. HandOverDue(slots, now, FALSE)
    BY <1>3 DEF Flushes
  <2>2. /\ slots' \in [Slots -> BatchSlot]
        /\ \A s \in Slots : slots'[s] = IF s \in DueSlots(slots, now) THEN EmptySlot ELSE slots[s]
        /\ channel' \in Seq(BatchChange) /\ Len(channel') <= Capacity
        /\ ChannelAges'
    <3>1. slots \in [Slots -> BatchSlot] /\ ticked \in Nat
      BY <1>0 DEF Typed, Clocks
    <3>2. \A s \in Slots : /\ slots[s].since = slots[s].first
                           /\ slots[s].first # None => ticked - slots[s].first <= Longest
      BY <1>0 DEF SlotAges
    <3> QED BY <1>0, <1>1, <2>1, <3>1, <3>2, HandsOver
  <2>3. ASSUME NEW s \in Slots, slots'[s].first # None
        PROVE  slots'[s] = slots[s] /\ now - slots[s].first <= Longest
    <3>1. s \notin DueSlots(slots, now) /\ slots'[s] = slots[s]
      BY <2>2, <2>3 DEF EmptySlot
    <3>2. slots[s].since = slots[s].first /\ slots[s].first \in Nat /\ now \in Nat
      BY <1>0, <2>3, <3>1 DEF SlotAges, Typed, BatchSlot, Clocks
    <3>3. ~(now - slots[s].first >= Window)
      BY <2>3, <3>1, <3>2 DEF DueSlots
    <3>4. now - slots[s].first <= Longest
      BY <3>2, <3>3, LimitsTyped
    <3> QED BY <3>1, <3>4
  <2>4. \A s \in Slots : slots'[s].since = slots'[s].first
    BY <1>0, <2>2 DEF SlotAges, EmptySlot
  <2>5. SlotAges'
    BY <1>0, <1>1, <2>3, <2>4 DEF SlotAges
  <2> QED BY <1>0, <1>1, <1>2, <2>2, <2>5 DEF AInv, Typed
<1>4. CASE ~router
  <2>1. UNCHANGED <<slots, channel>>
    BY <1>4 DEF Flushes
  <2>2. \A s \in Slots : slots[s].first = None
    BY <1>0, <1>4 DEF SlotAges
  <2>3. SlotAges' /\ ChannelAges'
    BY <1>0, <1>1, <2>1, <2>2 DEF SlotAges, ChannelAges
  <2> QED BY <1>0, <1>1, <1>2, <2>1, <2>3 DEF AInv, Typed
<1> QED BY <1>3, <1>4

\* Sessions that start again begin with nothing batched.
LEMMA RestartKeepsAges ==
  ASSUME AInv, CInv', NEW starts, Restarts(starts)
  PROVE  AInv'
<1>0. Clocks /\ Typed /\ BufferAges /\ SlotAges /\ ChannelAges /\ HalfFullIsSeen
  BY DEF AInv, CInv
<1>1. /\ buffer' = <<>> /\ slots' = EmptySlots /\ core' = "flushed"
      /\ UNCHANGED <<now, ticked, channel>>
  BY DEF Restarts
<1>2. slots' \in [Slots -> BatchSlot] /\ \A s \in Slots : slots'[s] = EmptySlot
  BY <1>1, EmptyTyped DEF EmptySlots
<1>3. SlotAges'
  BY <1>2 DEF SlotAges, EmptySlot
<1>4. buffer' \in Seq(Read) /\ BufferAges'
  BY <1>1 DEF BufferAges
<1>5. ChannelAges' /\ HalfFullIsSeen'
  BY <1>0, <1>1 DEF ChannelAges, HalfFullIsSeen
<1> QED BY <1>0, <1>1, <1>2, <1>3, <1>4, <1>5 DEF AInv, Typed

\* The drain empties the channel at the end of the tick.
LEMMA DrainKeepsAges ==
  ASSUME AInv, CInv', NEW reads, Drains(reads)
  PROVE  AInv'
<1>0. Clocks /\ Typed /\ BufferAges /\ SlotAges /\ ChannelAges /\ HalfFullIsSeen
  BY DEF AInv, CInv
<1>1. /\ core = "flushed" /\ core' = "parked" /\ ticked' = now /\ channel' = <<>>
      /\ UNCHANGED <<now, router, buffer, slots>>
  BY DEF Drains, sessions
<1>2. SlotAges'
  BY <1>0, <1>1 DEF SlotAges
<1>3. BufferAges' /\ ChannelAges'
  BY <1>0, <1>1 DEF BufferAges, ChannelAges
<1>4. channel' \in Seq(BatchChange) /\ Len(channel') = 0
  BY <1>1
<1>5. HalfFullIsSeen'
  BY <1>4, LimitsTyped DEF HalfFullIsSeen
<1>6. Len(channel') <= Capacity
  BY <1>4, LimitsTyped
<1> QED BY <1>0, <1>1, <1>2, <1>3, <1>4, <1>5, <1>6 DEF AInv, Typed

\* What the kernel tells of comes last in its buffers.
LEMMA TellKeepsAges ==
  ASSUME AInv, CInv', NEW transfer \in Transfers, Tells(transfer)
  PROVE  AInv'
<1>0. Clocks /\ Typed /\ BufferAges /\ SlotAges /\ ChannelAges /\ HalfFullIsSeen
  BY DEF AInv, CInv
<1>1. /\ buffer' = Append(buffer, Event(transfer))
      /\ UNCHANGED <<now, ticked, core, router, slots, channel, woken>>
  BY DEF Tells, sessions, sink
<1>2. now \in Nat /\ SlowFlush \in Nat
  BY <1>0, LimitsTyped DEF Clocks
<1>3. Event(transfer) \in Read /\ Event(transfer).at = now
  BY <1>2, TransfersAssumption DEF Event, Read, Slots
<1>4. /\ buffer' \in Seq(Read) /\ Len(buffer') = Len(buffer) + 1
      /\ \A i \in 1..Len(buffer') :
           \/ i \in 1..Len(buffer) /\ buffer'[i] = buffer[i]
           \/ i = Len(buffer') /\ buffer'[i].at = now
  <2>1. buffer \in Seq(Read)
    BY <1>0 DEF Typed
  <2>2. /\ buffer' \in Seq(Read) /\ Len(buffer') = Len(buffer) + 1
        /\ \A i \in 1..Len(buffer) : buffer'[i] = buffer[i]
        /\ buffer'[Len(buffer) + 1] = Event(transfer)
    BY <1>1, <1>3, <2>1, AppendProperties
  <2>3. Len(buffer) \in Nat
    BY <2>1
  <2> QED BY <1>3, <2>2, <2>3
<1>6. BufferAges'
  <2>1. Len(buffer) \in Nat
    BY <1>0 DEF Typed
  <2>2. \A i \in 1..Len(buffer') : buffer'[i].at <= now /\ now - buffer'[i].at <= SlowFlush
    BY <1>0, <1>2, <1>4 DEF BufferAges
  <2>3. ASSUME NEW i \in 1..Len(buffer'), NEW j \in 1..Len(buffer'), i <= j
        PROVE  buffer'[i].at <= buffer'[j].at
    <3>1. CASE j = Len(buffer') /\ buffer'[j].at = now
      BY <2>2, <3>1
    <3>2. CASE j \in 1..Len(buffer) /\ buffer'[j] = buffer[j]
      <4>1. i \in 1..Len(buffer) /\ buffer'[i] = buffer[i]
        BY <1>4, <2>1, <2>3, <3>2
      <4> QED BY <1>0, <2>3, <3>2, <4>1 DEF BufferAges
    <3> QED BY <1>4, <3>1, <3>2
  <2> QED BY <1>1, <2>2, <2>3 DEF BufferAges
<1>7. SlotAges'
  BY <1>0, <1>1, <1>4 DEF SlotAges
<1>8. ChannelAges' /\ HalfFullIsSeen'
  BY <1>0, <1>1 DEF ChannelAges, HalfFullIsSeen
<1> QED BY <1>0, <1>1, <1>4, <1>6, <1>7, <1>8 DEF AInv, Typed

\* A session that stops takes its buffers with it, or leaves them.
LEMMA StopKeepsAges ==
  ASSUME AInv, CInv', NEW s, SessionStops(s)
  PROVE  AInv'
<1>0. Clocks /\ Typed /\ BufferAges /\ SlotAges /\ ChannelAges /\ HalfFullIsSeen
  BY DEF AInv, CInv
<1>1. /\ buffer' \in {<<>>, buffer}
      /\ UNCHANGED <<now, ticked, core, router, slots, channel, woken>>
  BY DEF SessionStops, sink
<1>2. buffer' \in Seq(Read) /\ BufferAges'
  <2>1. CASE buffer' = buffer
    BY <1>0, <1>1, <2>1 DEF Typed, BufferAges
  <2>2. CASE buffer' = <<>>
    BY <2>2 DEF BufferAges
  <2> QED BY <1>1, <2>1, <2>2
<1>3. SlotAges'
  BY <1>0, <1>1 DEF SlotAges
<1>4. ChannelAges' /\ HalfFullIsSeen'
  BY <1>0, <1>1 DEF ChannelAges, HalfFullIsSeen
<1> QED BY <1>0, <1>1, <1>2, <1>3, <1>4 DEF AInv, Typed

\* Time passes while the oldest event in the buffers may wait.
LEMMA TimeKeepsAges == AInv /\ CInv' /\ TimePasses => AInv'
<1> SUFFICES ASSUME AInv, CInv', TimePasses PROVE AInv'
  OBVIOUS
<1>0. Clocks /\ Typed /\ BufferAges /\ SlotAges /\ ChannelAges /\ HalfFullIsSeen
  BY DEF AInv, CInv
<1>1. /\ core = "parked" /\ now' = now + 1
      /\ buffer # <<>> => now - Head(buffer).at < SlowFlush
      /\ UNCHANGED <<ticked, core, router, buffer, slots, channel, woken>>
  BY DEF TimePasses, sink, sessions
<1>2. now \in Nat /\ SlowFlush \in Nat
  BY <1>0, LimitsTyped DEF Clocks
<1>3. ASSUME NEW i \in 1..Len(buffer)
      PROVE  buffer[i].at <= now + 1 /\ now + 1 - buffer[i].at <= SlowFlush
  <2>1. buffer \in Seq(Read) /\ 1 \in 1..Len(buffer) /\ buffer # <<>> /\ 1 <= i
    BY <1>0, <1>3 DEF Typed
  <2>2. buffer[i].at \in Nat /\ buffer[1].at \in Nat /\ Head(buffer) = buffer[1]
    <3>1. buffer[i] \in Read /\ buffer[1] \in Read /\ Head(buffer) = buffer[1]
      BY <1>3, <2>1
    <3> QED BY <3>1 DEF Read
  <2>3. buffer[1].at <= buffer[i].at /\ buffer[i].at <= now
    BY <1>0, <2>1 DEF BufferAges
  <2>4. now - buffer[1].at < SlowFlush
    BY <1>1, <2>1, <2>2
  <2> QED BY <1>2, <2>2, <2>3, <2>4
<1>4. BufferAges'
  <2>0. buffer' = buffer /\ now' = now + 1
    BY <1>1
  <2>1. ASSUME NEW i \in 1..Len(buffer')
        PROVE  buffer'[i].at <= now' /\ now' - buffer'[i].at <= SlowFlush
    <3>1. i \in 1..Len(buffer) /\ buffer'[i] = buffer[i]
      BY <2>0
    <3>2. buffer[i].at <= now + 1 /\ now + 1 - buffer[i].at <= SlowFlush
      BY <1>3, <3>1
    <3>3. buffer[i] \in Read
      BY <1>0, <3>1 DEF Typed
    <3>4. buffer[i].at \in Nat
      BY <3>3 DEF Read
    <3> QED BY <1>2, <2>0, <3>1, <3>2, <3>4
  <2> QED BY <1>0, <1>1, <2>1 DEF BufferAges
<1>5. SlotAges'
  <2>1. \A s \in Slots : slots[s].first # None => slots[s].first \in Nat
    BY <1>0 DEF Typed, BatchSlot
  <2>2. core' # "flushed"
    BY <1>1
  <2>3. \A s \in Slots : slots[s].first # None => slots[s].first <= now + 1
    BY <1>0, <1>2, <2>1 DEF SlotAges
  <2> QED BY <1>0, <1>1, <2>2, <2>3 DEF SlotAges
<1>6. ChannelAges' /\ HalfFullIsSeen'
  BY <1>0, <1>1 DEF ChannelAges, HalfFullIsSeen
<1> QED BY <1>0, <1>1, <1>4, <1>5, <1>6 DEF AInv, Typed

\* The ages are kept from the start on.
LEMMA AgesAreKept == Spec => []AInv
<1>1. Init => AInv
  <2> SUFFICES ASSUME Init PROVE AInv
    OBVIOUS
  <2>1. CInv
    BY PeriodsAssumption DEF Init, CInv, Clocks, MissingSinceCheck
  <2>2. slots \in [Slots -> BatchSlot] /\ \A s \in Slots : slots[s] = EmptySlot
    BY EmptyTyped DEF Init, EmptySlots
  <2>3. buffer = <<>> /\ channel = <<>> /\ Len(channel) = 0
    BY DEF Init
  <2>4. SlotAges
    BY <2>2 DEF SlotAges, EmptySlot
  <2>5. BufferAges /\ ChannelAges /\ HalfFullIsSeen
    BY <2>3, LimitsTyped DEF BufferAges, ChannelAges, HalfFullIsSeen
  <2>6. Typed
    BY <2>2, <2>3, LimitsTyped DEF Typed
  <2> QED BY <2>1, <2>4, <2>5, <2>6 DEF AInv
<1>2. ASSUME AInv, [Next]_vars PROVE AInv'
  <2>0. CInv'
    BY <1>2, ClockStep DEF AInv
  <2>1. ASSUME NEW pid \in Pids, Starts(pid) \/ Ends(pid) PROVE AInv'
    BY <1>2, <2>0, <2>1, AgesStay DEF Starts, Ends, sessions, sink
  <2>2. ASSUME NEW period, Demands(period) PROVE AInv'
    BY <1>2, <2>0, <2>2, AgesStay DEF Demands, sessions
  <2>3. CASE UNCHANGED vars
    BY <1>2, <2>0, <2>3, AgesStay DEF vars, sessions, sink
  <2>4. CASE OnEvent \/ Flushes \/ TimePasses
    BY <1>2, <2>0, <2>4, EventKeepsAges, FlushKeepsAges, TimeKeepsAges
  <2>5. ASSUME NEW at, OnOtherEvent(at) PROVE AInv'
    BY <1>2, <2>0, <2>5, OtherEventKeepsAges
  <2>6. ASSUME NEW starts, Restarts(starts) PROVE AInv'
    BY <1>2, <2>0, <2>6, RestartKeepsAges
  <2>7. ASSUME NEW reads, Drains(reads) PROVE AInv'
    BY <1>2, <2>0, <2>7, DrainKeepsAges
  <2>8. ASSUME NEW transfer \in Transfers, Tells(transfer) PROVE AInv'
    BY <1>2, <2>0, <2>8, TellKeepsAges
  <2>9. ASSUME NEW s, SessionStops(s) PROVE AInv'
    BY <1>2, <2>0, <2>9, StopKeepsAges
  <2> QED
    BY <1>2, <2>1, <2>2, <2>3, <2>4, <2>5, <2>6, <2>7, <2>8, <2>9 DEF Next
<1> QED BY <1>1, <1>2, PTL DEF Spec

\* A byte is charged soon: it waits in its batch and in the channel for no
\* longer than its session may hold it, or its window, and the next tick, and
\* a channel half full has woken the core, for any windows, flushes and ticks,
\* any sessions, and however many bytes (RouterCore::hand_over_due, Sink::emit).
THEOREM BytesAreInTime == Spec => []InTime
<1>1. AInv => InTime
  <2> SUFFICES ASSUME AInv PROVE InTime
    OBVIOUS
  <2>0. Clocks /\ Typed /\ SlotAges /\ ChannelAges /\ HalfFullIsSeen
    BY DEF AInv, CInv
  <2>1. now \in Nat /\ ticked \in Nat /\ now - ticked <= TickEvery
    BY <2>0 DEF Clocks
  <2>2. ASSUME NEW s \in Slots, slots[s].since # None
        PROVE  now - slots[s].first <= Longest + TickEvery
    <3>1. slots[s].first \in Nat /\ ticked - slots[s].first <= Longest
      BY <2>0, <2>2 DEF SlotAges, Typed, BatchSlot
    <3> QED BY <2>1, <3>1, LimitsTyped
  <2>3. ASSUME NEW i \in DOMAIN channel
        PROVE  now - channel[i].first <= Longest + TickEvery
    <3>1. i \in 1..Len(channel) /\ channel[i].first \in Nat
      <4>1. channel \in Seq(BatchChange)
        BY <2>0 DEF Typed
      <4>2. i \in 1..Len(channel) /\ channel[i] \in BatchChange
        BY <2>3, <4>1
      <4> QED BY <4>2 DEF BatchChange
    <3>2. ticked - channel[i].first <= Longest
      BY <2>0, <3>1 DEF ChannelAges
    <3> QED BY <2>1, <3>1, <3>2, LimitsTyped
  <2> QED BY <2>0, <2>2, <2>3 DEF InTime
<1> QED BY <1>1, AgesAreKept, PTL

-----------------------------------------------------------------------------
(***************************************************************************)
(* What is charged in one drain is charged change by change.               *)
(***************************************************************************)
\* What holds of nought and of each next number of those in it holds of all.
LEMMA Induction ==
  ASSUME NEW S, 0 \in S, \A n \in Nat : n \in S => n + 1 \in S
  PROVE  Nat \subseteq S
<1> DEFINE before == {pair \in Nat \X Nat : pair[1] < pair[2]}
           others == Nat \ S
<1> SUFFICES ASSUME others # {} PROVE FALSE
  OBVIOUS
<1>1. IsWellFoundedOn(before, Nat)
  BY NatLessThanWellFounded DEF OpToRel
<1>2. others \subseteq Nat
  OBVIOUS
<1> HIDE DEF before, others
<1>3. PICK least \in others : \A n \in others : <<n, least>> \notin before
  BY <1>1, <1>2, WFMin
<1>4. least \in Nat /\ least \notin S
  BY <1>3 DEF others
<1>5. least - 1 \in Nat /\ least - 1 < least /\ (least - 1) + 1 = least
  BY <1>4
<1>6. <<least - 1, least>> \in before
  BY <1>4, <1>5 DEF before
<1>7. least - 1 \in S
  BY <1>3, <1>5, <1>6 DEF others
<1> QED BY <1>4, <1>5, <1>7

\* AllApplied goes from change to change.
LEMMA AllAppliedStepwise ==
  ASSUME NEW by, NEW changes, Len(changes) \in Nat
  PROVE  \E after :
           /\ AllApplied(by, changes) = after[Len(changes)]
           /\ after[0] = by
           /\ \A n \in 1..Len(changes) : after[n] = Applied(after[n - 1], changes[n])
<1> DEFINE At(g, n) == IF n = 0 THEN by ELSE Applied(g[n - 1], changes[n])
           Is(g, m) == g = [n \in 0..m |-> At(g, n)]
           there == {m \in Nat : \E g : Is(g, m)}
<1>1. 0 \in there
  <2>1. Is([n \in 0..0 |-> by], 0)
    OBVIOUS
  <2> QED BY <2>1
<1>2. ASSUME NEW m \in Nat, m \in there PROVE m + 1 \in there
  <2>1. PICK g : Is(g, m)
    BY <1>2
  <2> DEFINE h == [n \in 0..m + 1 |-> IF n = m + 1 THEN Applied(g[m], changes[m + 1]) ELSE g[n]]
  <2>2. \A n \in 0..m : h[n] = g[n] /\ g[n] = At(g, n)
    BY <2>1
  <2>3. ASSUME NEW n \in 0..m + 1 PROVE h[n] = At(h, n)
    <3>1. CASE n = m + 1
      <4>1. n # 0 /\ n - 1 = m /\ h[n] = Applied(g[m], changes[n]) /\ h[m] = g[m]
        BY <2>2, <3>1
      <4> QED BY <4>1
    <3>2. CASE n # m + 1 /\ n = 0
      <4>0. n \in 0..m
        BY <3>2
      <4>1. h[n] = g[n] /\ g[n] = At(g, n)
        <5> HIDE DEF h, At
        <5> QED BY <2>2, <4>0
      <4>2. At(g, n) = by /\ At(h, n) = by
        BY <3>2
      <4> QED BY <4>1, <4>2
    <3>3. CASE n # m + 1 /\ n # 0
      <4>1. n \in 0..m /\ n - 1 \in 0..m
        BY <3>3
      <4>2. h[n] = g[n] /\ h[n - 1] = g[n - 1] /\ g[n] = Applied(g[n - 1], changes[n])
        BY <2>2, <3>3, <4>1
      <4> QED BY <3>3, <4>2
    <3> QED BY <3>1, <3>2, <3>3
  <2>4. Is(h, m + 1)
    <3>1. DOMAIN h = 0..m + 1 /\ h = [n \in 0..m + 1 |-> h[n]]
      OBVIOUS
    <3> HIDE DEF h, At
    <3> QED BY <2>3, <3>1
  <2> HIDE DEF Is, h
  <2> QED BY <2>4
<1>3. Len(changes) \in there
  <2> HIDE DEF there
  <2> QED BY <1>1, <1>2, Induction
<1> DEFINE after == CHOOSE g : Is(g, Len(changes))
<1>4. Is(after, Len(changes))
  <2> HIDE DEF Is
  <2> QED BY <1>3
<1>5. AllApplied(by, changes) = after[Len(changes)]
  BY DEF AllApplied
<1> HIDE DEF after
<1>6. \A n \in 0..Len(changes) : after[n] = At(after, n)
  BY <1>4
<1> WITNESS after
<1> QED BY <1>5, <1>6

\* What is counted of a process is a number of bytes.
IsCounters(by) ==
  \A pid \in DOMAIN by : \E seq : \E bytes \in Nat : by[pid] = [seq |-> seq, bytes |-> bytes]

\* What is counted of the processes listed has not gone back.
NoneWentBack(was, is) ==
  \A pid \in Pids : listed[pid] # None =>
    Network(is, pid, listed[pid]) >= Network(was, pid, listed[pid])

\* What is counted of one is a number.
LEMMA NetworkTyped ==
  ASSUME NEW by, IsCounters(by), NEW pid, NEW seq
  PROVE  Network(by, pid, seq) \in Nat
<1>1. CASE pid \in DOMAIN by
  <2>1. PICK s : \E b \in Nat : by[pid] = [seq |-> s, bytes |-> b]
    BY <1>1 DEF IsCounters
  <2>2. by[pid].bytes \in Nat
    BY <2>1
  <2> QED BY <2>2 DEF Network
<1>2. CASE pid \notin DOMAIN by
  BY <1>2 DEF Network
<1> QED BY <1>1, <1>2

\* A change that is charged takes nothing from a process that is listed.
LEMMA ChargedGrows ==
  ASSUME NEW by, IsCounters(by), NEW deltas \in Deltas
  PROVE  /\ IsCounters(Charged(listed, by, deltas))
         /\ NoneWentBack(by, Charged(listed, by, deltas))
<1> DEFINE is == Charged(listed, by, deltas)
           keys == DOMAIN by \cup {p \in DOMAIN deltas : listed[p] # None}
           Of(pid) == IF pid \notin DOMAIN deltas \/ listed[pid] = None THEN by[pid]
                      ELSE IF pid \in DOMAIN by /\ by[pid].seq = listed[pid]
                           THEN [by[pid] EXCEPT !.bytes = @ + deltas[pid].all]
                           ELSE [seq |-> listed[pid], bytes |-> deltas[pid].all]
<1>1. is = [pid \in keys |-> Of(pid)]
  BY DEF Charged
<1>2. DOMAIN is = keys /\ \A pid \in keys : is[pid] = Of(pid)
  <2> HIDE DEF is, keys, Of
  <2> QED BY <1>1
<1>3. \A pid \in DOMAIN deltas : deltas[pid].all \in Nat
  <2>1. PICK pids \in SUBSET Pids : deltas \in [pids -> [all : Nat, loopback : Nat]]
    BY DEF Deltas
  <2> QED BY <2>1
<1>4. ASSUME NEW pid \in keys
      PROVE  /\ \E seq : \E bytes \in Nat : is[pid] = [seq |-> seq, bytes |-> bytes]
             /\ pid \in DOMAIN by /\ by[pid].seq = listed[pid] =>
                  is[pid].seq = by[pid].seq /\ is[pid].bytes >= by[pid].bytes
  <2> HIDE DEF is
  <2>1. CASE pid \notin DOMAIN deltas \/ listed[pid] = None
    <3>1. is[pid] = by[pid] /\ pid \in DOMAIN by
      BY <1>2, <2>1
    <3>2. PICK s : \E b \in Nat : by[pid] = [seq |-> s, bytes |-> b]
      BY <3>1 DEF IsCounters
    <3>3. PICK b \in Nat : by[pid] = [seq |-> s, bytes |-> b]
      BY <3>2
    <3>4. by[pid].bytes = b /\ by[pid].bytes >= by[pid].bytes
      BY <3>3
    <3> QED BY <3>1, <3>3, <3>4
  <2>2. CASE /\ ~(pid \notin DOMAIN deltas \/ listed[pid] = None)
             /\ pid \in DOMAIN by /\ by[pid].seq = listed[pid]
    <3>1. is[pid] = [by[pid] EXCEPT !.bytes = @ + deltas[pid].all]
      BY <1>2, <2>2
    <3>0. PICK s : \E b \in Nat : by[pid] = [seq |-> s, bytes |-> b]
      BY <2>2 DEF IsCounters
    <3>2. PICK b \in Nat : by[pid] = [seq |-> s, bytes |-> b]
      BY <3>0
    <3>3. is[pid] = [seq |-> s, bytes |-> b + deltas[pid].all]
      BY <3>1, <3>2
    <3>4. deltas[pid].all \in Nat
      BY <1>3, <2>2
    <3>5. b + deltas[pid].all \in Nat /\ b + deltas[pid].all >= b
      BY <3>4
    <3>6. by[pid].seq = s /\ by[pid].bytes = b
      BY <3>2
    <3>7. is[pid].seq = s /\ is[pid].bytes = b + deltas[pid].all
      BY <3>3
    <3> QED BY <3>3, <3>5, <3>6, <3>7
  <2>3. CASE /\ ~(pid \notin DOMAIN deltas \/ listed[pid] = None)
             /\ ~(pid \in DOMAIN by /\ by[pid].seq = listed[pid])
    <3>1. is[pid] = [seq |-> listed[pid], bytes |-> deltas[pid].all]
      BY <1>2, <2>3
    <3>2. deltas[pid].all \in Nat
      BY <1>3, <2>3
    <3> QED BY <2>3, <3>1, <3>2
  <2> QED BY <2>1, <2>2, <2>3
<1> HIDE DEF is, Of
<1>5. IsCounters(is)
  BY <1>2, <1>4 DEF IsCounters
<1>6. ASSUME NEW pid \in Pids, listed[pid] # None
      PROVE  Network(is, pid, listed[pid]) >= Network(by, pid, listed[pid])
  <2>1. Network(is, pid, listed[pid]) \in Nat
    BY <1>5, NetworkTyped
  <2>2. CASE pid \in DOMAIN by /\ by[pid].seq = listed[pid]
    <3>1. pid \in keys
      BY <2>2
    <3>2. is[pid].seq = listed[pid] /\ is[pid].bytes >= by[pid].bytes /\ pid \in DOMAIN is
      BY <1>2, <1>4, <2>2, <3>1
    <3> QED BY <2>2, <3>2 DEF Network
  <2>3. CASE ~(pid \in DOMAIN by /\ by[pid].seq = listed[pid])
    <3>1. Network(by, pid, listed[pid]) = 0
      BY <2>3 DEF Network
    <3> QED BY <2>1, <3>1
  <2> QED BY <2>2, <2>3
<1> QED BY <1>5, <1>6 DEF is, NoneWentBack

\* Nor do all the changes of a drain, one after the other.
LEMMA AllAppliedGrows ==
  ASSUME IsCounters(counters), NEW changes \in Seq(BatchChange)
  PROVE  /\ IsCounters(AllApplied(counters, changes))
         /\ NoneWentBack(counters, AllApplied(counters, changes))
<1>1. PICK after :
        /\ AllApplied(counters, changes) = after[Len(changes)]
        /\ after[0] = counters
        /\ \A n \in 1..Len(changes) : after[n] = Applied(after[n - 1], changes[n])
  BY AllAppliedStepwise
<1> DEFINE fine == {n \in Nat : n <= Len(changes) =>
                      IsCounters(after[n]) /\ NoneWentBack(counters, after[n])}
<1>2. 0 \in fine
  <2>1. NoneWentBack(counters, counters)
    <3>1. \A pid \in Pids : Network(counters, pid, listed[pid]) \in Nat
      BY NetworkTyped
    <3> QED BY <3>1 DEF NoneWentBack
  <2> QED BY <1>1, <2>1
<1>3. ASSUME NEW n \in Nat, n \in fine PROVE n + 1 \in fine
  <2> SUFFICES ASSUME n + 1 <= Len(changes)
               PROVE  IsCounters(after[n + 1]) /\ NoneWentBack(counters, after[n + 1])
    OBVIOUS
  <2>1. n + 1 \in 1..Len(changes) /\ (n + 1) - 1 = n /\ n <= Len(changes)
    OBVIOUS
  <2>2. IsCounters(after[n]) /\ NoneWentBack(counters, after[n])
    BY <1>3, <2>1
  <2>3. after[n + 1] = Applied(after[n], changes[n + 1])
    BY <1>1, <2>1
  <2>4. changes[n + 1] \in BatchChange
    BY <2>1
  <2>5. CASE changes[n + 1].slot = "net"
    <3>1. changes[n + 1].deltas \in Deltas
      BY <2>4 DEF BatchChange
    <3>2. after[n + 1] = Charged(listed, after[n], changes[n + 1].deltas)
      BY <2>3, <2>5 DEF Applied
    <3>3. IsCounters(after[n + 1]) /\ NoneWentBack(after[n], after[n + 1])
      BY <2>2, <3>1, <3>2, ChargedGrows
    <3>4. ASSUME NEW pid \in Pids, listed[pid] # None
          PROVE  Network(after[n + 1], pid, listed[pid]) >= Network(counters, pid, listed[pid])
      <4>1. /\ Network(after[n + 1], pid, listed[pid]) \in Nat
            /\ Network(after[n], pid, listed[pid]) \in Nat
            /\ Network(counters, pid, listed[pid]) \in Nat
        BY <2>2, <3>3, NetworkTyped
      <4>2. /\ Network(after[n + 1], pid, listed[pid]) >= Network(after[n], pid, listed[pid])
            /\ Network(after[n], pid, listed[pid]) >= Network(counters, pid, listed[pid])
        BY <2>2, <3>3, <3>4 DEF NoneWentBack
      <4> QED BY <4>1, <4>2
    <3> QED BY <3>3, <3>4 DEF NoneWentBack
  <2>6. CASE changes[n + 1].slot # "net"
    <3>1. after[n + 1] = after[n]
      BY <2>3, <2>6 DEF Applied
    <3> QED BY <2>2, <3>1
  <2> QED BY <2>5, <2>6
<1>4. Len(changes) \in fine
  <2> HIDE DEF fine
  <2>1. Nat \subseteq fine
    BY <1>2, <1>3, Induction
  <2> QED BY <2>1
<1> QED BY <1>1, <1>4

\* What a process that stays listed was counted is kept with it.
LEMMA RetainedKeeps ==
  ASSUME NEW by, IsCounters(by), NEW table
  PROVE  /\ IsCounters(Retained(by, table))
         /\ \A pid \in Pids : Network(Retained(by, table), pid, table[pid]) = Network(by, pid, table[pid])
<1> DEFINE rest == {pid \in DOMAIN by : by[pid].seq = table[pid]}
           is == Retained(by, table)
<1>1. is = [pid \in rest |-> by[pid]]
  BY DEF Retained, Restrict
<1>2. DOMAIN is = rest /\ \A pid \in rest : is[pid] = by[pid] /\ pid \in DOMAIN by
  BY <1>1
<1>3. \A pid \in DOMAIN by : pid \in rest <=> by[pid].seq = table[pid]
  OBVIOUS
<1> HIDE DEF is, rest
<1>4. IsCounters(is)
  BY <1>2 DEF IsCounters
<1>5. ASSUME NEW pid \in Pids PROVE Network(is, pid, table[pid]) = Network(by, pid, table[pid])
  BY <1>2, <1>3 DEF Network
<1> QED BY <1>4, <1>5 DEF is

\* What is counted of any process is a number of bytes.
CountersTyped == IsCounters(counters)

\* What the process listed on a pid is told to have sent and received never
\* goes back while it is listed, whatever batches, ticks and restarts of the
\* sessions come between, however many changes one tick drains
\* (NetworkCounters::charge, retain_listed, get).
THEOREM CountersNeverGoBack == Spec => CountersGrow
<1> DEFINE Grow == \A pid \in Pids : listed[pid] # None /\ listed'[pid] = listed[pid] =>
                     Network(counters', pid, listed[pid]) >= Network(counters, pid, listed[pid])
<1>1. Init => CountersTyped
  BY DEF Init, CountersTyped, IsCounters
<1>2. ASSUME AInv, CountersTyped, [Next]_vars
      PROVE  CountersTyped' /\ Grow
  <2>0. IsCounters(counters)
    BY <1>2 DEF CountersTyped
  <2>1. ASSUME NEW reads, Drains(reads) PROVE CountersTyped' /\ Grow
    <3> DEFINE charged == AllApplied(counters, channel)
    <3>1. channel \in Seq(BatchChange)
      BY <1>2 DEF AInv, Typed
    <3>2. IsCounters(charged) /\ NoneWentBack(counters, charged)
      BY <2>0, <3>1, AllAppliedGrows
    <3>3. \/ counters' = Retained(charged, holder) /\ listed' = holder
          \/ counters' = charged /\ listed' = listed
      BY <2>1 DEF Drains
    <3> HIDE DEF charged
    <3>4. CASE counters' = charged /\ listed' = listed
      BY <3>2, <3>4 DEF NoneWentBack, CountersTyped
    <3>5. CASE counters' = Retained(charged, holder) /\ listed' = holder
      <4>1. /\ IsCounters(Retained(charged, holder))
            /\ \A pid \in Pids :
                 Network(Retained(charged, holder), pid, holder[pid]) = Network(charged, pid, holder[pid])
        BY <3>2, RetainedKeeps
      <4> QED BY <3>2, <3>5, <4>1 DEF NoneWentBack, CountersTyped
    <3> QED BY <3>3, <3>4, <3>5
  <2>2. CASE UNCHANGED counters
    <3>1. \A pid \in Pids : Network(counters, pid, listed[pid]) \in Nat
      BY <2>0, NetworkTyped
    <3> QED BY <2>0, <2>2, <3>1 DEF CountersTyped
  <2>3. ASSUME NEW pid \in Pids, Starts(pid) \/ Ends(pid) PROVE UNCHANGED counters
    BY <2>3 DEF Starts, Ends, state
  <2>4. ASSUME NEW transfer \in Transfers, Tells(transfer) PROVE UNCHANGED counters
    BY <2>4 DEF Tells, state
  <2>5. ASSUME NEW s \in Sessions, SessionStops(s) PROVE UNCHANGED counters
    BY <2>5 DEF SessionStops, state
  <2>6. ASSUME NEW at, OnOtherEvent(at) PROVE UNCHANGED counters
    BY <2>6 DEF OnOtherEvent, state
  <2>7. ASSUME NEW starts, Restarts(starts) PROVE UNCHANGED counters
    BY <2>7 DEF Restarts, state
  <2>8. ASSUME NEW period, Demands(period) PROVE UNCHANGED counters
    BY <2>8 DEF Demands, state
  <2>9. ASSUME OnEvent \/ Flushes \/ TimePasses \/ UNCHANGED vars PROVE UNCHANGED counters
    BY <2>9 DEF OnEvent, Flushes, TimePasses, vars, state
  <2>10. (\E reads : Drains(reads)) \/ UNCHANGED counters
    BY <1>2, <2>3, <2>4, <2>5, <2>6, <2>7, <2>8, <2>9 DEF Next
  <2> QED BY <2>1, <2>2, <2>10
<1>3. AInv /\ CountersTyped /\ [Next]_vars => CountersTyped' /\ [Grow]_vars
  BY <1>2
<1> QED BY <1>1, <1>3, AgesAreKept, PTL DEF Spec, CountersGrow

-----------------------------------------------------------------------------
(***************************************************************************)
(* Sums, by induction over the numbers before them.                        *)
(***************************************************************************)
\* A total is added up number by number.
LEMMA TotalStepwise ==
  ASSUME NEW s, Len(s) \in Nat
  PROVE  \E upto :
           /\ Total(s) = upto[Len(s)]
           /\ upto[0] = 0
           /\ \A n \in 1..Len(s) : upto[n] = upto[n - 1] + s[n]
<1> DEFINE At(g, n) == IF n = 0 THEN 0 ELSE g[n - 1] + s[n]
           Is(g, m) == g = [n \in 0..m |-> At(g, n)]
           there == {m \in Nat : \E g : Is(g, m)}
<1>1. 0 \in there
  <2>1. Is([n \in 0..0 |-> 0], 0)
    OBVIOUS
  <2> QED BY <2>1
<1>2. ASSUME NEW m \in Nat, m \in there PROVE m + 1 \in there
  <2>1. PICK g : Is(g, m)
    BY <1>2
  <2> DEFINE h == [n \in 0..m + 1 |-> IF n = m + 1 THEN g[m] + s[m + 1] ELSE g[n]]
  <2>2. \A n \in 0..m : h[n] = g[n] /\ g[n] = At(g, n)
    BY <2>1
  <2>3. ASSUME NEW n \in 0..m + 1 PROVE h[n] = At(h, n)
    <3>1. CASE n = m + 1
      <4>1. n # 0 /\ n - 1 = m /\ h[n] = g[m] + s[n] /\ h[m] = g[m]
        BY <2>2, <3>1
      <4> QED BY <4>1
    <3>2. CASE n # m + 1 /\ n = 0
      <4>1. n \in 0..m
        BY <3>2
      <4>2. h[n] = g[n] /\ g[n] = At(g, n)
        <5> HIDE DEF h, At
        <5> QED BY <2>2, <4>1
      <4>3. At(g, n) = 0 /\ At(h, n) = 0
        BY <3>2
      <4> QED BY <4>2, <4>3
    <3>3. CASE n # m + 1 /\ n # 0
      <4>1. n \in 0..m /\ n - 1 \in 0..m
        BY <3>3
      <4>2. h[n] = g[n] /\ h[n - 1] = g[n - 1] /\ g[n] = g[n - 1] + s[n]
        BY <2>2, <3>3, <4>1
      <4> QED BY <3>3, <4>2
    <3> QED BY <3>1, <3>2, <3>3
  <2>4. Is(h, m + 1)
    <3>1. DOMAIN h = 0..m + 1 /\ h = [n \in 0..m + 1 |-> h[n]]
      OBVIOUS
    <3> HIDE DEF h, At
    <3> QED BY <2>3, <3>1
  <2> HIDE DEF Is, h
  <2> QED BY <2>4
<1>3. Len(s) \in there
  <2> HIDE DEF there
  <2> QED BY <1>1, <1>2, Induction
<1> DEFINE upto == CHOOSE g : Is(g, Len(s))
<1>4. Is(upto, Len(s))
  <2> HIDE DEF Is
  <2> QED BY <1>3
<1>5. Total(s) = upto[Len(s)]
  BY DEF Total
<1> HIDE DEF upto
<1>6. \A n \in 0..Len(s) : upto[n] = At(upto, n)
  BY <1>4
<1> WITNESS upto
<1> QED BY <1>5, <1>6

\* Each sum on the way is a number.
LEMMA PartialTyped ==
  ASSUME NEW s \in Seq(Nat), NEW upto, upto[0] = 0,
         \A n \in 1..Len(s) : upto[n] = upto[n - 1] + s[n]
  PROVE  \A n \in 0..Len(s) : upto[n] \in Nat
<1> DEFINE fine == {n \in Nat : n <= Len(s) => upto[n] \in Nat}
<1>1. 0 \in fine
  OBVIOUS
<1>2. ASSUME NEW n \in Nat, n \in fine PROVE n + 1 \in fine
  <2> SUFFICES ASSUME n + 1 <= Len(s) PROVE upto[n + 1] \in Nat
    OBVIOUS
  <2>1. n + 1 \in 1..Len(s) /\ (n + 1) - 1 = n /\ n <= Len(s)
    OBVIOUS
  <2>2. upto[n] \in Nat /\ s[n + 1] \in Nat /\ upto[n + 1] = upto[n] + s[n + 1]
    BY <1>2, <2>1
  <2> QED BY <2>2
<1>3. Nat \subseteq fine
  <2> HIDE DEF fine
  <2> QED BY <1>1, <1>2, Induction
<1> QED BY <1>3

\* A total of numbers is a number.
LEMMA TotalTyped == ASSUME NEW s \in Seq(Nat) PROVE Total(s) \in Nat
<1>1. PICK upto : /\ Total(s) = upto[Len(s)] /\ upto[0] = 0
                  /\ \A n \in 1..Len(s) : upto[n] = upto[n - 1] + s[n]
  BY TotalStepwise
<1>2. Len(s) \in 0..Len(s)
  OBVIOUS
<1> QED BY <1>1, <1>2, PartialTyped

\* Sums that step alike come out alike.
LEMMA SameSums ==
  ASSUME NEW N \in Nat, NEW f, NEW g, f[0] = g[0],
         \A n \in 1..N : f[n - 1] = g[n - 1] => f[n] = g[n]
  PROVE  f[N] = g[N]
<1> DEFINE fine == {n \in Nat : n <= N => f[n] = g[n]}
<1>1. 0 \in fine
  OBVIOUS
<1>2. ASSUME NEW n \in Nat, n \in fine PROVE n + 1 \in fine
  <2> SUFFICES ASSUME n + 1 <= N PROVE f[n + 1] = g[n + 1]
    OBVIOUS
  <2>1. n + 1 \in 1..N /\ (n + 1) - 1 = n /\ f[n] = g[n]
    BY <1>2
  <2> QED BY <2>1
<1>3. N \in fine
  <2> HIDE DEF fine
  <2> QED BY <1>1, <1>2, Induction
<1> QED BY <1>3


\* Noughts come to nought.
LEMMA TotalOfNothing ==
  ASSUME NEW s \in Seq(Nat), \A n \in 1..Len(s) : s[n] = 0
  PROVE  Total(s) = 0
<1>1. PICK upto : /\ Total(s) = upto[Len(s)] /\ upto[0] = 0
                  /\ \A n \in 1..Len(s) : upto[n] = upto[n - 1] + s[n]
  BY TotalStepwise
<1> DEFINE none == [n \in Nat |-> 0]
<1>2. ASSUME NEW n \in 1..Len(s), upto[n - 1] = none[n - 1] PROVE upto[n] = none[n]
  <2>1. n - 1 \in Nat /\ n \in Nat /\ s[n] = 0
    OBVIOUS
  <2> QED BY <1>1, <1>2, <2>1
<1>3. Len(s) \in Nat /\ none[0] = 0 /\ none[Len(s)] = 0
  OBVIOUS
<1> HIDE DEF none
<1> QED BY <1>1, <1>2, <1>3, SameSums

\* Two rows of numbers come to the sum of their totals.
LEMMA TotalConcat ==
  ASSUME NEW s \in Seq(Nat), NEW r \in Seq(Nat)
  PROVE  Total(s \o r) = Total(s) + Total(r)
<1> DEFINE t == s \o r
<1>0. /\ t \in Seq(Nat) /\ Len(t) = Len(s) + Len(r) /\ Len(s) \in Nat /\ Len(r) \in Nat
      /\ \A n \in 1..Len(s) : t[n] = s[n]
      /\ \A n \in 1..Len(r) : t[Len(s) + n] = r[n]
  OBVIOUS
<1> HIDE DEF t
<1>1. PICK us : /\ Total(s) = us[Len(s)] /\ us[0] = 0
                /\ \A n \in 1..Len(s) : us[n] = us[n - 1] + s[n]
  BY <1>0, TotalStepwise
<1>2. PICK ut : /\ Total(t) = ut[Len(t)] /\ ut[0] = 0
                /\ \A n \in 1..Len(t) : ut[n] = ut[n - 1] + t[n]
  <2>1. Len(t) \in Nat
    BY <1>0
  <2> QED BY <2>1, TotalStepwise
<1>3. PICK ur : /\ Total(r) = ur[Len(r)] /\ ur[0] = 0
                /\ \A n \in 1..Len(r) : ur[n] = ur[n - 1] + r[n]
  BY <1>0, TotalStepwise
<1>4. ut[Len(s)] = us[Len(s)]
  <2>1. ASSUME NEW n \in 1..Len(s), ut[n - 1] = us[n - 1] PROVE ut[n] = us[n]
    <3>1. n \in 1..Len(t) /\ t[n] = s[n]
      BY <1>0
    <3> QED BY <1>1, <1>2, <2>1, <3>1
  <2>2. ut[0] = us[0] /\ Len(s) \in Nat
    BY <1>0, <1>1, <1>2
  <2> QED BY <2>1, <2>2, SameSums
<1> DEFINE fine == {n \in Nat : n <= Len(r) => ut[Len(s) + n] = us[Len(s)] + ur[n]}
<1>5. us[Len(s)] \in Nat /\ \A n \in 0..Len(r) : ur[n] \in Nat
  <2>1. us[Len(s)] \in Nat
    BY <1>0, <1>1, TotalTyped
  <2> QED BY <1>3, <2>1, PartialTyped
<1>6. 0 \in fine
  BY <1>0, <1>3, <1>4, <1>5
<1>7. ASSUME NEW n \in Nat, n \in fine PROVE n + 1 \in fine
  <2> SUFFICES ASSUME n + 1 <= Len(r) PROVE ut[Len(s) + (n + 1)] = us[Len(s)] + ur[n + 1]
    OBVIOUS
  <2>1. /\ n + 1 \in 1..Len(r) /\ (n + 1) - 1 = n /\ n \in 0..Len(r)
        /\ Len(s) + (n + 1) \in 1..Len(t) /\ (Len(s) + (n + 1)) - 1 = Len(s) + n
    BY <1>0
  <2>2. ut[Len(s) + n] = us[Len(s)] + ur[n] /\ ur[n] \in Nat
    BY <1>5, <1>7, <2>1
  <2>3. r[n + 1] \in Nat /\ t[Len(s) + (n + 1)] = r[n + 1]
    BY <1>0, <2>1, SMTT(20)
  <2>4. ut[Len(s) + (n + 1)] = ut[Len(s) + n] + r[n + 1]
    BY <1>2, <2>1, <2>3
  <2>5. ur[n + 1] = ur[n] + r[n + 1]
    BY <1>3, <2>1
  <2> QED BY <1>5, <2>2, <2>3, <2>4, <2>5
<1>8. Len(r) \in fine
  <2> HIDE DEF fine
  <2> QED BY <1>0, <1>6, <1>7, Induction
<1> QED BY <1>0, <1>1, <1>2, <1>3, <1>8 DEF t

\* One number comes to itself.
LEMMA TotalOfOne == ASSUME NEW x \in Nat PROVE Total(<<x>>) = x
<1> DEFINE s == <<x>>
<1>1. s \in Seq(Nat) /\ Len(s) = 1 /\ s[1] = x /\ 1 \in 1..Len(s) /\ 1 - 1 = 0
  OBVIOUS
<1> HIDE DEF s
<1>2. Len(s) \in Nat
  BY <1>1
<1>3. PICK upto : /\ Total(s) = upto[Len(s)] /\ upto[0] = 0
                  /\ \A n \in 1..Len(s) : upto[n] = upto[n - 1] + s[n]
  BY <1>2, TotalStepwise
<1>4. upto[1] = upto[1 - 1] + s[1]
  BY <1>1, <1>3
<1>5. Total(s) = x
  BY <1>1, <1>3, <1>4
<1> QED BY <1>5 DEF s

\* A number that grows adds as much to the total.
LEMMA TotalGrows ==
  ASSUME NEW s \in Seq(Nat), NEW t \in Seq(Nat), Len(t) = Len(s),
         NEW i \in 1..Len(s), NEW x \in Nat,
         \A n \in 1..Len(s) : t[n] = IF n = i THEN s[n] + x ELSE s[n]
  PROVE  Total(t) = Total(s) + x
<1>0. Len(s) \in Nat /\ i \in Nat
  OBVIOUS
<1>1. PICK us : /\ Total(s) = us[Len(s)] /\ us[0] = 0
                /\ \A n \in 1..Len(s) : us[n] = us[n - 1] + s[n]
  BY <1>0, TotalStepwise
<1>2. PICK ut : /\ Total(t) = ut[Len(t)] /\ ut[0] = 0
                /\ \A n \in 1..Len(t) : ut[n] = ut[n - 1] + t[n]
  BY <1>0, TotalStepwise
<1> DEFINE more == [n \in Nat |-> IF n < i THEN us[n] ELSE us[n] + x]
<1>3. more[0] = 0 /\ more[Len(s)] = us[Len(s)] + x
  BY <1>0, <1>1
<1>4. ASSUME NEW n \in 1..Len(s), ut[n - 1] = more[n - 1] PROVE ut[n] = more[n]
  <2>1. n \in Nat /\ n - 1 \in Nat /\ n - 1 \in 0..Len(s) /\ s[n] \in Nat /\ n \in 1..Len(t)
    OBVIOUS
  <2>2. us[n - 1] \in Nat
    BY <1>1, <2>1, PartialTyped
  <2>3. us[n] = us[n - 1] + s[n] /\ ut[n] = more[n - 1] + t[n]
    BY <1>1, <1>2, <1>4, <2>1
  <2>4. CASE n < i
    <3>1. more[n - 1] = us[n - 1] /\ more[n] = us[n] /\ t[n] = s[n]
      BY <1>0, <2>1, <2>4
    <3> QED BY <2>3, <3>1
  <2>5. CASE n = i
    <3>1. more[n - 1] = us[n - 1] /\ more[n] = us[n] + x /\ t[n] = s[n] + x
      BY <1>0, <2>1, <2>5
    <3> HIDE DEF more
    <3>2. ut[n] = us[n - 1] + (s[n] + x) /\ more[n] = (us[n - 1] + s[n]) + x
      BY <2>3, <3>1
    <3> QED BY <2>1, <2>2, <3>2, SMTT(20)
  <2>6. CASE n > i
    <3>1. more[n - 1] = us[n - 1] + x /\ more[n] = us[n] + x /\ t[n] = s[n]
      BY <1>0, <2>1, <2>6
    <3> HIDE DEF more
    <3>2. ut[n] = (us[n - 1] + x) + s[n] /\ more[n] = (us[n - 1] + s[n]) + x
      BY <2>3, <3>1
    <3> QED BY <2>1, <2>2, <3>2, SMTT(20)
  <2> QED BY <1>0, <2>1, <2>4, <2>5, <2>6
<1> HIDE DEF more
<1>5. ut[Len(s)] = more[Len(s)]
  <2>1. ut[0] = more[0] /\ Len(s) \in Nat
    BY <1>0, <1>2, <1>3
  <2> QED BY <1>4, <2>1, SameSums
<1> QED BY <1>1, <1>2, <1>3, <1>5

-----------------------------------------------------------------------------
(***************************************************************************)
(* The bytes of batches, of the channel and of the buffers.                *)
(***************************************************************************)
\* Bytes of loopback are among all the bytes.
Sound(d) == d \in Deltas /\ \A k \in DOMAIN d : d[k].loopback <= d[k].all

\* What each pid in turn adds to the bytes that left the machine.
OutsideOf(d) ==
  [n \in 1..Cardinality(Pids) |->
     IF PidSeq[n] \in DOMAIN d THEN d[PidSeq[n]].all - d[PidSeq[n]].loopback ELSE 0]

\* The pids in a row: each once.
LEMMA PidsInARow ==
  /\ Cardinality(Pids) \in Nat
  /\ \A n \in 1..Cardinality(Pids) : PidSeq[n] \in Pids
  /\ \A p \in Pids : \E n \in 1..Cardinality(Pids) : PidSeq[n] = p
  /\ \A n, m \in 1..Cardinality(Pids) : PidSeq[n] = PidSeq[m] => n = m
<1>1. Cardinality(Pids) \in Nat /\ ExistsBijection(1..Cardinality(Pids), Pids)
  BY PidsAssumption, FS_CardinalityType
<1>2. PidSeq \in Bijection(1..Cardinality(Pids), Pids)
  <2>1. \E q \in Bijection(1..Cardinality(Pids), Pids) : TRUE
    BY <1>1 DEF ExistsBijection
  <2> QED BY <2>1 DEF PidSeq
<1>3. /\ PidSeq \in [1..Cardinality(Pids) -> Pids]
      /\ \A n, m \in 1..Cardinality(Pids) : PidSeq[n] = PidSeq[m] => n = m
      /\ \A p \in Pids : \E n \in 1..Cardinality(Pids) : PidSeq[n] = p
  BY <1>2 DEF Bijection, Injection, Surjection, IsInjective
<1> QED BY <1>1, <1>3

\* What a pid is counted is two numbers.
LEMMA DeltaTyped ==
  ASSUME NEW d, Sound(d), NEW k \in DOMAIN d
  PROVE  /\ k \in Pids /\ d[k].all \in Nat /\ d[k].loopback \in Nat
         /\ d[k].all - d[k].loopback \in Nat
<1>1. PICK keys \in SUBSET Pids : d \in [keys -> [all : Nat, loopback : Nat]]
  BY DEF Sound, Deltas
<1>2. k \in Pids /\ d[k] \in [all : Nat, loopback : Nat]
  BY <1>1
<1>3. d[k].loopback <= d[k].all
  BY DEF Sound
<1>4. d[k].all \in Nat /\ d[k].loopback \in Nat
  BY <1>2
<1> QED BY <1>2, <1>3, <1>4

\* The bytes of a batch are a number.
LEMMA OutsideTyped ==
  ASSUME NEW d, Sound(d)
  PROVE  /\ OutsideOf(d) \in Seq(Nat) /\ Len(OutsideOf(d)) = Cardinality(Pids)
         /\ Outside(d) = Total(OutsideOf(d)) /\ Outside(d) \in Nat
<1>1. \A n \in 1..Cardinality(Pids) :
        (IF PidSeq[n] \in DOMAIN d THEN d[PidSeq[n]].all - d[PidSeq[n]].loopback ELSE 0) \in Nat
  BY DeltaTyped
<1>2. OutsideOf(d) \in [1..Cardinality(Pids) -> Nat]
  BY <1>1 DEF OutsideOf
<1>3. OutsideOf(d) \in Seq(Nat) /\ Len(OutsideOf(d)) = Cardinality(Pids)
  BY <1>2, PidsInARow
<1>4. Outside(d) = Total(OutsideOf(d))
  BY DEF Outside, OutsideOf
<1> QED BY <1>3, <1>4, TotalTyped

\* A batch with nothing in it has no bytes.
LEMMA NothingOutside == Sound(<<>>) /\ Outside(<<>>) = 0
<1>1. <<>> \in Deltas /\ DOMAIN <<>> = {}
  BY EmptyTyped DEF EmptySlot, BatchSlot
<1>2. Sound(<<>>)
  BY <1>1 DEF Sound
<1>3. \A n \in 1..Cardinality(Pids) : OutsideOf(<<>>)[n] = 0
  BY DEF OutsideOf
<1>4. Total(OutsideOf(<<>>)) = 0
  BY <1>2, <1>3, OutsideTyped, TotalOfNothing
<1> QED BY <1>2, <1>4, OutsideTyped

\* An event adds its byte to the batch, but for loopback and what is not read.
LEMMA AddedCounts ==
  ASSUME NEW d, Sound(d), NEW e \in Read
  PROVE  Sound(Added(d, e)) /\ Outside(Added(d, e)) = Outside(d) + BytesOut(e)
<1>1. CASE e.key = None
  BY <1>1, OutsideTyped DEF Added, BytesOut
<1>2. CASE e.key # None
  <2> DEFINE k == e.key
             was == IF k \in DOMAIN d THEN d[k] ELSE Zero
             is == Added(d, e)
  <2>1. k \in Pids /\ e.loopback \in BOOLEAN
    BY <1>2 DEF Read
  <2>2. /\ was.all \in Nat /\ was.loopback \in Nat /\ was.loopback <= was.all
    <3>1. CASE k \in DOMAIN d
      BY <3>1, DeltaTyped DEF Sound
    <3>2. CASE k \notin DOMAIN d
      BY <3>2 DEF Zero
    <3> QED BY <3>1, <3>2
  <2>3. /\ DOMAIN is = DOMAIN d \cup {k}
        /\ is[k] = Counted(was, e)
        /\ \A p \in DOMAIN d : p # k => is[p] = d[p]
    BY <1>2 DEF Added
  <2>4. is \in Deltas
    BY AddedTyped DEF Sound
  <2> HIDE DEF is, was
  <2>5. /\ is[k].all = was.all + 1
        /\ is[k].loopback = was.loopback + IF e.loopback THEN 1 ELSE 0
    BY <2>3 DEF Counted
  <2>6. is[k].loopback <= is[k].all
    BY <2>2, <2>5
  <2>7. Sound(is)
    BY <2>3, <2>4, <2>6 DEF Sound
  <2>8. is[k].all - is[k].loopback = (was.all - was.loopback) + BytesOut(e)
    <3>1. CASE e.loopback
      BY <2>2, <2>5, <3>1 DEF BytesOut
    <3>2. CASE ~e.loopback
      BY <1>2, <2>2, <2>5, <3>2 DEF BytesOut
    <3> QED BY <3>1, <3>2
  <2>9. PICK i \in 1..Cardinality(Pids) : PidSeq[i] = k
    BY <2>1, PidsInARow
  <2>10. ASSUME NEW n \in 1..Cardinality(Pids)
         PROVE  OutsideOf(is)[n] = IF n = i THEN OutsideOf(d)[n] + BytesOut(e) ELSE OutsideOf(d)[n]
    <3>1. CASE n = i
      <4>1. OutsideOf(is)[n] = is[k].all - is[k].loopback
        BY <2>3, <2>9, <3>1 DEF OutsideOf
      <4>2. OutsideOf(d)[n] = was.all - was.loopback
        BY <2>9, <3>1 DEF OutsideOf, was, Zero
      <4> QED BY <2>8, <3>1, <4>1, <4>2
    <3>2. CASE n # i
      <4>1. PidSeq[n] # k
        BY <2>9, <3>2, PidsInARow
      <4>2. PidSeq[n] \in DOMAIN is <=> PidSeq[n] \in DOMAIN d
        BY <2>3, <4>1
      <4>3. PidSeq[n] \in DOMAIN d => is[PidSeq[n]] = d[PidSeq[n]]
        BY <2>3, <4>1
      <4> QED BY <3>2, <4>2, <4>3 DEF OutsideOf
    <3> QED BY <3>1, <3>2
  <2>11. Total(OutsideOf(is)) = Total(OutsideOf(d)) + BytesOut(e)
    <3>1. /\ OutsideOf(is) \in Seq(Nat) /\ OutsideOf(d) \in Seq(Nat)
          /\ Len(OutsideOf(is)) = Cardinality(Pids) /\ Len(OutsideOf(d)) = Cardinality(Pids)
      BY <2>7, OutsideTyped
    <3>2. BytesOut(e) \in Nat
      BY DEF BytesOut
    <3> DEFINE before == OutsideOf(d)
               after == OutsideOf(is)
               x == BytesOut(e)
    <3>3. /\ before \in Seq(Nat) /\ after \in Seq(Nat) /\ Len(after) = Len(before) /\ x \in Nat
          /\ i \in 1..Len(before)
          /\ \A n \in 1..Len(before) : after[n] = IF n = i THEN before[n] + x ELSE before[n]
      BY <2>9, <2>10, <3>1, <3>2
    <3> HIDE DEF before, after, x
    <3>4. Total(after) = Total(before) + x
      BY <3>3, TotalGrows
    <3> QED BY <3>4 DEF before, after, x
  <2>12. Outside(is) = Outside(d) + BytesOut(e)
    BY <2>7, <2>11, OutsideTyped
  <2> QED BY <2>7, <2>12 DEF is
<1> QED BY <1>1, <1>2

\* The changes are batches, and each batch is sound.
AllSound(changes) == changes \in Seq(BatchChange) /\ \A i \in 1..Len(changes) : Sound(changes[i].deltas)

\* What each change in turn adds to the bytes of a slot, and each event.
InOf(changes, s) == [i \in 1..Len(changes) |-> IF changes[i].slot = s THEN Outside(changes[i].deltas) ELSE 0]
HeldOf(read, s) == [i \in 1..Len(read) |-> IF read[i].slot = s THEN BytesOut(read[i]) ELSE 0]

\* The bytes of changes are a number.
LEMMA BytesTyped ==
  ASSUME NEW changes, AllSound(changes), NEW s \in Slots
  PROVE  /\ InOf(changes, s) \in Seq(Nat) /\ Len(InOf(changes, s)) = Len(changes)
         /\ BytesIn(changes)[s] = Total(InOf(changes, s)) /\ BytesIn(changes)[s] \in Nat
<1>1. Len(changes) \in Nat
  BY DEF AllSound
<1>2. \A i \in 1..Len(changes) : Outside(changes[i].deltas) \in Nat
  BY OutsideTyped DEF AllSound
<1>3. InOf(changes, s) \in [1..Len(changes) -> Nat]
  BY <1>2 DEF InOf
<1>4. InOf(changes, s) \in Seq(Nat) /\ Len(InOf(changes, s)) = Len(changes)
  BY <1>1, <1>3
<1>5. BytesIn(changes)[s] = Total(InOf(changes, s))
  BY DEF BytesIn, InOf
<1> QED BY <1>4, <1>5, TotalTyped

\* No change has no bytes.
LEMMA BytesOfNone == AllSound(<<>>) /\ \A s \in Slots : BytesIn(<<>>)[s] = 0
<1>1. AllSound(<<>>)
  BY DEF AllSound
<1>2. ASSUME NEW s \in Slots PROVE BytesIn(<<>>)[s] = 0
  <2>1. \A i \in 1..Len(InOf(<<>>, s)) : InOf(<<>>, s)[i] = 0
    BY <1>1, BytesTyped
  <2> QED BY <1>1, <2>1, BytesTyped, TotalOfNothing
<1> QED BY <1>1, <1>2

\* One change has the bytes of its batch.
LEMMA BytesOfOne ==
  ASSUME NEW c \in BatchChange, Sound(c.deltas), NEW s \in Slots
  PROVE  AllSound(<<c>>) /\ BytesIn(<<c>>)[s] = IF c.slot = s THEN Outside(c.deltas) ELSE 0
<1>1. <<c>> \in Seq(BatchChange) /\ Len(<<c>>) = 1 /\ <<c>>[1] = c
  OBVIOUS
<1>2. AllSound(<<c>>)
  BY <1>1 DEF AllSound
<1> DEFINE x == IF c.slot = s THEN Outside(c.deltas) ELSE 0
<1>3. x \in Nat
  BY OutsideTyped
<1>4. InOf(<<c>>, s) = <<x>>
  <2>1. InOf(<<c>>, s) = [i \in 1..1 |-> x]
    BY <1>1 DEF InOf
  <2> QED BY <2>1
<1> HIDE DEF x
<1>5. BytesIn(<<c>>)[s] = x
  BY <1>2, <1>3, <1>4, BytesTyped, TotalOfOne
<1> QED BY <1>2, <1>5 DEF x

\* Changes one behind the other have the bytes of both.
LEMMA BytesTogether ==
  ASSUME NEW a, AllSound(a), NEW b, AllSound(b)
  PROVE  /\ AllSound(a \o b)
         /\ \A s \in Slots : BytesIn(a \o b)[s] = BytesIn(a)[s] + BytesIn(b)[s]
<1>1. a \in Seq(BatchChange) /\ b \in Seq(BatchChange)
  BY DEF AllSound
<1>2. /\ a \o b \in Seq(BatchChange) /\ Len(a \o b) = Len(a) + Len(b)
      /\ Len(a) \in Nat /\ Len(b) \in Nat
      /\ \A i \in 1..Len(a) + Len(b) : (a \o b)[i] = IF i <= Len(a) THEN a[i] ELSE b[i - Len(a)]
  BY <1>1, ConcatProperties
<1> DEFINE c == a \o b
<1> HIDE DEF c
<1>3. AllSound(c)
  <2>1. ASSUME NEW i \in 1..Len(c) PROVE Sound(c[i].deltas)
    <3>1. CASE i <= Len(a)
      <4>1. i \in 1..Len(a) /\ c[i] = a[i]
        BY <1>2, <3>1 DEF c
      <4> QED BY <4>1 DEF AllSound
    <3>2. CASE ~(i <= Len(a))
      <4>1. i - Len(a) \in 1..Len(b) /\ c[i] = b[i - Len(a)]
        BY <1>2, <3>2 DEF c
      <4> QED BY <4>1 DEF AllSound
    <3> QED BY <3>1, <3>2
  <2>2. c \in Seq(BatchChange)
    BY <1>2 DEF c
  <2> QED BY <2>1, <2>2 DEF AllSound
<1>4. ASSUME NEW s \in Slots PROVE BytesIn(c)[s] = BytesIn(a)[s] + BytesIn(b)[s]
  <2>1. /\ InOf(a, s) \in Seq(Nat) /\ Len(InOf(a, s)) = Len(a)
        /\ InOf(b, s) \in Seq(Nat) /\ Len(InOf(b, s)) = Len(b)
        /\ InOf(c, s) \in Seq(Nat) /\ Len(InOf(c, s)) = Len(c)
    BY <1>3, BytesTyped
  <2>2. InOf(c, s) = InOf(a, s) \o InOf(b, s)
    <3> DEFINE ab == InOf(a, s) \o InOf(b, s)
    <3>1. /\ ab \in Seq(Nat) /\ Len(ab) = Len(a) + Len(b)
          /\ \A i \in 1..Len(a) + Len(b) :
               ab[i] = IF i <= Len(a) THEN InOf(a, s)[i] ELSE InOf(b, s)[i - Len(a)]
      <4> DEFINE x == InOf(a, s)
                 y == InOf(b, s)
      <4>1. x \in Seq(Nat) /\ y \in Seq(Nat) /\ Len(x) = Len(a) /\ Len(y) = Len(b)
        BY <2>1
      <4> HIDE DEF x, y
      <4>2. /\ x \o y \in Seq(Nat) /\ Len(x \o y) = Len(x) + Len(y)
            /\ \A i \in 1..Len(x) + Len(y) :
                 (x \o y)[i] = IF i <= Len(x) THEN x[i] ELSE y[i - Len(x)]
        BY <4>1, ConcatProperties
      <4>3. ab = x \o y
        BY DEF x, y
      <4> HIDE DEF ab
      <4>4. /\ ab \in Seq(Nat) /\ Len(ab) = Len(a) + Len(b)
            /\ \A i \in 1..Len(a) + Len(b) : ab[i] = IF i <= Len(a) THEN x[i] ELSE y[i - Len(a)]
        BY <4>1, <4>2, <4>3
      <4> QED BY <4>4 DEF x, y
    <3> HIDE DEF ab
    <3>2. ASSUME NEW i \in 1..Len(c) PROVE InOf(c, s)[i] = ab[i]
      <4>1. CASE i <= Len(a)
        <5>1. i \in 1..Len(a) /\ c[i] = a[i] /\ ab[i] = InOf(a, s)[i]
          BY <1>2, <3>1, <4>1 DEF c
        <5> QED BY <5>1 DEF InOf
      <4>2. CASE ~(i <= Len(a))
        <5>1. i - Len(a) \in 1..Len(b) /\ c[i] = b[i - Len(a)] /\ ab[i] = InOf(b, s)[i - Len(a)]
          BY <1>2, <3>1, <4>2 DEF c
        <5> QED BY <5>1 DEF InOf
      <4> QED BY <4>1, <4>2
    <3>3. Len(c) = Len(a) + Len(b)
      BY <1>2 DEF c
    <3>4. InOf(c, s) = ab
      BY <2>1, <3>1, <3>2, <3>3
    <3> QED BY <3>4 DEF ab
  <2>3. Total(InOf(c, s)) = Total(InOf(a, s)) + Total(InOf(b, s))
    BY <2>1, <2>2, TotalConcat
  <2> QED BY <1>3, <2>3, BytesTyped
<1> QED BY <1>3, <1>4 DEF c

\* What is emitted is in the channel or lost.
LEMMA EmittedCounts ==
  ASSUME AllSound(channel), Len(channel) <= Capacity, lost \in [Slots -> Nat], dropped \in Nat,
         NEW changes, AllSound(changes), NEW pending, Emit(changes, pending)
  PROVE  /\ AllSound(channel') /\ lost' \in [Slots -> Nat] /\ dropped' \in Nat
         /\ \A s \in Slots :
              BytesIn(channel')[s] + lost'[s] = BytesIn(channel)[s] + lost[s] + BytesIn(changes)[s]
<1> DEFINE room == Capacity - Len(channel)
           sent == IF Len(changes) < room THEN Len(changes) ELSE room
           rest == SubSeq(changes, 1, sent)
           over == SubSeq(changes, sent + 1, Len(changes))
<1>1. changes \in Seq(BatchChange) /\ channel \in Seq(BatchChange) /\ Capacity \in Nat
  BY LimitsTyped DEF AllSound
<1>2. sent \in 0..Len(changes) /\ Len(changes) \in Nat
  BY <1>1
<1>3. /\ channel' = channel \o rest /\ dropped' = dropped + Len(changes) - sent
      /\ lost' = Plus(lost, BytesIn(over))
  BY DEF Emit
<1> HIDE DEF sent
<1>4. rest \o over = changes
  <2>1. SubSeq(changes, 1, sent) \o SubSeq(changes, sent + 1, Len(changes)) = SubSeq(changes, 1, Len(changes))
    <3> DEFINE n == Len(changes)
    <3>1. 1 \in 1..n + 1 /\ sent \in 1 - 1..n /\ n \in sent..n
      BY <1>2
    <3> HIDE DEF n
    <3>2. n = Len(changes)
      BY DEF n
    <3> QED BY <1>1, <3>1, <3>2, ConcatAdjacentSubSeq
  <2> QED BY <1>1, <2>1, SubSeqFull
<1>5. AllSound(rest) /\ AllSound(over)
  <2>1. \A i \in 1..Len(changes) : changes[i] \in BatchChange /\ Sound(changes[i].deltas)
    BY <1>1 DEF AllSound
  <2>2. /\ rest \in Seq(BatchChange) /\ Len(rest) = sent
        /\ \A i \in 1..Len(rest) : rest[i] = changes[i]
    <3>1. rest = [i \in 1..sent |-> changes[i]]
      BY <1>2
    <3>2. \A i \in 1..sent : i \in 1..Len(changes)
      BY <1>2
    <3> QED BY <1>2, <2>1, <3>1, <3>2
  <2>3. /\ over \in Seq(BatchChange)
        /\ \A i \in 1..Len(over) : sent + i \in 1..Len(changes) /\ over[i] = changes[sent + i]
    <3>1. /\ sent + 1 \in Int /\ Len(changes) \in Int
          /\ \A i \in sent + 1..Len(changes) : changes[i] \in BatchChange
      BY <1>2, <2>1
    <3>2. /\ over \in Seq(BatchChange)
          /\ Len(over) = IF sent + 1 <= Len(changes) THEN Len(changes) - (sent + 1) + 1 ELSE 0
          /\ \A i \in 1..Len(changes) - (sent + 1) + 1 : over[i] = changes[(sent + 1) + i - 1]
      BY <3>1, SubSeqProperties
    <3> HIDE DEF over
    <3>3. ASSUME NEW i \in 1..Len(over)
          PROVE  sent + i \in 1..Len(changes) /\ over[i] = changes[sent + i]
      <4>1. i \in 1..Len(changes) - (sent + 1) + 1 /\ sent + i \in 1..Len(changes)
        BY <1>2, <3>2
      <4>2. (sent + 1) + i - 1 = sent + i
        BY <1>2
      <4> QED BY <3>2, <4>1, <4>2
    <3> QED BY <3>2, <3>3
  <2> HIDE DEF rest, over
  <2>4. AllSound(rest)
    <3>1. \A i \in 1..Len(rest) : i \in 1..Len(changes)
      BY <1>2, <2>2
    <3> QED BY <2>1, <2>2, <3>1 DEF AllSound
  <2>5. AllSound(over)
    BY <2>1, <2>3 DEF AllSound
  <2> QED BY <2>4, <2>5
<1> HIDE DEF rest, over
<1>6. /\ AllSound(channel')
      /\ \A s \in Slots : BytesIn(channel')[s] = BytesIn(channel)[s] + BytesIn(rest)[s]
  BY <1>3, <1>5, BytesTogether
<1>7. \A s \in Slots : BytesIn(changes)[s] = BytesIn(rest)[s] + BytesIn(over)[s]
  BY <1>4, <1>5, BytesTogether
<1>8. \A s \in Slots : lost'[s] = lost[s] + BytesIn(over)[s] /\ BytesIn(over)[s] \in Nat
  BY <1>3, <1>5, BytesTyped DEF Plus
<1>9. lost' \in [Slots -> Nat]
  <2>1. lost' = [s \in Slots |-> lost[s] + BytesIn(over)[s]]
    BY <1>3 DEF Plus
  <2> QED BY <1>8, <2>1
<1>10. dropped' \in Nat
  BY <1>2, <1>3
<1>11. ASSUME NEW s \in Slots
       PROVE  BytesIn(channel')[s] + lost'[s] = BytesIn(channel)[s] + lost[s] + BytesIn(changes)[s]
  <2>1. /\ BytesIn(channel)[s] \in Nat /\ BytesIn(rest)[s] \in Nat /\ BytesIn(over)[s] \in Nat
        /\ lost[s] \in Nat
    BY <1>5, BytesTyped
  <2>2. BytesIn(channel')[s] + lost'[s] = (BytesIn(channel)[s] + BytesIn(rest)[s]) + (lost[s] + BytesIn(over)[s])
    BY <1>6, <1>8
  <2>3. BytesIn(channel)[s] + lost[s] + BytesIn(changes)[s] = BytesIn(channel)[s] + lost[s] + (BytesIn(rest)[s] + BytesIn(over)[s])
    BY <1>7
  <2> QED BY <2>1, <2>2, <2>3
<1> QED BY <1>6, <1>9, <1>10, <1>11

\* What is handed over leaves its batch.
LEMMA TakenCounts ==
  ASSUME NEW kept \in [Slots -> BatchSlot], NEW at,
         \A s \in Slots : kept[s].since = kept[s].first /\ Sound(kept[s].deltas)
  PROVE  /\ AllSound(Taken(kept, at))
         /\ \A s \in Slots :
              BytesIn(Taken(kept, at))[s] = IF s \in DueSlots(kept, at) THEN Outside(kept[s].deltas) ELSE 0
<1>1. ASSUME NEW r \in Slots
      PROVE  /\ AllSound(HandedOver(kept, at, r))
             /\ \A s \in Slots :
                  BytesIn(HandedOver(kept, at, r))[s] =
                    IF s = r /\ r \in DueSlots(kept, at) THEN Outside(kept[r].deltas) ELSE 0
  <2>1. CASE r \in DueSlots(kept, at) /\ kept[r].deltas # <<>>
    <3>1. kept[r].first # None /\ kept[r] \in BatchSlot /\ Sound(kept[r].deltas)
      BY <2>1 DEF DueSlots
    <3>2. /\ Change(kept, r) \in BatchChange /\ Change(kept, r).slot = r
          /\ Change(kept, r).deltas = kept[r].deltas
      BY <3>1 DEF Change, BatchSlot, BatchChange
    <3>3. HandedOver(kept, at, r) = <<Change(kept, r)>>
      BY <2>1 DEF HandedOver
    <3>4. ASSUME NEW s \in Slots
          PROVE  /\ AllSound(<<Change(kept, r)>>)
                 /\ BytesIn(<<Change(kept, r)>>)[s] = IF r = s THEN Outside(kept[r].deltas) ELSE 0
      BY <3>1, <3>2, BytesOfOne
    <3> QED BY <2>1, <3>3, <3>4
  <2>2. CASE ~(r \in DueSlots(kept, at) /\ kept[r].deltas # <<>>)
    <3>1. HandedOver(kept, at, r) = <<>>
      BY <2>2 DEF HandedOver
    <3>2. r \in DueSlots(kept, at) => Outside(kept[r].deltas) = 0
      BY <2>2, NothingOutside
    <3> QED BY <3>1, <3>2, BytesOfNone
  <2> QED BY <2>1, <2>2
<1> DEFINE one == HandedOver(kept, at, "disk")
           other == HandedOver(kept, at, "net")
<1>2. AllSound(one) /\ AllSound(other) /\ Taken(kept, at) = one \o other
  BY <1>1 DEF Taken, Slots
<1>3. ASSUME NEW s \in Slots
      PROVE  /\ BytesIn(one)[s] = IF s = "disk" /\ s \in DueSlots(kept, at) THEN Outside(kept[s].deltas) ELSE 0
             /\ BytesIn(other)[s] = IF s = "net" /\ s \in DueSlots(kept, at) THEN Outside(kept[s].deltas) ELSE 0
             /\ Outside(kept[s].deltas) \in Nat
  BY <1>1, OutsideTyped DEF Slots
<1> HIDE DEF one, other
<1>4. /\ AllSound(Taken(kept, at))
      /\ \A s \in Slots : BytesIn(Taken(kept, at))[s] = BytesIn(one)[s] + BytesIn(other)[s]
  BY <1>2, BytesTogether
<1>5. ASSUME NEW s \in Slots
      PROVE  BytesIn(Taken(kept, at))[s] = IF s \in DueSlots(kept, at) THEN Outside(kept[s].deltas) ELSE 0
  <2>1. s = "disk" \/ s = "net"
    BY DEF Slots
  <2>2. CASE s = "disk"
    <3>1. /\ BytesIn(one)[s] = IF s \in DueSlots(kept, at) THEN Outside(kept[s].deltas) ELSE 0
          /\ BytesIn(other)[s] = 0 /\ Outside(kept[s].deltas) \in Nat
      BY <1>3, <2>2
    <3> QED BY <1>4, <3>1
  <2>3. CASE s = "net"
    <3>1. /\ BytesIn(other)[s] = IF s \in DueSlots(kept, at) THEN Outside(kept[s].deltas) ELSE 0
          /\ BytesIn(one)[s] = 0 /\ Outside(kept[s].deltas) \in Nat
      BY <1>3, <2>3
    <3> QED BY <1>4, <3>1
  <2> QED BY <2>1, <2>2, <2>3
<1> QED BY <1>4, <1>5

\* Handing over moves bytes to the channel, and loses what finds it full.
LEMMA HandingOverCounts ==
  ASSUME AllSound(channel), Len(channel) <= Capacity, lost \in [Slots -> Nat], dropped \in Nat,
         NEW kept \in [Slots -> BatchSlot], NEW at, NEW pending,
         \A s \in Slots : kept[s].since = kept[s].first /\ Sound(kept[s].deltas),
         HandOverDue(kept, at, pending)
  PROVE  /\ AllSound(channel') /\ lost' \in [Slots -> Nat] /\ dropped' \in Nat
         /\ \A s \in Slots :
              /\ Sound(slots'[s].deltas)
              /\ BytesIn(channel')[s] + lost'[s] + Outside(slots'[s].deltas)
                   = BytesIn(channel)[s] + lost[s] + Outside(kept[s].deltas)
<1> DEFINE changes == Taken(kept, at)
<1>1. /\ slots' = [s \in Slots |-> IF s \in DueSlots(kept, at) THEN EmptySlot ELSE kept[s]]
      /\ Emit(changes, pending)
  BY DEF HandOverDue, Left
<1>2. /\ AllSound(changes)
      /\ \A s \in Slots : BytesIn(changes)[s] = IF s \in DueSlots(kept, at) THEN Outside(kept[s].deltas) ELSE 0
  BY TakenCounts
<1> HIDE DEF changes
<1>3. /\ AllSound(channel') /\ lost' \in [Slots -> Nat] /\ dropped' \in Nat
      /\ \A s \in Slots :
           BytesIn(channel')[s] + lost'[s] = BytesIn(channel)[s] + lost[s] + BytesIn(changes)[s]
  BY <1>1, <1>2, EmittedCounts
<1>4. ASSUME NEW s \in Slots
      PROVE  /\ Sound(slots'[s].deltas)
             /\ BytesIn(channel')[s] + lost'[s] + Outside(slots'[s].deltas)
                  = BytesIn(channel)[s] + lost[s] + Outside(kept[s].deltas)
  <2>1. /\ BytesIn(channel')[s] \in Nat /\ lost'[s] \in Nat /\ BytesIn(channel)[s] \in Nat /\ lost[s] \in Nat
        /\ Outside(kept[s].deltas) \in Nat
    BY <1>3, BytesTyped, OutsideTyped
  <2>2. BytesIn(channel')[s] + lost'[s] = BytesIn(channel)[s] + lost[s] + BytesIn(changes)[s]
    BY <1>3
  <2>3. CASE s \in DueSlots(kept, at)
    <3>1. slots'[s].deltas = <<>> /\ BytesIn(changes)[s] = Outside(kept[s].deltas)
      BY <1>1, <1>2, <2>3 DEF EmptySlot
    <3>2. Sound(slots'[s].deltas) /\ Outside(slots'[s].deltas) = 0
      BY <3>1, NothingOutside
    <3> QED BY <2>1, <2>2, <3>1, <3>2
  <2>4. CASE s \notin DueSlots(kept, at)
    <3>1. slots'[s] = kept[s] /\ BytesIn(changes)[s] = 0
      BY <1>1, <1>2, <2>4
    <3> QED BY <2>1, <2>2, <3>1
  <2> QED BY <2>3, <2>4
<1> QED BY <1>3, <1>4

\* The bytes in the buffers are a number, and none in empty ones.
LEMMA HeldTyped ==
  ASSUME NEW read \in Seq(Read), NEW s \in Slots
  PROVE  /\ HeldOf(read, s) \in Seq(Nat) /\ Len(HeldOf(read, s)) = Len(read)
         /\ BytesHeld(read)[s] = Total(HeldOf(read, s)) /\ BytesHeld(read)[s] \in Nat
         /\ read = <<>> => BytesHeld(read)[s] = 0
<1>1. Len(read) \in Nat
  OBVIOUS
<1>2. HeldOf(read, s) \in [1..Len(read) -> Nat]
  BY DEF HeldOf, BytesOut
<1>3. HeldOf(read, s) \in Seq(Nat) /\ Len(HeldOf(read, s)) = Len(read)
  BY <1>1, <1>2
<1>4. BytesHeld(read)[s] = Total(HeldOf(read, s))
  BY DEF BytesHeld, HeldOf
<1>5. ASSUME read = <<>> PROVE Total(HeldOf(read, s)) = 0
  <2>1. \A i \in 1..Len(HeldOf(read, s)) : HeldOf(read, s)[i] = 0
    BY <1>3, <1>5
  <2> QED BY <1>3, <2>1, TotalOfNothing
<1> QED BY <1>3, <1>4, <1>5, TotalTyped

\* Buffers one behind the other hold the bytes of both.
LEMMA HeldTogether ==
  ASSUME NEW a \in Seq(Read), NEW b \in Seq(Read), NEW s \in Slots
  PROVE  BytesHeld(a \o b)[s] = BytesHeld(a)[s] + BytesHeld(b)[s]
<1> DEFINE c == a \o b
<1>1. /\ c \in Seq(Read) /\ Len(c) = Len(a) + Len(b)
      /\ Len(a) \in Nat /\ Len(b) \in Nat
      /\ \A i \in 1..Len(a) + Len(b) : c[i] = IF i <= Len(a) THEN a[i] ELSE b[i - Len(a)]
  BY ConcatProperties
<1> HIDE DEF c
<1> DEFINE x == HeldOf(a, s)
           y == HeldOf(b, s)
           z == HeldOf(c, s)
<1>2. /\ x \in Seq(Nat) /\ Len(x) = Len(a)
      /\ y \in Seq(Nat) /\ Len(y) = Len(b)
      /\ z \in Seq(Nat) /\ Len(z) = Len(c)
  BY <1>1, HeldTyped
<1>3. ASSUME NEW i \in 1..Len(c) PROVE z[i] = IF i <= Len(x) THEN x[i] ELSE y[i - Len(x)]
  <2>0. Len(x) = Len(a)
    BY <1>2
  <2>1. CASE i <= Len(a)
    <3>1. i \in 1..Len(a) /\ c[i] = a[i]
      BY <1>1, <2>1
    <3>2. z[i] = x[i]
      BY <3>1 DEF HeldOf
    <3> HIDE DEF x, y, z
    <3> QED BY <2>0, <2>1, <3>2
  <2>2. CASE ~(i <= Len(a))
    <3>1. i - Len(a) \in 1..Len(b) /\ c[i] = b[i - Len(a)]
      BY <1>1, <2>2
    <3>2. z[i] = y[i - Len(a)]
      BY <3>1 DEF HeldOf
    <3> HIDE DEF x, y, z
    <3> QED BY <2>0, <2>2, <3>2
  <2> QED BY <2>1, <2>2
<1> HIDE DEF x, y, z
<1>4. z = x \o y
  <2> DEFINE w == x \o y
  <2>1. /\ w \in Seq(Nat) /\ Len(w) = Len(x) + Len(y)
        /\ \A i \in 1..Len(x) + Len(y) : w[i] = IF i <= Len(x) THEN x[i] ELSE y[i - Len(x)]
    BY <1>2, ConcatProperties
  <2> HIDE DEF w
  <2>2. Len(z) = Len(w)
    BY <1>1, <1>2, <2>1
  <2>3. \A i \in 1..Len(z) : z[i] = w[i]
    BY <1>1, <1>2, <1>3, <2>1
  <2>4. z = w
    BY <1>2, <2>1, <2>2, <2>3
  <2> QED BY <2>4 DEF w
<1>5. Total(z) = Total(x) + Total(y)
  BY <1>2, <1>4, TotalConcat
<1>6. /\ BytesHeld(a)[s] = Total(x) /\ BytesHeld(b)[s] = Total(y) /\ BytesHeld(c)[s] = Total(z)
  BY <1>1, HeldTyped DEF x, y, z
<1> QED BY <1>5, <1>6 DEF c

\* One event holds its byte, in its slot.
LEMMA HeldOfOne ==
  ASSUME NEW e \in Read, NEW s \in Slots
  PROVE  BytesHeld(<<e>>)[s] = IF e.slot = s THEN BytesOut(e) ELSE 0
<1> DEFINE x == IF e.slot = s THEN BytesOut(e) ELSE 0
<1>1. <<e>> \in Seq(Read) /\ Len(<<e>>) = 1 /\ <<e>>[1] = e /\ x \in Nat
  BY DEF BytesOut
<1>2. HeldOf(<<e>>, s) = <<x>>
  <2>1. HeldOf(<<e>>, s) = [i \in 1..1 |-> x]
    BY <1>1 DEF HeldOf
  <2> QED BY <2>1
<1> HIDE DEF x
<1>3. BytesHeld(<<e>>)[s] = x
  BY <1>1, <1>2, HeldTyped, TotalOfOne
<1> QED BY <1>3 DEF x

\* The first event in the buffers, and one that comes last.
LEMMA HeldEnds ==
  ASSUME NEW read \in Seq(Read), NEW s \in Slots
  PROVE  /\ \A e \in Read :
              BytesHeld(Append(read, e))[s] = BytesHeld(read)[s] + IF e.slot = s THEN BytesOut(e) ELSE 0
         /\ read # <<>> =>
              BytesHeld(read)[s] =
                (IF Head(read).slot = s THEN BytesOut(Head(read)) ELSE 0) + BytesHeld(Tail(read))[s]
<1>1. ASSUME NEW e \in Read
      PROVE  BytesHeld(Append(read, e))[s] = BytesHeld(read)[s] + IF e.slot = s THEN BytesOut(e) ELSE 0
  <2>1. Append(read, e) = read \o <<e>> /\ <<e>> \in Seq(Read)
    OBVIOUS
  <2>2. BytesHeld(read \o <<e>>)[s] = BytesHeld(read)[s] + BytesHeld(<<e>>)[s]
    BY <2>1, HeldTogether
  <2>3. BytesHeld(<<e>>)[s] = IF e.slot = s THEN BytesOut(e) ELSE 0
    BY HeldOfOne
  <2> QED BY <2>1, <2>2, <2>3
<1>2. ASSUME read # <<>>
      PROVE  BytesHeld(read)[s] =
               (IF Head(read).slot = s THEN BytesOut(Head(read)) ELSE 0) + BytesHeld(Tail(read))[s]
  <2>1. /\ Head(read) \in Read /\ Tail(read) \in Seq(Read) /\ <<Head(read)>> \in Seq(Read)
        /\ read = <<Head(read)>> \o Tail(read)
    BY <1>2
  <2>2. BytesHeld(<<Head(read)>> \o Tail(read))[s] = BytesHeld(<<Head(read)>>)[s] + BytesHeld(Tail(read))[s]
    BY <2>1, HeldTogether
  <2>3. BytesHeld(<<Head(read)>>)[s] = IF Head(read).slot = s THEN BytesOut(Head(read)) ELSE 0
    BY <2>1, HeldOfOne
  <2> QED BY <2>1, <2>2, <2>3
<1> QED BY <1>1, <1>2

-----------------------------------------------------------------------------
(***************************************************************************)
(* Types and limits.                                                       *)
(***************************************************************************)
CountersOf(by) == DOMAIN by \subseteq Pids /\ \A pid \in DOMAIN by : by[pid] \in [seq : Procs, bytes : Nat]

MachineLimits ==
  /\ now <= MaxTime
  /\ holder \in [Pids -> Procs \cup {None}]
  /\ started \in 0..MaxProcs
  /\ events \in 0..MaxEvents /\ faults \in 0..MaxFaults /\ demands \in 0..MaxDemands
CoreLimits ==
  /\ listed \in [Pids -> Procs \cup {None}] /\ CountersOf(counters)
  /\ running \subseteq Sessions
  /\ asked \in Periods \cup {None} /\ flushTimer \in FastFlush..SlowFlush
  /\ timers \in [Sessions -> FastFlush..SlowFlush] /\ refused \in BOOLEAN
Flags == router \in BOOLEAN /\ woken \in BOOLEAN
ChannelPast == \A i \in 1..Len(channel) : channel[i].first <= now
Limits == MachineLimits /\ CoreLimits /\ Flags /\ ChannelPast

\* The bounds are numbers.
LEMMA BoundsTyped ==
  /\ MaxProcs \in Nat /\ MaxTime \in Nat /\ MaxEvents \in Nat /\ MaxFaults \in Nat /\ MaxDemands \in Nat
  /\ Cardinality(Pids) \in Nat /\ Cardinality(Pids) <= MaxProcs
  /\ FastFlush \in Nat /\ SlowFlush \in Nat /\ FastFlush <= SlowFlush
BY BoundsAssumption, PeriodsAssumption, PidsInARow

\* What a batch charges is of the processes listed.
LEMMA ChargedTyped ==
  ASSUME NEW table \in [Pids -> Procs \cup {None}], NEW by, CountersOf(by), NEW deltas \in Deltas
  PROVE  CountersOf(Charged(table, by, deltas))
<1> DEFINE is == Charged(table, by, deltas)
           keys == DOMAIN by \cup {p \in DOMAIN deltas : table[p] # None}
<1>1. /\ DOMAIN is = keys
      /\ \A pid \in keys :
           is[pid] = IF pid \notin DOMAIN deltas \/ table[pid] = None THEN by[pid]
                     ELSE IF pid \in DOMAIN by /\ by[pid].seq = table[pid]
                          THEN [by[pid] EXCEPT !.bytes = @ + deltas[pid].all]
                          ELSE [seq |-> table[pid], bytes |-> deltas[pid].all]
  BY DEF Charged
<1>2. \A pid \in DOMAIN deltas : pid \in Pids /\ deltas[pid].all \in Nat
  <2>1. PICK pids \in SUBSET Pids : deltas \in [pids -> [all : Nat, loopback : Nat]]
    BY DEF Deltas
  <2> QED BY <2>1
<1> HIDE DEF is
<1>3. ASSUME NEW pid \in keys PROVE pid \in Pids /\ is[pid] \in [seq : Procs, bytes : Nat]
  <2>0. pid \in Pids
    BY <1>2 DEF CountersOf
  <2>1. CASE pid \notin DOMAIN deltas \/ table[pid] = None
    <3>1. pid \in DOMAIN by /\ is[pid] = by[pid]
      BY <1>1, <2>1
    <3> QED BY <2>0, <3>1 DEF CountersOf
  <2>2. CASE /\ ~(pid \notin DOMAIN deltas \/ table[pid] = None)
             /\ pid \in DOMAIN by /\ by[pid].seq = table[pid]
    <3>1. is[pid] = [by[pid] EXCEPT !.bytes = @ + deltas[pid].all]
      BY <1>1, <2>2
    <3>2. by[pid] \in [seq : Procs, bytes : Nat] /\ deltas[pid].all \in Nat
      BY <1>2, <2>2 DEF CountersOf
    <3> QED BY <2>0, <3>1, <3>2
  <2>3. CASE /\ ~(pid \notin DOMAIN deltas \/ table[pid] = None)
             /\ ~(pid \in DOMAIN by /\ by[pid].seq = table[pid])
    <3>1. is[pid] = [seq |-> table[pid], bytes |-> deltas[pid].all]
      BY <1>1, <2>3
    <3>2. table[pid] \in Procs /\ deltas[pid].all \in Nat
      BY <1>2, <2>0, <2>3
    <3> QED BY <2>0, <3>1, <3>2
  <2> QED BY <2>1, <2>2, <2>3
<1> QED BY <1>1, <1>3 DEF CountersOf, is

\* So do all the changes of a drain.
LEMMA AllAppliedTyped ==
  ASSUME listed \in [Pids -> Procs \cup {None}], CountersOf(counters), NEW changes \in Seq(BatchChange)
  PROVE  CountersOf(AllApplied(counters, changes))
<1>1. PICK after :
        /\ AllApplied(counters, changes) = after[Len(changes)]
        /\ after[0] = counters
        /\ \A n \in 1..Len(changes) : after[n] = Applied(after[n - 1], changes[n])
  BY AllAppliedStepwise
<1> DEFINE fine == {n \in Nat : n <= Len(changes) => CountersOf(after[n])}
<1>2. 0 \in fine
  BY <1>1
<1>3. ASSUME NEW n \in Nat, n \in fine PROVE n + 1 \in fine
  <2> SUFFICES ASSUME n + 1 <= Len(changes) PROVE CountersOf(after[n + 1])
    OBVIOUS
  <2>1. n + 1 \in 1..Len(changes) /\ (n + 1) - 1 = n /\ n <= Len(changes)
    OBVIOUS
  <2>2. CountersOf(after[n])
    BY <1>3, <2>1
  <2>3. after[n + 1] = Applied(after[n], changes[n + 1])
    BY <1>1, <2>1
  <2>4. changes[n + 1].deltas \in Deltas
    <3>1. changes[n + 1] \in BatchChange
      BY <2>1
    <3> QED BY <3>1 DEF BatchChange
  <2> QED BY <2>2, <2>3, <2>4, ChargedTyped DEF Applied
<1>4. Len(changes) \in fine
  <2> HIDE DEF fine
  <2>1. Nat \subseteq fine
    BY <1>2, <1>3, Induction
  <2> QED BY <2>1
<1> QED BY <1>1, <1>4

\* Half the fastest interval is clamped between the two timers.
LEMMA FlushTimerTyped ==
  ASSUME NEW period \in Periods \cup {None}
  PROVE  FlushTimerFor(period) \in FastFlush..SlowFlush
<1>1. CASE period = None
  BY <1>1, BoundsTyped DEF FlushTimerFor
<1>2. CASE period # None
  <2>1. period \in Nat
    BY <1>2, DemandAssumption
  <2>2. period \div 2 \in Int
    BY <2>1
  <2> QED BY <1>2, <2>2, BoundsTyped DEF FlushTimerFor
<1> QED BY <1>1, <1>2

\* The timers set are one of those, and what is refused is a fault.
LEMMA TimersTyped ==
  ASSUME asked \in Periods \cup {None}, NEW remembered, NEW up, NEW before \in BOOLEAN,
         NEW had \in [Sessions -> FastFlush..SlowFlush], TimerSet(remembered, had, before, up)
  PROVE  /\ flushTimer' \in FastFlush..SlowFlush /\ timers' \in [Sessions -> FastFlush..SlowFlush]
         /\ refused' \in BOOLEAN
         /\ faults' = faults \/ (faults < MaxFaults /\ faults' = faults + 1)
<1> DEFINE set == FlushTimerFor(asked)
           these == FastFlush..SlowFlush
<1>1. set \in these /\ had \in [Sessions -> these]
  BY FlushTimerTyped
<1>2. flushTimer' = set
  BY DEF TimerSet
<1>3. \/ timers' = had /\ refused' = before /\ faults' = faults
      \/ \E n \in 0..Len(Order) : Reaches(n, set, had, up)
  BY DEF TimerSet
<1> HIDE DEF set, these
<1>4. CASE timers' = had /\ refused' = before /\ faults' = faults
  BY <1>1, <1>2, <1>4 DEF these
<1>5. ASSUME NEW n \in 0..Len(Order), Reaches(n, set, had, up)
      PROVE  /\ timers' \in [Sessions -> these] /\ refused' \in BOOLEAN
             /\ faults' = faults \/ (faults < MaxFaults /\ faults' = faults + 1)
  <2> DEFINE took == Took(n)
  <2>1. timers' = [s \in Sessions |-> IF s \in took THEN set ELSE had[s]]
    BY <1>5 DEF Reaches
  <2>2. /\ refused' \in BOOLEAN
        /\ faults' = faults \/ (faults < MaxFaults /\ faults' = faults + 1)
    BY <1>5 DEF Reaches, Refuses
  <2> HIDE DEF took
  <2>3. timers' \in [Sessions -> these]
    BY <1>1, <2>1
  <2> QED BY <2>2, <2>3
<1> QED BY <1>1, <1>2, <1>3, <1>4, <1>5 DEF these

\* What is handed over began before now.
LEMMA PastHandedOver ==
  ASSUME Typed, ChannelPast, UNCHANGED now, NEW kept \in [Slots -> BatchSlot],
         \A s \in Slots : /\ kept[s].since = kept[s].first
                          /\ kept[s].first # None => kept[s].first <= now,
         NEW at, NEW pending, HandOverDue(kept, at, pending)
  PROVE  ChannelPast'
<1> DEFINE changes == Taken(kept, at)
<1>1. Emit(changes, pending)
  BY DEF HandOverDue
<1>2. /\ changes \in Seq(BatchChange)
      /\ \A n \in 1..Len(changes) : changes[n].first <= now
  <2>1. /\ changes \in Seq(BatchChange)
        /\ \A n \in 1..Len(changes) : \E s \in Slots :
             kept[s].first # None /\ changes[n].first = kept[s].first
    BY TakenTyped
  <2> HIDE DEF changes
  <2> QED BY <2>1
<1> HIDE DEF changes
<1>3. \A i \in 1..Len(channel') :
        \/ i \in 1..Len(channel) /\ channel'[i] = channel[i]
        \/ \E n \in 1..Len(changes) : channel'[i] = changes[n]
  BY <1>1, <1>2, Emitted
<1> QED BY <1>2, <1>3 DEF ChannelPast

\* The router's flags are flags.
LEMMA FlagsKept == Flags /\ [Next]_vars => Flags'
<1> SUFFICES ASSUME Flags, [Next]_vars PROVE Flags'
  OBVIOUS
<1>1. ASSUME UNCHANGED <<router, woken>> PROVE Flags'
  BY <1>1 DEF Flags
<1>2. ASSUME UNCHANGED router, woken' \in BOOLEAN PROVE Flags'
  BY <1>2 DEF Flags
<1>3. ASSUME NEW kept, NEW at, NEW pending \in BOOLEAN, HandOverDue(kept, at, pending) PROVE woken' \in BOOLEAN
  BY <1>3, Zenon DEF HandOverDue, Emit
<1>4. ASSUME NEW pid \in Pids, Starts(pid) \/ Ends(pid) PROVE Flags'
  BY <1>1, <1>4 DEF Starts, Ends, sessions, sink
<1>5. ASSUME NEW transfer \in Transfers, Tells(transfer) PROVE Flags'
  BY <1>1, <1>5 DEF Tells, sessions, sink
<1>6. ASSUME NEW s \in Sessions, SessionStops(s) PROVE Flags'
  BY <1>1, <1>6 DEF SessionStops, sink
<1>7. CASE OnEvent
  <2>1. HandOverDue(Delivered(Head(buffer)), Head(buffer).at, woken) /\ UNCHANGED router
    BY <1>7 DEF OnEvent, sessions
  <2> QED BY <1>2, <1>3, <2>1 DEF Flags
<1>8. ASSUME NEW at, OnOtherEvent(at) PROVE Flags'
  <2>1. HandOverDue(slots, at, woken) /\ UNCHANGED router
    BY <1>8 DEF OnOtherEvent, sessions
  <2> QED BY <1>2, <1>3, <2>1 DEF Flags
<1>9. CASE Flushes
  <2>1. UNCHANGED router
    BY <1>9 DEF Flushes, KeepsSessions
  <2>2. HandOverDue(slots, now, FALSE) \/ woken' = FALSE
    BY <1>9 DEF Flushes
  <2>3. woken' \in BOOLEAN
    BY <1>3, <2>2
  <2> QED BY <1>2, <2>1, <2>3
<1>10. ASSUME NEW starts \in BOOLEAN, Restarts(starts) PROVE Flags'
  BY <1>10 DEF Restarts, Flags
<1>11. ASSUME NEW reads \in BOOLEAN, Drains(reads) PROVE Flags'
  BY <1>1, <1>11 DEF Drains, sessions
<1>12. ASSUME NEW period \in Periods, Demands(period) PROVE Flags'
  BY <1>2, <1>12 DEF Demands, sessions
<1>13. CASE TimePasses \/ UNCHANGED vars
  BY <1>1, <1>13 DEF TimePasses, vars, sessions, sink
<1> QED
  BY <1>4, <1>5, <1>6, <1>7, <1>8, <1>9, <1>10, <1>11, <1>12, <1>13 DEF Next

\* What an event makes of the batches: one has begun by now, and has it added.
LEMMA DeliveredTyped ==
  ASSUME AInv, buffer # <<>>
  PROVE  /\ Head(buffer) \in Read /\ Head(buffer).slot \in Slots
         /\ Delivered(Head(buffer)) \in [Slots -> BatchSlot]
         /\ \A s \in Slots :
              /\ Delivered(Head(buffer))[s].since = Delivered(Head(buffer))[s].first
              /\ Delivered(Head(buffer))[s].first # None => Delivered(Head(buffer))[s].first <= now
              /\ Delivered(Head(buffer))[s].deltas =
                   IF s = Head(buffer).slot THEN Added(slots[s].deltas, Head(buffer)) ELSE slots[s].deltas
<1>0. Clocks /\ Typed /\ BufferAges /\ SlotAges
  BY DEF AInv, CInv
<1> DEFINE e == Head(buffer)
           kept == Delivered(e)
<1>1. e \in Read /\ 1 \in 1..Len(buffer) /\ e = buffer[1]
  BY <1>0 DEF Typed
<1>2. e.slot \in Slots /\ e.at \in Nat /\ e.at <= now
  BY <1>0, <1>1 DEF BufferAges, Read
<1> HIDE DEF e
<1>3. /\ slots \in [Slots -> BatchSlot]
      /\ \A s \in Slots : /\ slots[s].since = slots[s].first
                          /\ slots[s].first # None => slots[s].first <= now
  BY <1>0 DEF Typed, SlotAges
<1>4. slots[e.slot] \in BatchSlot /\ slots[e.slot].since = slots[e.slot].first
  BY <1>2, <1>3
<1> DEFINE new == [deltas |-> Added(slots[e.slot].deltas, e),
                   since |-> IF slots[e.slot].since = None THEN e.at ELSE slots[e.slot].since,
                   first |-> IF slots[e.slot].first = None \/ e.at < slots[e.slot].first
                             THEN e.at ELSE slots[e.slot].first]
<1>5. new \in BatchSlot /\ new.since = new.first /\ new.first <= now
  <2>1. slots[e.slot].first # None =>
          slots[e.slot].first \in Nat /\ slots[e.slot].first <= e.at /\ slots[e.slot].first <= now
    <3>1. slots[e.slot].first # None => slots[e.slot].first \in Nat
      BY <1>4 DEF BatchSlot
    <3> QED BY <1>0, <1>1, <1>2, <1>3, <3>1 DEF SlotAges
  <2>2. Added(slots[e.slot].deltas, e) \in Deltas
    BY <1>1, <1>4, AddedTyped DEF BatchSlot
  <2>3. new.first = IF slots[e.slot].first = None THEN e.at ELSE slots[e.slot].first
    BY <1>2, <2>1
  <2>4. new.since = new.first
    BY <1>4, <2>3
  <2>5. new.first \in Nat /\ new.first <= now
    BY <1>2, <2>1, <2>3
  <2> QED BY <2>2, <2>4, <2>5 DEF BatchSlot
<1>6. new.deltas = Added(slots[e.slot].deltas, e)
  OBVIOUS
<1>7. kept = [slots EXCEPT ![e.slot] = new]
  BY DEF Delivered
<1> HIDE DEF new, kept
<1>8. kept \in [Slots -> BatchSlot] /\ kept[e.slot] = new /\ \A s \in Slots : s # e.slot => kept[s] = slots[s]
  BY <1>2, <1>3, <1>5, <1>7
<1>9. ASSUME NEW s \in Slots
      PROVE  /\ kept[s].since = kept[s].first
             /\ kept[s].first # None => kept[s].first <= now
             /\ kept[s].deltas = IF s = e.slot THEN Added(slots[s].deltas, e) ELSE slots[s].deltas
  <2>1. CASE s = e.slot
    BY <1>5, <1>6, <1>8, <2>1
  <2>2. CASE s # e.slot
    BY <1>3, <1>8, <2>2
  <2> QED BY <2>1, <2>2
<1> QED BY <1>1, <1>2, <1>8, <1>9 DEF e, kept

\* The channel holds nothing that is yet to begin.
LEMMA PastKept == AInv /\ ChannelPast /\ [Next]_vars => ChannelPast'
<1> SUFFICES ASSUME AInv, ChannelPast, [Next]_vars PROVE ChannelPast'
  OBVIOUS
<1>0. Clocks /\ Typed /\ BufferAges /\ SlotAges
  BY DEF AInv, CInv
<1>1. ASSUME UNCHANGED <<now, channel>> PROVE ChannelPast'
  BY <1>1 DEF ChannelPast
<1>2. /\ slots \in [Slots -> BatchSlot]
      /\ \A s \in Slots : /\ slots[s].since = slots[s].first
                          /\ slots[s].first # None => slots[s].first <= now
  BY <1>0 DEF Typed, SlotAges
<1>3. ASSUME NEW at, NEW pending, HandOverDue(slots, at, pending), UNCHANGED now PROVE ChannelPast'
  BY <1>0, <1>2, <1>3, PastHandedOver
<1>4. ASSUME NEW pid \in Pids, Starts(pid) \/ Ends(pid) PROVE ChannelPast'
  BY <1>1, <1>4 DEF Starts, Ends, sink
<1>5. ASSUME NEW transfer \in Transfers, Tells(transfer) PROVE ChannelPast'
  BY <1>1, <1>5 DEF Tells, sink
<1>6. ASSUME NEW s \in Sessions, SessionStops(s) PROVE ChannelPast'
  BY <1>1, <1>6 DEF SessionStops, sink
<1>7. CASE OnEvent
  <2>1. buffer # <<>> /\ HandOverDue(Delivered(Head(buffer)), Head(buffer).at, woken) /\ UNCHANGED now
    BY <1>7 DEF OnEvent
  <2>2. /\ Delivered(Head(buffer)) \in [Slots -> BatchSlot]
        /\ \A s \in Slots : /\ Delivered(Head(buffer))[s].since = Delivered(Head(buffer))[s].first
                            /\ Delivered(Head(buffer))[s].first # None => Delivered(Head(buffer))[s].first <= now
    BY <2>1, DeliveredTyped
  <2> QED BY <1>0, <2>1, <2>2, PastHandedOver
<1>8. ASSUME NEW at, OnOtherEvent(at) PROVE ChannelPast'
  BY <1>3, <1>8 DEF OnOtherEvent
<1>9. CASE Flushes
  <2>1. UNCHANGED now
    BY <1>9 DEF Flushes
  <2>2. HandOverDue(slots, now, FALSE) \/ UNCHANGED channel
    BY <1>9 DEF Flushes
  <2> QED BY <1>1, <1>3, <2>1, <2>2
<1>10. ASSUME NEW starts \in BOOLEAN, Restarts(starts) PROVE ChannelPast'
  BY <1>1, <1>10 DEF Restarts
<1>11. ASSUME NEW reads \in BOOLEAN, Drains(reads) PROVE ChannelPast'
  <2>1. channel' = <<>>
    BY <1>11 DEF Drains
  <2> QED BY <2>1 DEF ChannelPast
<1>12. ASSUME NEW period \in Periods, Demands(period) PROVE ChannelPast'
  BY <1>1, <1>12 DEF Demands
<1>13. CASE TimePasses
  <2>1. now' = now + 1 /\ channel' = channel /\ now \in Nat
    BY <1>0, <1>13 DEF TimePasses, sink, Clocks
  <2>2. ASSUME NEW i \in 1..Len(channel) PROVE channel[i].first \in Nat
    <3>1. channel \in Seq(BatchChange)
      BY <1>0 DEF Typed
    <3>2. channel[i] \in BatchChange
      BY <3>1
    <3> QED BY <3>2 DEF BatchChange
  <2>3. \A i \in 1..Len(channel) : channel[i].first <= now + 1
    BY <2>1, <2>2 DEF ChannelPast
  <2> QED BY <2>1, <2>3 DEF ChannelPast
<1>14. CASE UNCHANGED vars
  BY <1>1, <1>14 DEF vars, sink
<1> QED
  BY <1>4, <1>5, <1>6, <1>7, <1>8, <1>9, <1>10, <1>11, <1>12, <1>13, <1>14 DEF Next

\* The machine and its faults stay within their bounds.
LEMMA MachineKept == Clocks /\ MachineLimits /\ CoreLimits /\ [Next]_vars => MachineLimits'
<1> SUFFICES ASSUME Clocks, MachineLimits, CoreLimits, [Next]_vars PROVE MachineLimits'
  OBVIOUS
<1>0. now \in Nat
  BY DEF Clocks
<1> USE BoundsTyped
<1>1. ASSUME UNCHANGED <<now, holder, started, events, faults, demands>> PROVE MachineLimits'
  BY <1>1 DEF MachineLimits
<1>2. ASSUME NEW pid \in Pids, Starts(pid) PROVE MachineLimits'
  <2>1. /\ started < MaxProcs /\ started' = started + 1 /\ holder' = [holder EXCEPT ![pid] = started']
        /\ UNCHANGED <<now, events, faults, demands>>
    BY <1>2 DEF Starts, demand
  <2>2. started' \in Procs /\ started' \in 0..MaxProcs
    BY <2>1 DEF MachineLimits, Procs
  <2>3. holder' \in [Pids -> Procs \cup {None}]
    BY <2>1, <2>2 DEF MachineLimits
  <2> QED BY <2>1, <2>2, <2>3 DEF MachineLimits
<1>3. ASSUME NEW pid \in Pids, Ends(pid) PROVE MachineLimits'
  BY <1>3 DEF Ends, MachineLimits, demand
<1>4. ASSUME NEW transfer \in Transfers, Tells(transfer) PROVE MachineLimits'
  BY <1>4 DEF Tells, MachineLimits, demand
<1>5. ASSUME NEW s \in Sessions, SessionStops(s) PROVE MachineLimits'
  BY <1>5 DEF SessionStops, MachineLimits, demand, machine
<1>6. CASE OnEvent
  BY <1>1, <1>6 DEF OnEvent, demand, machine
<1>7. ASSUME NEW at, OnOtherEvent(at) PROVE MachineLimits'
  BY <1>1, <1>7 DEF OnOtherEvent, demand, machine
<1>8. CASE Flushes
  <2>1. UNCHANGED <<now, holder, started, events, demands>>
    BY <1>8 DEF Flushes, demand, machine
  <2>2. TimerSet(flushTimer, timers, refused, running) \/ faults' = faults
    BY <1>8 DEF Flushes
  <2>3. faults' = faults \/ (faults < MaxFaults /\ faults' = faults + 1)
    BY <2>2, TimersTyped DEF CoreLimits
  <2> QED BY <2>1, <2>3 DEF MachineLimits
<1>9. ASSUME NEW starts \in BOOLEAN, Restarts(starts) PROVE MachineLimits'
  <2>1. /\ starts \/ (faults < MaxFaults /\ faults' = faults + 1)
        /\ UNCHANGED <<now, holder, started, events, demands>>
    BY <1>9 DEF Restarts, demand, machine
  <2>2. CASE starts
    <3> DEFINE anew == [s \in Sessions |-> FastFlush]
    <3>1. TimerSet(FastFlush, anew, FALSE, Sessions)
      BY <1>9, <2>2 DEF Restarts
    <3>2. anew \in [Sessions -> FastFlush..SlowFlush]
      OBVIOUS
    <3> HIDE DEF anew
    <3>3. faults' = faults \/ (faults < MaxFaults /\ faults' = faults + 1)
      BY <3>1, <3>2, TimersTyped DEF CoreLimits
    <3> QED BY <2>1, <3>3 DEF MachineLimits
  <2> QED BY <2>1, <2>2 DEF MachineLimits
<1>10. ASSUME NEW reads \in BOOLEAN, Drains(reads) PROVE MachineLimits'
  BY <1>1, <1>10 DEF Drains, demand, machine
<1>11. ASSUME NEW period \in Periods, Demands(period) PROVE MachineLimits'
  BY <1>11 DEF Demands, MachineLimits, machine
<1>12. CASE TimePasses
  BY <1>0, <1>12 DEF TimePasses, MachineLimits, machine, demand
<1>13. CASE UNCHANGED vars
  BY <1>1, <1>13 DEF vars, demand, machine
<1> QED
  BY <1>2, <1>3, <1>4, <1>5, <1>6, <1>7, <1>8, <1>9, <1>10, <1>11, <1>12, <1>13 DEF Next

\* What the core keeps is typed.
LEMMA CoreKept == Typed /\ MachineLimits /\ CoreLimits /\ [Next]_vars => CoreLimits'
<1> SUFFICES ASSUME Typed, MachineLimits, CoreLimits, [Next]_vars PROVE CoreLimits'
  OBVIOUS
<1>0. FastFlush \in FastFlush..SlowFlush
  BY BoundsTyped
<1>1. ASSUME UNCHANGED <<listed, counters, running, asked, flushTimer, timers, refused>> PROVE CoreLimits'
  BY <1>1 DEF CoreLimits
<1> DEFINE TimersAre == /\ flushTimer' \in FastFlush..SlowFlush
                        /\ timers' \in [Sessions -> FastFlush..SlowFlush] /\ refused' \in BOOLEAN
<1>2. ASSUME NEW remembered, NEW up, NEW before \in BOOLEAN,
             NEW had \in [Sessions -> FastFlush..SlowFlush], TimerSet(remembered, had, before, up)
      PROVE  TimersAre
  BY <1>2, TimersTyped DEF CoreLimits
<1>3. ASSUME NEW pid \in Pids, Starts(pid) \/ Ends(pid) PROVE CoreLimits'
  BY <1>1, <1>3 DEF Starts, Ends, sessions, demand, state
<1>4. ASSUME NEW transfer \in Transfers, Tells(transfer) PROVE CoreLimits'
  BY <1>1, <1>4 DEF Tells, sessions, demand, state
<1>5. ASSUME NEW s \in Sessions, SessionStops(s) PROVE CoreLimits'
  <2>1. running' = running \ {s} /\ UNCHANGED <<listed, counters, asked, flushTimer, timers, refused>>
    BY <1>5 DEF SessionStops, demand, state
  <2> QED BY <2>1 DEF CoreLimits
<1>6. CASE OnEvent
  BY <1>1, <1>6 DEF OnEvent, sessions, demand, state
<1>7. ASSUME NEW at, OnOtherEvent(at) PROVE CoreLimits'
  BY <1>1, <1>7 DEF OnOtherEvent, sessions, demand, state
<1>8. CASE Flushes
  <2>1. UNCHANGED <<listed, counters, running, asked>>
    BY <1>8 DEF Flushes, KeepsSessions, demand, state
  <2>2. TimerSet(flushTimer, timers, refused, running) \/ UNCHANGED <<flushTimer, timers, refused>>
    BY <1>8 DEF Flushes
  <2>3. TimersAre
    BY <1>2, <2>2 DEF CoreLimits
  <2> QED BY <2>1, <2>3 DEF CoreLimits
<1>9. ASSUME NEW starts \in BOOLEAN, Restarts(starts) PROVE CoreLimits'
  <2>1. running' \subseteq Sessions /\ UNCHANGED <<listed, counters, asked>>
    BY <1>9 DEF Restarts, demand, state
  <2>2. \/ TimerSet(FastFlush, [s \in Sessions |-> FastFlush], FALSE, Sessions)
        \/ UNCHANGED <<flushTimer, timers, refused>>
    BY <1>9 DEF Restarts
  <2>3. [s \in Sessions |-> FastFlush] \in [Sessions -> FastFlush..SlowFlush]
    BY <1>0
  <2>4. TimersAre
    BY <1>2, <2>2, <2>3 DEF CoreLimits
  <2> QED BY <2>1, <2>4 DEF CoreLimits
<1>10. ASSUME NEW reads \in BOOLEAN, Drains(reads) PROVE CoreLimits'
  <2> DEFINE charged == AllApplied(counters, channel)
  <2>1. UNCHANGED <<running, asked, flushTimer, timers, refused>>
    BY <1>10 DEF Drains, sessions, demand
  <2>2. CountersOf(charged)
    BY AllAppliedTyped DEF CoreLimits, Typed
  <2>3. \/ listed' = holder /\ counters' = Retained(charged, holder)
        \/ listed' = listed /\ counters' = charged
    BY <1>10 DEF Drains
  <2> HIDE DEF charged
  <2>4. CountersOf(Retained(charged, holder))
    <3> DEFINE rest == {pid \in DOMAIN charged : charged[pid].seq = holder[pid]}
    <3>1. Retained(charged, holder) = [pid \in rest |-> charged[pid]]
      BY DEF Retained, Restrict
    <3> QED BY <2>2, <3>1 DEF CountersOf
  <2>5. listed' \in [Pids -> Procs \cup {None}] /\ CountersOf(counters')
    BY <2>2, <2>3, <2>4 DEF CoreLimits, MachineLimits
  <2> QED BY <2>1, <2>5 DEF CoreLimits, CountersOf
<1>11. ASSUME NEW period \in Periods, Demands(period) PROVE CoreLimits'
  BY <1>11 DEF Demands, CoreLimits, sessions, state, CountersOf
<1>12. CASE TimePasses \/ UNCHANGED vars
  BY <1>1, <1>12 DEF TimePasses, vars, sessions, demand, state
<1> QED
  BY <1>3, <1>4, <1>5, <1>6, <1>7, <1>8, <1>9, <1>10, <1>11, <1>12 DEF Next

\* The limits are kept from the start on.
LEMMA LimitsAreKept == Spec => []Limits
<1>1. Init => Limits
  <2> SUFFICES ASSUME Init PROVE Limits
    OBVIOUS
  <2>1. MachineLimits
    <3>1. started = Cardinality(Pids) /\ 1..started \subseteq Procs
      BY BoundsTyped DEF Init, Procs
    <3>2. holder \in [Pids -> Procs \cup {None}]
      BY <3>1 DEF Init
    <3> QED BY <3>1, <3>2, BoundsTyped DEF Init, MachineLimits
  <2>2. CoreLimits
    <3>1. FastFlush \in FastFlush..SlowFlush
      BY BoundsTyped
    <3>2. /\ timers \in [Sessions -> FastFlush..SlowFlush] /\ flushTimer \in FastFlush..SlowFlush
          /\ refused \in BOOLEAN
      BY <3>1 DEF Init
    <3>3. CountersOf(counters)
      BY DEF Init, CountersOf
    <3>4. running \subseteq Sessions /\ asked \in Periods \cup {None} /\ listed = holder
      BY DEF Init
    <3> QED BY <2>1, <3>2, <3>3, <3>4 DEF CoreLimits, MachineLimits
  <2>3. Flags /\ ChannelPast
    <3>1. router \in BOOLEAN /\ woken = FALSE
      BY DEF Init
    <3>2. channel = <<>>
      BY DEF Init
    <3>3. ChannelPast
      BY <3>2 DEF ChannelPast
    <3> QED BY <3>1, <3>3, Zenon DEF Flags
  <2> QED BY <2>1, <2>2, <2>3 DEF Limits
<1>2. AInv /\ Limits /\ [Next]_vars => Limits'
  BY MachineKept, CoreKept, FlagsKept, PastKept DEF Limits, AInv, CInv
<1> QED BY <1>1, <1>2, AgesAreKept, PTL DEF Spec

-----------------------------------------------------------------------------
(***************************************************************************)
(* Where every byte is.                                                    *)
(***************************************************************************)
Amounts ==
  /\ AllSound(channel) /\ \A s \in Slots : Sound(slots[s].deltas)
  /\ totals \in [Slots -> Nat] /\ told \in [Slots -> Nat] /\ lost \in [Slots -> Nat]
  /\ dropped \in Nat
Balance ==
  \A s \in Slots :
    told[s] = totals[s] + lost[s] + BytesIn(channel)[s] + Outside(slots[s].deltas) + BytesHeld(buffer)[s]
Accounts == Amounts /\ Balance

\* The numbers of a balance.
LEMMA AmountsTyped ==
  ASSUME Typed, Amounts, NEW s \in Slots
  PROVE  /\ told[s] \in Nat /\ totals[s] \in Nat /\ lost[s] \in Nat
         /\ BytesIn(channel)[s] \in Nat /\ Outside(slots[s].deltas) \in Nat
         /\ BytesHeld(buffer)[s] \in Nat
BY BytesTyped, OutsideTyped, HeldTyped DEF Typed, Amounts

\* Nothing moves.
LEMMA AccountsStay ==
  ASSUME Accounts, UNCHANGED <<buffer, slots, channel, dropped, totals, told, lost>>
  PROVE  Accounts'
BY DEF Accounts, Amounts, Balance, AllSound

\* An event goes into its batch and what is due goes to the channel.
LEMMA EventAccounts == AInv /\ Accounts /\ OnEvent => Accounts'
<1> SUFFICES ASSUME AInv, Accounts, OnEvent PROVE Accounts'
  OBVIOUS
<1>0. Typed /\ Amounts /\ Balance
  BY DEF AInv, Accounts
<1> DEFINE e == Head(buffer)
           kept == Delivered(e)
           rest == Tail(buffer)
<1>1. /\ buffer # <<>> /\ buffer' = rest /\ HandOverDue(kept, e.at, woken)
      /\ UNCHANGED <<totals, told>>
  BY DEF OnEvent, state, machine
<1>2. /\ e \in Read /\ e.slot \in Slots /\ kept \in [Slots -> BatchSlot]
      /\ \A s \in Slots :
           /\ kept[s].since = kept[s].first
           /\ kept[s].deltas = IF s = e.slot THEN Added(slots[s].deltas, e) ELSE slots[s].deltas
  BY <1>1, DeliveredTyped
<1>3. buffer \in Seq(Read) /\ rest \in Seq(Read) /\ Len(channel) <= Capacity
  BY <1>0, <1>1 DEF Typed
<1>4. \A s \in Slots :
        BytesHeld(buffer)[s] = (IF e.slot = s THEN BytesOut(e) ELSE 0) + BytesHeld(rest)[s]
  BY <1>1, <1>3, HeldEnds
<1>5. \A s \in Slots : BytesHeld(rest)[s] \in Nat
  BY <1>3, HeldTyped
<1> HIDE DEF e, kept, rest
<1>6. ASSUME NEW s \in Slots
      PROVE  /\ Sound(kept[s].deltas)
             /\ Outside(kept[s].deltas) = Outside(slots[s].deltas) + (IF e.slot = s THEN BytesOut(e) ELSE 0)
  <2>1. Sound(slots[s].deltas) /\ Outside(slots[s].deltas) \in Nat
    BY <1>0, OutsideTyped DEF Amounts
  <2>2. CASE s = e.slot
    <3>1. kept[s].deltas = Added(slots[s].deltas, e)
      BY <1>2, <2>2
    <3>2. /\ Sound(Added(slots[s].deltas, e))
          /\ Outside(Added(slots[s].deltas, e)) = Outside(slots[s].deltas) + BytesOut(e)
      BY <1>2, <2>1, AddedCounts
    <3> QED BY <2>2, <3>1, <3>2
  <2>3. CASE s # e.slot
    <3>1. kept[s].deltas = slots[s].deltas
      BY <1>2, <2>3
    <3> QED BY <2>1, <2>3, <3>1
  <2> QED BY <2>2, <2>3
<1>7. /\ AllSound(channel') /\ lost' \in [Slots -> Nat] /\ dropped' \in Nat
      /\ \A s \in Slots :
           /\ Sound(slots'[s].deltas)
           /\ BytesIn(channel')[s] + lost'[s] + Outside(slots'[s].deltas)
                = BytesIn(channel)[s] + lost[s] + Outside(kept[s].deltas)
  <2>1. AllSound(channel) /\ lost \in [Slots -> Nat] /\ dropped \in Nat
    BY <1>0 DEF Amounts
  <2>2. \A s \in Slots : kept[s].since = kept[s].first /\ Sound(kept[s].deltas)
    BY <1>2, <1>6
  <2> QED BY <1>1, <1>2, <1>3, <2>1, <2>2, HandingOverCounts
<1>8. Amounts'
  BY <1>0, <1>1, <1>7 DEF Amounts, AllSound
<1>9. ASSUME NEW s \in Slots
      PROVE  told'[s] = totals'[s] + lost'[s] + BytesIn(channel')[s] + Outside(slots'[s].deltas) + BytesHeld(buffer')[s]
  <2> DEFINE b == IF e.slot = s THEN BytesOut(e) ELSE 0
  <2>1. b \in Nat
    BY DEF BytesOut
  <2>2. /\ totals[s] \in Nat /\ lost[s] \in Nat /\ BytesIn(channel)[s] \in Nat
        /\ Outside(slots[s].deltas) \in Nat /\ BytesHeld(rest)[s] \in Nat
    BY <1>0, <1>5, AmountsTyped
  <2>3. /\ lost'[s] \in Nat /\ BytesIn(channel')[s] \in Nat /\ Outside(slots'[s].deltas) \in Nat
    BY <1>7, BytesTyped, OutsideTyped
  <2>4. told[s] = totals[s] + lost[s] + BytesIn(channel)[s] + Outside(slots[s].deltas) + BytesHeld(buffer)[s]
    BY <1>0 DEF Balance
  <2>5. BytesHeld(buffer)[s] = b + BytesHeld(rest)[s] /\ Outside(kept[s].deltas) = Outside(slots[s].deltas) + b
    BY <1>4, <1>6
  <2>6. BytesIn(channel')[s] + lost'[s] + Outside(slots'[s].deltas)
          = BytesIn(channel)[s] + lost[s] + Outside(kept[s].deltas)
    BY <1>7
  <2> HIDE DEF b
  <2>7. totals[s] + lost'[s] + BytesIn(channel')[s] + Outside(slots'[s].deltas) + BytesHeld(rest)[s]
          = totals[s] + lost[s] + BytesIn(channel)[s] + Outside(slots[s].deltas) + (b + BytesHeld(rest)[s])
    BY <2>1, <2>2, <2>3, <2>5, <2>6
  <2> QED BY <1>1, <2>4, <2>5, <2>7
<1>10. Balance'
  BY <1>9 DEF Balance
<1> QED BY <1>8, <1>10 DEF Accounts

\* What is due goes to the channel from the batches as they are.
LEMMA HandOverAccounts ==
  ASSUME AInv, Accounts, NEW at, NEW pending, HandOverDue(slots, at, pending),
         UNCHANGED <<buffer, totals, told>>
  PROVE  Accounts'
<1>0. Typed /\ SlotAges /\ Amounts /\ Balance
  BY DEF AInv, Accounts
<1>1. /\ AllSound(channel') /\ lost' \in [Slots -> Nat] /\ dropped' \in Nat
      /\ \A s \in Slots :
           /\ Sound(slots'[s].deltas)
           /\ BytesIn(channel')[s] + lost'[s] + Outside(slots'[s].deltas)
                = BytesIn(channel)[s] + lost[s] + Outside(slots[s].deltas)
  <2>1. /\ AllSound(channel) /\ lost \in [Slots -> Nat] /\ dropped \in Nat
        /\ slots \in [Slots -> BatchSlot] /\ Len(channel) <= Capacity
    BY <1>0 DEF Amounts, Typed
  <2>2. \A s \in Slots : slots[s].since = slots[s].first /\ Sound(slots[s].deltas)
    BY <1>0 DEF Amounts, SlotAges
  <2> QED BY <2>1, <2>2, HandingOverCounts
<1>2. Amounts'
  BY <1>0, <1>1 DEF Amounts, AllSound
<1>3. ASSUME NEW s \in Slots
      PROVE  told'[s] = totals'[s] + lost'[s] + BytesIn(channel')[s] + Outside(slots'[s].deltas) + BytesHeld(buffer')[s]
  <2>1. /\ totals[s] \in Nat /\ lost[s] \in Nat /\ BytesIn(channel)[s] \in Nat
        /\ Outside(slots[s].deltas) \in Nat /\ BytesHeld(buffer)[s] \in Nat
    BY <1>0, AmountsTyped
  <2>2. /\ lost'[s] \in Nat /\ BytesIn(channel')[s] \in Nat /\ Outside(slots'[s].deltas) \in Nat
    BY <1>1, BytesTyped, OutsideTyped
  <2>3. told[s] = totals[s] + lost[s] + BytesIn(channel)[s] + Outside(slots[s].deltas) + BytesHeld(buffer)[s]
    BY <1>0 DEF Balance
  <2>4. BytesIn(channel')[s] + lost'[s] + Outside(slots'[s].deltas)
          = BytesIn(channel)[s] + lost[s] + Outside(slots[s].deltas)
    BY <1>1
  <2>5. totals[s] + lost'[s] + BytesIn(channel')[s] + Outside(slots'[s].deltas) + BytesHeld(buffer)[s]
          = totals[s] + lost[s] + BytesIn(channel)[s] + Outside(slots[s].deltas) + BytesHeld(buffer)[s]
    BY <2>1, <2>2, <2>4
  <2> QED BY <2>3, <2>5
<1>4. Balance'
  BY <1>3 DEF Balance
<1> QED BY <1>2, <1>4 DEF Accounts

\* What the kernel tells of is in its buffers.
LEMMA TellAccounts ==
  ASSUME AInv, Accounts, NEW transfer \in Transfers, Tells(transfer)
  PROVE  Accounts'
<1>0. Clocks /\ Typed /\ Amounts /\ Balance
  BY DEF AInv, CInv, Accounts
<1> DEFINE e == Event(transfer)
<1>1. /\ buffer' = Append(buffer, e)
      /\ told' = [told EXCEPT ![transfer.slot] = @ + BytesOut(transfer)]
      /\ UNCHANGED <<slots, channel, dropped, totals, lost>>
  BY DEF Tells, sink, state
<1>2. /\ e \in Read /\ e.slot = transfer.slot /\ BytesOut(e) = BytesOut(transfer)
      /\ transfer.slot \in Slots
  BY <1>0, TransfersAssumption DEF Event, Read, Slots, BytesOut, Clocks
<1>3. buffer \in Seq(Read)
  BY <1>0 DEF Typed
<1>4. \A s \in Slots :
        BytesHeld(buffer')[s] = BytesHeld(buffer)[s] + IF e.slot = s THEN BytesOut(e) ELSE 0
  BY <1>1, <1>2, <1>3, HeldEnds
<1> HIDE DEF e
<1> DEFINE b == BytesOut(transfer)
<1>5. b \in Nat
  BY DEF BytesOut
<1>6. told \in [Slots -> Nat]
  BY <1>0 DEF Amounts
<1> HIDE DEF b
<1>7. told' = [told EXCEPT ![transfer.slot] = @ + b]
  BY <1>1 DEF b
<1>8. /\ told' \in [Slots -> Nat]
      /\ \A s \in Slots : told'[s] = told[s] + IF transfer.slot = s THEN b ELSE 0
  BY <1>2, <1>5, <1>6, <1>7
<1>9. Amounts'
  BY <1>0, <1>1, <1>8 DEF Amounts, AllSound
<1>10. ASSUME NEW s \in Slots
       PROVE  told'[s] = totals'[s] + lost'[s] + BytesIn(channel')[s] + Outside(slots'[s].deltas) + BytesHeld(buffer')[s]
  <2> DEFINE x == IF transfer.slot = s THEN b ELSE 0
  <2>1. x \in Nat
    BY <1>5
  <2>2. /\ totals[s] \in Nat /\ lost[s] \in Nat /\ BytesIn(channel)[s] \in Nat
        /\ Outside(slots[s].deltas) \in Nat /\ BytesHeld(buffer)[s] \in Nat
    BY <1>0, AmountsTyped
  <2>3. told[s] = totals[s] + lost[s] + BytesIn(channel)[s] + Outside(slots[s].deltas) + BytesHeld(buffer)[s]
    BY <1>0 DEF Balance
  <2>4. told'[s] = told[s] + x /\ BytesHeld(buffer')[s] = BytesHeld(buffer)[s] + x
    BY <1>2, <1>4, <1>8 DEF b
  <2> HIDE DEF x
  <2>5. told[s] + x = totals[s] + lost[s] + BytesIn(channel)[s] + Outside(slots[s].deltas) + (BytesHeld(buffer)[s] + x)
    BY <2>1, <2>2, <2>3
  <2> QED BY <1>1, <2>4, <2>5
<1>11. Balance'
  BY <1>10 DEF Balance
<1> QED BY <1>9, <1>11 DEF Accounts

\* What the buffers of a session that stops hold is lost.
LEMMA StopAccounts ==
  ASSUME AInv, Accounts, NEW s0, SessionStops(s0)
  PROVE  Accounts'
<1>0. Typed /\ Amounts /\ Balance
  BY DEF AInv, Accounts
<1>1. UNCHANGED <<slots, channel, dropped, totals, told>>
  BY DEF SessionStops, sink, state, machine
<1>2. \/ UNCHANGED <<buffer, lost>>
      \/ buffer' = <<>> /\ lost' = Plus(lost, BytesHeld(buffer))
  BY DEF SessionStops
<1>3. CASE UNCHANGED <<buffer, lost>>
  BY <1>1, <1>3, AccountsStay
<1>4. CASE buffer' = <<>> /\ lost' = Plus(lost, BytesHeld(buffer))
  <2>1. <<>> \in Seq(Read)
    OBVIOUS
  <2>2. \A s \in Slots :
          /\ BytesHeld(buffer')[s] = 0
          /\ lost'[s] = lost[s] + BytesHeld(buffer)[s]
          /\ lost[s] \in Nat /\ BytesHeld(buffer)[s] \in Nat
    BY <1>0, <1>4, <2>1, HeldTyped, AmountsTyped DEF Plus
  <2>3. lost' \in [Slots -> Nat]
    <3>1. lost' = [s \in Slots |-> lost[s] + BytesHeld(buffer)[s]]
      BY <1>4 DEF Plus
    <3> QED BY <2>2, <3>1
  <2>4. Amounts'
    BY <1>0, <1>1, <2>3 DEF Amounts, AllSound
  <2>5. ASSUME NEW s \in Slots
        PROVE  told'[s] = totals'[s] + lost'[s] + BytesIn(channel')[s] + Outside(slots'[s].deltas) + BytesHeld(buffer')[s]
    <3>1. /\ totals[s] \in Nat /\ lost[s] \in Nat /\ BytesIn(channel)[s] \in Nat
          /\ Outside(slots[s].deltas) \in Nat /\ BytesHeld(buffer)[s] \in Nat
      BY <1>0, AmountsTyped
    <3>2. told[s] = totals[s] + lost[s] + BytesIn(channel)[s] + Outside(slots[s].deltas) + BytesHeld(buffer)[s]
      BY <1>0 DEF Balance
    <3>3. told[s] = totals[s] + (lost[s] + BytesHeld(buffer)[s]) + BytesIn(channel)[s] + Outside(slots[s].deltas) + 0
      BY <3>1, <3>2
    <3> QED BY <1>1, <2>2, <3>3
  <2>6. Balance'
    BY <2>5 DEF Balance
  <2> QED BY <2>4, <2>6 DEF Accounts
<1> QED BY <1>2, <1>3, <1>4

\* What was batched and in the buffers of sessions that start again is lost.
LEMMA RestartAccounts ==
  ASSUME AInv, Accounts, NEW starts, Restarts(starts)
  PROVE  Accounts'
<1>0. Typed /\ Amounts /\ Balance
  BY DEF AInv, Accounts
<1>1. /\ buffer' = <<>> /\ slots' = EmptySlots
      /\ lost' = [s \in Slots |-> lost[s] + BytesHeld(buffer)[s] + Outside(slots[s].deltas)]
      /\ UNCHANGED <<channel, dropped, totals, told>>
  BY DEF Restarts, state, machine
<1>2. <<>> \in Seq(Read)
  OBVIOUS
<1>3. \A s \in Slots : /\ slots'[s].deltas = <<>> /\ Sound(slots'[s].deltas)
                       /\ Outside(slots'[s].deltas) = 0
  BY <1>1, NothingOutside DEF EmptySlots, EmptySlot
<1>4. \A s \in Slots :
        /\ BytesHeld(buffer')[s] = 0
        /\ lost'[s] = lost[s] + BytesHeld(buffer)[s] + Outside(slots[s].deltas)
        /\ lost[s] \in Nat /\ BytesHeld(buffer)[s] \in Nat /\ Outside(slots[s].deltas) \in Nat
  BY <1>0, <1>1, <1>2, HeldTyped, AmountsTyped
<1>5. lost' \in [Slots -> Nat]
  BY <1>1, <1>4
<1>6. Amounts'
  BY <1>0, <1>1, <1>3, <1>5 DEF Amounts, AllSound
<1>7. ASSUME NEW s \in Slots
      PROVE  told'[s] = totals'[s] + lost'[s] + BytesIn(channel')[s] + Outside(slots'[s].deltas) + BytesHeld(buffer')[s]
  <2>1. /\ totals[s] \in Nat /\ lost[s] \in Nat /\ BytesIn(channel)[s] \in Nat
        /\ Outside(slots[s].deltas) \in Nat /\ BytesHeld(buffer)[s] \in Nat
    BY <1>0, AmountsTyped
  <2>2. told[s] = totals[s] + lost[s] + BytesIn(channel)[s] + Outside(slots[s].deltas) + BytesHeld(buffer)[s]
    BY <1>0 DEF Balance
  <2>3. told[s] = totals[s] + (lost[s] + BytesHeld(buffer)[s] + Outside(slots[s].deltas)) + BytesIn(channel)[s] + 0 + 0
    BY <2>1, <2>2
  <2> QED BY <1>1, <1>3, <1>4, <2>3
<1>8. Balance'
  BY <1>7 DEF Balance
<1> QED BY <1>6, <1>8 DEF Accounts

\* What a drain takes from the channel is in the totals.
LEMMA DrainAccounts ==
  ASSUME AInv, Accounts, NEW reads, Drains(reads)
  PROVE  Accounts'
<1>0. Typed /\ Amounts /\ Balance
  BY DEF AInv, Accounts
<1>1. /\ totals' = Plus(totals, BytesIn(channel)) /\ channel' = <<>>
      /\ UNCHANGED <<buffer, slots, dropped, told, lost>>
  BY DEF Drains, machine
<1>2. AllSound(channel') /\ \A s \in Slots : BytesIn(channel')[s] = 0
  BY <1>1, BytesOfNone
<1>3. \A s \in Slots : /\ totals'[s] = totals[s] + BytesIn(channel)[s]
                       /\ totals[s] \in Nat /\ BytesIn(channel)[s] \in Nat
  BY <1>0, <1>1, AmountsTyped DEF Plus
<1>4. totals' \in [Slots -> Nat]
  <2>1. totals' = [s \in Slots |-> totals[s] + BytesIn(channel)[s]]
    BY <1>1 DEF Plus
  <2> QED BY <1>3, <2>1
<1>5. Amounts'
  BY <1>0, <1>1, <1>2, <1>4 DEF Amounts
<1>6. ASSUME NEW s \in Slots
      PROVE  told'[s] = totals'[s] + lost'[s] + BytesIn(channel')[s] + Outside(slots'[s].deltas) + BytesHeld(buffer')[s]
  <2>1. /\ totals[s] \in Nat /\ lost[s] \in Nat /\ BytesIn(channel)[s] \in Nat
        /\ Outside(slots[s].deltas) \in Nat /\ BytesHeld(buffer)[s] \in Nat
    BY <1>0, AmountsTyped
  <2>2. told[s] = totals[s] + lost[s] + BytesIn(channel)[s] + Outside(slots[s].deltas) + BytesHeld(buffer)[s]
    BY <1>0 DEF Balance
  <2>3. told[s] = (totals[s] + BytesIn(channel)[s]) + lost[s] + 0 + Outside(slots[s].deltas) + BytesHeld(buffer)[s]
    BY <2>1, <2>2
  <2> QED BY <1>1, <1>2, <1>3, <2>3
<1>7. Balance'
  BY <1>6 DEF Balance
<1> QED BY <1>5, <1>7 DEF Accounts

\* The accounts are kept from the start on.
LEMMA AccountsAreKept == Spec => []Accounts
<1>1. Init => Accounts
  <2> SUFFICES ASSUME Init PROVE Accounts
    OBVIOUS
  <2>1. /\ buffer = <<>> /\ channel = <<>> /\ slots = EmptySlots /\ dropped = 0
        /\ totals = NoBytes /\ told = NoBytes /\ lost = NoBytes
    BY DEF Init
  <2>2. /\ NoBytes \in [Slots -> Nat] /\ \A s \in Slots : NoBytes[s] = 0
        /\ <<>> \in Seq(Read)
    BY DEF NoBytes
  <2>3. AllSound(channel) /\ \A s \in Slots : BytesIn(channel)[s] = 0
    BY <2>1, BytesOfNone
  <2>4. \A s \in Slots : /\ Sound(slots[s].deltas) /\ Outside(slots[s].deltas) = 0
                         /\ BytesHeld(buffer)[s] = 0
    BY <2>1, <2>2, NothingOutside, HeldTyped DEF EmptySlots, EmptySlot
  <2>5. Amounts
    BY <2>1, <2>2, <2>3, <2>4 DEF Amounts
  <2>6. Balance
    <3> SUFFICES ASSUME NEW s \in Slots
                 PROVE  told[s] = totals[s] + lost[s] + BytesIn(channel)[s] + Outside(slots[s].deltas)
                                    + BytesHeld(buffer)[s]
      BY DEF Balance
    <3>1. told[s] = 0 /\ totals[s] = 0 /\ lost[s] = 0
      BY <2>1, <2>2
    <3>2. BytesIn(channel)[s] = 0 /\ Outside(slots[s].deltas) = 0 /\ BytesHeld(buffer)[s] = 0
      BY <2>3, <2>4
    <3> QED BY <3>1, <3>2
  <2> QED BY <2>5, <2>6 DEF Accounts
<1>2. ASSUME AInv, Accounts, [Next]_vars PROVE Accounts'
  <2>1. ASSUME NEW pid \in Pids, Starts(pid) \/ Ends(pid) PROVE Accounts'
    BY <1>2, <2>1, AccountsStay DEF Starts, Ends, sink, state
  <2>2. ASSUME NEW transfer \in Transfers, Tells(transfer) PROVE Accounts'
    BY <1>2, <2>2, TellAccounts
  <2>3. ASSUME NEW s, SessionStops(s) PROVE Accounts'
    BY <1>2, <2>3, StopAccounts
  <2>4. CASE OnEvent
    BY <1>2, <2>4, EventAccounts
  <2>5. ASSUME NEW at, OnOtherEvent(at) PROVE Accounts'
    <3>1. HandOverDue(slots, at, woken) /\ UNCHANGED <<buffer, totals, told>>
      BY <2>5 DEF OnOtherEvent, state, machine
    <3> QED BY <1>2, <3>1, HandOverAccounts
  <2>6. CASE Flushes
    <3>1. UNCHANGED <<buffer, totals, told>>
      BY <2>6 DEF Flushes, state, machine
    <3>2. HandOverDue(slots, now, FALSE) \/ UNCHANGED <<slots, channel, dropped, lost>>
      BY <2>6 DEF Flushes
    <3> QED BY <1>2, <3>1, <3>2, HandOverAccounts, AccountsStay
  <2>7. ASSUME NEW starts, Restarts(starts) PROVE Accounts'
    BY <1>2, <2>7, RestartAccounts
  <2>8. ASSUME NEW reads, Drains(reads) PROVE Accounts'
    BY <1>2, <2>8, DrainAccounts
  <2>9. ASSUME NEW period, Demands(period) PROVE Accounts'
    BY <1>2, <2>9, AccountsStay DEF Demands, machine, state
  <2>10. CASE TimePasses \/ UNCHANGED vars
    BY <1>2, <2>10, AccountsStay DEF TimePasses, vars, machine, state, sink
  <2> QED
    BY <1>2, <2>1, <2>2, <2>3, <2>4, <2>5, <2>6, <2>7, <2>8, <2>9, <2>10 DEF Next
<1> QED BY <1>1, <1>2, AgesAreKept, PTL DEF Spec

\* The types follow from the ages, the limits and the amounts.
LEMMA TypesFollow == AInv /\ Limits /\ Amounts => TypeOK
<1> SUFFICES ASSUME AInv, Limits, Amounts PROVE TypeOK
  OBVIOUS
<1>0. /\ Clocks /\ Typed /\ BufferAges /\ SlotAges
      /\ MachineLimits /\ CoreLimits /\ Flags /\ ChannelPast
  BY DEF AInv, CInv, Limits
<1>1. /\ now \in Times /\ checked \in Times /\ down \in Times /\ ticked \in Times
      /\ core \in {"parked", "flushed"}
  BY <1>0, BoundsTyped DEF Clocks, MachineLimits, Times
<1>2. \A n \in Nat : n <= now => n \in Times
  BY <1>0, BoundsTyped DEF Clocks, MachineLimits, Times
<1>3. /\ holder \in [Pids -> Procs \cup {None}] /\ listed \in [Pids -> Procs \cup {None}]
      /\ started \in 0..MaxProcs /\ running \subseteq Sessions
      /\ asked \in Periods \cup {None} /\ flushTimer \in FastFlush..SlowFlush
      /\ timers \in [Sessions -> FastFlush..SlowFlush] /\ refused \in BOOLEAN
      /\ events \in 0..MaxEvents /\ faults \in 0..MaxFaults /\ demands \in 0..MaxDemands
      /\ DOMAIN counters \subseteq Pids
      /\ \A pid \in DOMAIN counters : counters[pid] \in [seq : Procs, bytes : Nat]
  BY <1>0 DEF MachineLimits, CoreLimits, CountersOf
<1>4. \A d \in Deltas : AreDeltas(d)
  <2> SUFFICES ASSUME NEW d \in Deltas PROVE AreDeltas(d)
    OBVIOUS
  <2>1. PICK keys \in SUBSET Pids : d \in [keys -> [all : Nat, loopback : Nat]]
    BY DEF Deltas
  <2> QED BY <2>1 DEF AreDeltas
<1>5. buffer \in Seq(EventType)
  <2>1. buffer \in Seq(Read)
    BY <1>0 DEF Typed
  <2>2. ASSUME NEW i \in 1..Len(buffer) PROVE buffer[i] \in EventType
    <3>1. buffer[i] \in Read
      BY <2>1
    <3>2. buffer[i].at \in Times
      BY <1>0, <1>2, <3>1 DEF BufferAges, Read
    <3> QED BY <3>1, <3>2 DEF Read, EventType
  <2>3. Len(buffer) \in Nat /\ buffer = [i \in 1..Len(buffer) |-> buffer[i]]
    BY <2>1
  <2> QED BY <2>2, <2>3
<1>6. ASSUME NEW s \in Slots
      PROVE  /\ AreDeltas(slots[s].deltas)
             /\ slots[s].since \in Times \cup {None} /\ slots[s].first \in Times \cup {None}
  <2>1. slots[s] \in BatchSlot
    BY <1>0 DEF Typed
  <2>2. slots[s].deltas \in Deltas /\ slots[s].first \in Nat \cup {None}
    BY <2>1 DEF BatchSlot
  <2>3. slots[s].since = slots[s].first /\ (slots[s].first # None => slots[s].first <= now)
    BY <1>0 DEF SlotAges
  <2> QED BY <1>2, <1>4, <2>2, <2>3
<1>7. ASSUME NEW i \in DOMAIN channel
      PROVE  /\ channel[i].slot \in Slots /\ channel[i].first \in Times
             /\ AreDeltas(channel[i].deltas)
  <2>1. i \in 1..Len(channel) /\ channel[i] \in BatchChange
    <3>1. channel \in Seq(BatchChange)
      BY <1>0 DEF Typed
    <3> QED BY <1>7, <3>1
  <2>2. channel[i].slot \in Slots /\ channel[i].deltas \in Deltas /\ channel[i].first \in Nat
    BY <2>1 DEF BatchChange
  <2>3. channel[i].first <= now
    BY <1>0, <2>1 DEF ChannelPast
  <2> QED BY <1>2, <1>4, <2>2, <2>3
<1>8. /\ Len(channel) <= Capacity /\ dropped \in Nat
      /\ totals \in [Slots -> Nat] /\ told \in [Slots -> Nat] /\ lost \in [Slots -> Nat]
  BY <1>0 DEF Typed, Amounts
<1>9. router \in BOOLEAN /\ woken \in BOOLEAN
  BY <1>0 DEF Flags
<1> QED BY <1>1, <1>3, <1>5, <1>6, <1>7, <1>8, <1>9, Zenon DEF TypeOK

\* Every byte the kernel told of is counted in the machine's totals once: it
\* is there, on its way there, or lost with a full channel or a session, for
\* any number of pids, sessions, batches and faults (SystemState::apply,
\* Sink::emit, RouterCore::hand_over_due, Supervisor::keep_sessions).
THEOREM BytesAreConserved == Spec => []Conserved
<1>1. AInv /\ Limits /\ Accounts => Conserved
  BY TypesFollow DEF Accounts, Balance, Conserved
<1> QED BY <1>1, AgesAreKept, LimitsAreKept, AccountsAreKept, PTL
=============================================================================

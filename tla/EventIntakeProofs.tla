------------------------- MODULE EventIntakeProofs -------------------------
(***************************************************************************)
(* Proofs about the way of an event from the sessions to where it is let   *)
(* out (EventIntake, over Assembler), for any number of processes and      *)
(* pids, any delays and skews of the sessions and any size of the queue.   *)
(***************************************************************************)
EXTENDS EventIntake, FiniteSetTheorems, TLAPS

CreatedRaws == [kind : {"created"}, pid : Pids, seq : Nat, time : Nat, scheduled_by : BOOLEAN]
HalfRaws(kind) == [kind : {kind}, pid : Pids, time : Nat, of : Nat]
EndedRaws == [kind : {"ended"}, pid : Pids, seq : Nat, time : Nat, since : Nat]
Losses == [kind : {"kernel_lost"}, total : Nat]
StartType == [pid : Pids, seq : Nat, time : Nat, scheduled_by : BOOLEAN,
              launched : HalfRaws("launched") \cup {None}, task : HalfRaws("scheduled") \cup {None}]
AsmType == [starts : SUBSET StartType, exits : SUBSET EndedRaws,
            launched : SUBSET HalfRaws("launched"), scheduled : SUBSET HalfRaws("scheduled"),
            went : SUBSET [pid : Pids, seq : Nat, time : Nat]]
Outs == [start : StartOut \cup {None}, exit : BOOLEAN]

Lives == [pid : Pids, time : Nat, task : BOOLEAN, ended : BOOLEAN]
TypedClock == now \in Nat /\ WaitsAtMost <= now /\ now <= MaxTime /\ wake_by \in Nat
TypedLines ==
  /\ born \in Seq(Lives) /\ Len(born) <= MaxBorn
  /\ underway \in [Sessions -> Seq(Raws)]
  /\ inbox \in Seq(Raws \cup Losses)
  /\ ~open => \A s \in Sessions : underway[s] = <<>>
TypedCounts ==
  /\ full \in BOOLEAN /\ open \in BOOLEAN /\ restarted \in BOOLEAN
  /\ dropped \in Nat /\ events_lost \in Nat /\ kernel_lost \in Nat /\ dropped_seen \in Nat
  /\ lost \in Nat /\ outlost \in Nat /\ counted \in Nat /\ dropped_seen <= dropped
TypedThread ==
  /\ pc \in {"wait", "drain", "release", "closed"}
  /\ asm \in AsmType
  /\ out \in [1..MaxBorn -> Outs]
Typed == TypedClock /\ TypedLines /\ TypedCounts /\ TypedThread

-----------------------------------------------------------------------------
(***************************************************************************)
(* What an event says is so of the process it names.                       *)
(***************************************************************************)
Of(raw) == IF Counted(raw.kind) THEN raw.seq ELSE raw.of
Faithful(raw) ==
  /\ Of(raw) \in Processes /\ raw.pid = born[Of(raw)].pid
  /\ raw.kind = "created" =>
       raw.time = born[Of(raw)].time /\ (born[Of(raw)].task => raw.scheduled_by)
  /\ ~Counted(raw.kind) =>
       born[Of(raw)].time <= raw.time /\ raw.time <= born[Of(raw)].time + Skew
  /\ raw.kind = "scheduled" => born[Of(raw)].task
  /\ raw.kind = "ended" =>
       /\ born[Of(raw)].ended /\ born[Of(raw)].time <= raw.time
       /\ raw.since \in {0, born[Of(raw)].time}
FaithfulStart(s) ==
  /\ s.seq \in Processes /\ s.pid = born[s.seq].pid /\ s.time = born[s.seq].time
  /\ born[s.seq].task => s.scheduled_by
  /\ s.launched # None => Faithful(s.launched)
  /\ s.task # None => Faithful(s.task)

TrueOf(under) ==
  \A s \in Sessions : \A i \in 1..Len(under[s]) :
    Faithful(under[s][i]) /\ SessionOf(under[s][i].kind) = s

\* When the process started that a half tells of.
Base(raw) == IF Counted(raw.kind) THEN raw.time ELSE born[raw.of].time

Births ==
  /\ \A n \in Processes : WaitsAtMost <= born[n].time /\ born[n].time <= now
  /\ \A m, n \in Processes : m < n => born[m].time <= born[n].time
  /\ \A m, n \in Processes :
       m < n /\ born[m].pid = born[n].pid => born[m].time + MinLife <= born[n].time
BoxTrue(box) == \A i \in 1..Len(box) : box[i].kind # "kernel_lost" => Faithful(box[i])
AsmTrue(a) ==
  /\ \A s \in a.starts : FaithfulStart(s)
  /\ \A raw \in a.exits \cup a.launched \cup a.scheduled : Faithful(raw)
Truths == Births /\ TrueOf(underway) /\ BoxTrue(inbox) /\ AsmTrue(asm)

\* None is on its way for longer than the sessions take.
PromptOf(under) ==
  \A s \in Sessions : \A i \in 1..Len(under[s]) :
    /\ Base(under[s][i]) <= now
    /\ now <= Base(under[s][i]) + Skew + Delay
    /\ \A k \in 1..i : under[s][k].time <= Base(under[s][i]) + Skew
BoxPrompt(box) ==
  \A i \in 1..Len(box) : box[i].kind # "kernel_lost" => now <= Base(box[i]) + Skew + Delay
Prompt == PromptOf(underway) /\ BoxPrompt(inbox)

-----------------------------------------------------------------------------
(***************************************************************************)
(* What is on its way (OnTheWay, of any lines).                            *)
(***************************************************************************)
Entries == Raws \cup Losses
Sent(queue, name) ==
  \E i \in 1..Len(queue) : queue[i].kind # "kernel_lost" /\ Name(queue[i]) = name
Way(under, box, name) == (\E s \in Sessions : Sent(under[s], name)) \/ Sent(box, name)
Going(name) == Way(underway, inbox, name)

-----------------------------------------------------------------------------
(***************************************************************************)
(* Each event is told once, and a session hands over what it tells in      *)
(* order: what was told after one that is on its way is so too, or lost.   *)
(***************************************************************************)
Kinds == {"created", "launched", "scheduled", "ended"}
SaidOf(lives) ==
  {name \in Kinds \X (1..Len(lives)) :
     /\ name[1] = "scheduled" => lives[name[2]].task
     /\ name[1] = "ended" => lives[name[2]].ended}
Said == SaidOf(born)
Ahead(a, b) == \/ a[1] = "created" /\ b[1] = "created" /\ a[2] < b[2]
               \/ a[1] = "created" /\ b[1] = "ended" /\ a[2] = b[2]
               \/ a[1] = "launched" /\ b[1] = "launched" /\ a[2] < b[2]
Behind(x, y) == x.kind # "kernel_lost" /\ y.kind # "kernel_lost" =>
                  Name(x) # Name(y) /\ ~Ahead(Name(y), Name(x))
InOrder(queue) == \A i, k \in 1..Len(queue) : i < k => Behind(queue[i], queue[k])
AllBehind(queue, after) == \A i \in 1..Len(queue), k \in 1..Len(after) : Behind(queue[i], after[k])
InLines(under, box) == /\ InOrder(box)
                       /\ \A s \in Sessions : InOrder(under[s]) /\ AllBehind(box, under[s])

Lines ==
  /\ InLines(underway, inbox)
  /\ missing \subseteq Said
  /\ \A name \in missing : ~Going(name)
  /\ \A a, b \in Said : Going(a) /\ Ahead(a, b) => Going(b) \/ b \in missing

\* One of four.
One(a, b, c, d) == /\ a \/ b \/ c \/ d
                   /\ ~(a /\ b) /\ ~(a /\ c) /\ ~(a /\ d)
                   /\ ~(b /\ c) /\ ~(b /\ d) /\ ~(c /\ d)
Held(n) == \E s \in asm.starts : s.seq = n
Exits(n) == \E e \in asm.exits : e.seq = n
\* One start and one exit of a process at most.
OneStart == \A s, t \in asm.starts : s.seq = t.seq => s = t
OneExit == \A d, e \in asm.exits : d.seq = e.seq => d = e
Places ==
  /\ \A n \in Processes :
       /\ One(Going(<<"created", n>>), <<"created", n>> \in missing, Held(n), out[n].start # None)
       /\ born[n].ended =>
            One(Going(<<"ended", n>>), <<"ended", n>> \in missing, Exits(n), out[n].exit)
  /\ \A n \in 1..MaxBorn :
       /\ out[n].start # None => n \in Processes
       /\ out[n].exit => n \in Processes /\ born[n].ended
  /\ OneStart /\ OneExit
  /\ pc = "closed" => asm.starts = {} /\ asm.exits = {} /\ inbox = <<>> /\ ~open

-----------------------------------------------------------------------------
(***************************************************************************)
(* What waits was there at the last release, which was a tick before       *)
(* wake_by.                                                                *)
(***************************************************************************)
Waiting ==
  /\ pc # "closed" => \A n \in Processes :
       out[n].start # None /\ now < born[n].time + WaitsAtMost =>
         [pid |-> born[n].pid, seq |-> n, time |-> born[n].time] \in asm.went
  /\ now <= wake_by
  /\ pc = "wait" =>
       /\ \A s \in asm.starts : wake_by < s.time + WaitsAtMost + Tick
       /\ \A e \in asm.exits : e.since # 0 => wake_by < e.since + WaitsAtMost + Tick
       /\ \A e \in asm.exits : out[e.seq].start = None

-----------------------------------------------------------------------------
(***************************************************************************)
(* Where the halves of a process are nothing was lost of.                  *)
(***************************************************************************)
HalfIn(halves, n) == \E h \in halves : h.of = n
Paired(n) ==
  /\ HalfIn(asm.launched, n) <=> Going(<<"created", n>>) /\ ~Going(<<"launched", n>>)
  /\ \A s \in asm.starts : s.seq = n =>
       IF Going(<<"launched", n>>) THEN s.launched = None
       ELSE s.launched # None /\ s.launched.of = n
  /\ out[n].start # None => out[n].start.launched = n /\ ~Going(<<"launched", n>>)
Tasked(n) ==
  IF born[n].task
  THEN /\ HalfIn(asm.scheduled, n) <=> Going(<<"created", n>>) /\ ~Going(<<"scheduled", n>>)
       /\ \A s \in asm.starts : s.seq = n =>
            IF Going(<<"scheduled", n>>) THEN s.task = None
            ELSE s.task # None /\ s.task.of = n
       /\ out[n].start # None => out[n].start.task = n /\ ~Going(<<"scheduled", n>>)
  ELSE /\ \A s \in asm.starts : s.seq = n => s.task = None
       /\ out[n].start # None => out[n].start.task = None
\* Nothing of its pid was lost.
Whole(n) == Lossless(born[n].pid)
OneEach(halves) == \A h, g \in halves : h.of = g.of => h = g
Launches ==
  /\ OneEach(asm.launched)
  /\ \A h \in asm.launched : ~Going(<<"launched", h.of>>)
  /\ \A n \in Processes : Whole(n) => Paired(n)
Tasks ==
  /\ OneEach(asm.scheduled)
  /\ \A h \in asm.scheduled : ~Going(<<"scheduled", h.of>>)
  /\ \A n \in Processes : Whole(n) /\ Alone(n) => Tasked(n)
Halves == Launches /\ Tasks

-----------------------------------------------------------------------------
(***************************************************************************)
(* The totals told and not read yet, and what they come to.  Those told    *)
(* before the session counted anew come first.                             *)
(***************************************************************************)
TotalsRise(box, from, to, low, high) ==
  /\ low <= high
  /\ \A i \in from..to : box[i].kind = "kernel_lost" => low <= box[i].total /\ box[i].total <= high
  /\ \A i, k \in from..to : i < k /\ box[i].kind = "kernel_lost" /\ box[k].kind = "kernel_lost"
                              => box[i].total <= box[k].total
AsOne(box, kern, ev) == TotalsRise(box, 1, Len(box), kern, ev)
AsTwo(box, kern, ev, cut, last) ==
  /\ TotalsRise(box, 1, cut, kern, last)
  /\ TotalsRise(box, cut + 1, Len(box), 0, ev)
\* `hand` of the `all` losses are in hand, `kern` is the total read last and
\* `ev` the session's count, which it may have begun `again`.
TalliedBy(box, hand, kern, ev, all, again) ==
  \/ /\ AsOne(box, kern, ev)
     /\ hand + (ev - kern) <= all
     /\ ~again => hand + (ev - kern) = all
  \/ /\ again
     /\ \E cut \in 0..Len(box), last \in Nat :
          AsTwo(box, kern, ev, cut, last) /\ hand + (last - kern) + ev <= all
Tallied == TalliedBy(inbox, InHand, kernel_lost, events_lost, counted, restarted)

IInv == Typed /\ Truths /\ Prompt /\ Lines /\ Places /\ Waiting /\ Halves /\ Tallied

-----------------------------------------------------------------------------
(***************************************************************************)
(* The shapes of events, and what adding one makes of the assembler.       *)
(***************************************************************************)
\* What is known of an event whatever its kind, and by its kind.
LEMMA RawShape ==
  ASSUME NEW raw \in Raws
  PROVE  /\ raw.kind \in {"created", "launched", "scheduled", "ended"}
         /\ raw.pid \in Pids /\ raw.time \in Nat /\ Of(raw) \in Nat
         /\ Name(raw) = <<raw.kind, Of(raw)>> /\ raw \notin Losses /\ raw # None
         /\ Counted(raw.kind) <=> raw.kind \in {"created", "ended"}
         /\ Counted(raw.kind) => Of(raw) = raw.seq
         /\ ~Counted(raw.kind) => Of(raw) = raw.of
         /\ raw.kind = "created" => raw \in CreatedRaws
         /\ raw.kind \in {"launched", "scheduled"} => raw \in HalfRaws(raw.kind)
         /\ raw.kind = "ended" => raw \in EndedRaws
<1>1. CASE raw \in [kind : {"created"}, pid : Pids, seq : Nat, time : Nat, scheduled_by : BOOLEAN]
  BY <1>1, NoneAssumption DEF Of, Name, Counted, Losses, CreatedRaws
<1>2. CASE raw \in [kind : {"launched", "scheduled"}, pid : Pids, time : Nat, of : Nat]
  BY <1>2, NoneAssumption DEF Of, Name, Counted, Losses, HalfRaws
<1>3. CASE raw \in EndedRaws
  BY <1>3, NoneAssumption DEF Of, Name, Counted, Losses, EndedRaws
<1> QED BY <1>1, <1>2, <1>3 DEF Raws, EndedRaws

\* No event is a count.
LEMMA NoCounts == \A raw \in Raws : raw.kind # "kernel_lost"
BY RawShape

\* Events of a kind are events.
LEMMA KindsRaws ==
  /\ CreatedRaws \subseteq Raws /\ EndedRaws \subseteq Raws
  /\ HalfRaws("launched") \subseteq Raws /\ HalfRaws("scheduled") \subseteq Raws
  /\ \A raw \in CreatedRaws : raw.kind = "created"
  /\ \A raw \in EndedRaws : raw.kind = "ended"
  /\ \A raw \in HalfRaws("launched") : raw.kind = "launched"
  /\ \A raw \in HalfRaws("scheduled") : raw.kind = "scheduled"
<1>1. HalfRaws("launched") \subseteq [kind : {"launched", "scheduled"}, pid : Pids, time : Nat, of : Nat]
  BY DEF HalfRaws
<1>2. HalfRaws("scheduled") \subseteq [kind : {"launched", "scheduled"}, pid : Pids, time : Nat, of : Nat]
  BY DEF HalfRaws
<1> QED BY <1>1, <1>2 DEF CreatedRaws, EndedRaws, HalfRaws, Raws

\* The half that is taken is one that is near, if there is one.
LEMMA TakenHalf ==
  ASSUME NEW kind, NEW halves \in SUBSET HalfRaws(kind), NEW pid, NEW time,
         NEW l \in OrNone(NearestOf(halves, pid, time))
  PROVE  /\ l \in HalfRaws(kind) \cup {None}
         /\ l # None => l \in NearestOf(halves, pid, time)
         /\ l # None => l \in halves
<1>1. NearestOf(halves, pid, time) \subseteq halves
  BY DEF NearestOf, AnyOf
<1> QED BY <1>1 DEF OrNone

\* A start goes in with the halves taken.
LEMMA AddedCreated ==
  ASSUME NEW a \in AsmType, NEW raw \in CreatedRaws, NEW b \in Added(a, raw)
  PROVE  /\ b \in AsmType
         /\ \E l \in OrNone(NearestOf(a.launched, raw.pid, raw.time)),
               t \in OrNone(NearestOf(a.scheduled, raw.pid, raw.time)) :
              /\ Start(raw, l, t) \in StartType
              /\ b.starts = a.starts \cup {Start(raw, l, t)}
              /\ b.launched = a.launched \ {l} /\ b.scheduled = a.scheduled \ {t}
              /\ b.exits = a.exits /\ b.went = a.went
<1>1. b \in AddCreated(a, raw)
  BY KindsRaws DEF Added
<1> DEFINE ls == OrNone(NearestOf(a.launched, raw.pid, raw.time))
           ts == OrNone(NearestOf(a.scheduled, raw.pid, raw.time))
<1>2. PICK l \in ls, t \in ts : b = WithStart(a, raw, l, t)
  BY <1>1 DEF AddCreated
<1>3. l \in HalfRaws("launched") \cup {None} /\ t \in HalfRaws("scheduled") \cup {None}
  BY TakenHalf DEF AsmType
<1>4. Start(raw, l, t) \in StartType
  BY <1>3 DEF Start, StartType, CreatedRaws
<1>5. /\ b.starts = a.starts \cup {Start(raw, l, t)}
      /\ b.launched = a.launched \ {l} /\ b.scheduled = a.scheduled \ {t}
      /\ b.exits = a.exits /\ b.went = a.went
  BY <1>2 DEF WithStart, AsmType
<1>6. b \in AsmType
  BY <1>2, <1>4 DEF WithStart, AsmType
<1> QED BY <1>4, <1>5, <1>6

\* A command line goes to a start that is near and has none, or waits.
LEMMA AddedLaunched ==
  ASSUME NEW a \in AsmType, NEW raw \in HalfRaws("launched"), NEW b \in Added(a, raw)
  PROVE  /\ b \in AsmType
         /\ b.exits = a.exits /\ b.went = a.went /\ b.scheduled = a.scheduled
         /\ \/ /\ NearestOf({s \in a.starts : s.launched = None}, raw.pid, raw.time) = {}
               /\ b.launched = a.launched \cup {raw} /\ b.starts = a.starts
            \/ /\ b.launched = a.launched
               /\ \E s \in NearestOf({s \in a.starts : s.launched = None}, raw.pid, raw.time) :
                    /\ s \in a.starts /\ [s EXCEPT !.launched = raw] \in StartType
                    /\ b.starts = (a.starts \ {s}) \cup {[s EXCEPT !.launched = raw]}
<1> DEFINE free == NearestOf({s \in a.starts : s.launched = None}, raw.pid, raw.time)
<1>1. b \in AddLaunched(a, raw)
  BY KindsRaws DEF Added
<1>2. CASE free = {}
  <2>1. b = [a EXCEPT !.launched = @ \cup {raw}]
    BY <1>1, <1>2 DEF AddLaunched
  <2> QED BY <1>2, <2>1 DEF AsmType
<1>3. CASE free # {}
  <2>1. PICK s \in free : b = [a EXCEPT !.starts = (@ \ {s}) \cup {[s EXCEPT !.launched = raw]}]
    BY <1>1, <1>3 DEF AddLaunched
  <2>2. s \in a.starts
    BY <2>1 DEF NearestOf, AnyOf
  <2>3. [s EXCEPT !.launched = raw] \in StartType
    BY <2>2 DEF AsmType, StartType
  <2>4. /\ b.starts = (a.starts \ {s}) \cup {[s EXCEPT !.launched = raw]} /\ b.launched = a.launched
        /\ b.exits = a.exits /\ b.went = a.went /\ b.scheduled = a.scheduled
    BY <2>1 DEF AsmType
  <2>5. b \in AsmType
    BY <2>1, <2>3 DEF AsmType
  <2> QED BY <2>1, <2>2, <2>3, <2>4, <2>5
<1> QED BY <1>2, <1>3

\* So does a task.
LEMMA AddedScheduled ==
  ASSUME NEW a \in AsmType, NEW raw \in HalfRaws("scheduled"), NEW b \in Added(a, raw)
  PROVE  /\ b \in AsmType
         /\ b.exits = a.exits /\ b.went = a.went /\ b.launched = a.launched
         /\ \/ /\ NearestOf({s \in a.starts : s.task = None}, raw.pid, raw.time) = {}
               /\ b.scheduled = a.scheduled \cup {raw} /\ b.starts = a.starts
            \/ /\ b.scheduled = a.scheduled
               /\ \E s \in NearestOf({s \in a.starts : s.task = None}, raw.pid, raw.time) :
                    /\ s \in a.starts /\ [s EXCEPT !.task = raw] \in StartType
                    /\ b.starts = (a.starts \ {s}) \cup {[s EXCEPT !.task = raw]}
<1> DEFINE free == NearestOf({s \in a.starts : s.task = None}, raw.pid, raw.time)
<1>1. b \in AddScheduled(a, raw)
  BY KindsRaws DEF Added
<1>2. CASE free = {}
  <2>1. b = [a EXCEPT !.scheduled = @ \cup {raw}]
    BY <1>1, <1>2 DEF AddScheduled
  <2> QED BY <1>2, <2>1 DEF AsmType
<1>3. CASE free # {}
  <2>1. PICK s \in free : b = [a EXCEPT !.starts = (@ \ {s}) \cup {[s EXCEPT !.task = raw]}]
    BY <1>1, <1>3 DEF AddScheduled
  <2>2. s \in a.starts
    BY <2>1 DEF NearestOf, AnyOf
  <2>3. [s EXCEPT !.task = raw] \in StartType
    BY <2>2 DEF AsmType, StartType
  <2>4. /\ b.starts = (a.starts \ {s}) \cup {[s EXCEPT !.task = raw]} /\ b.scheduled = a.scheduled
        /\ b.exits = a.exits /\ b.went = a.went /\ b.launched = a.launched
    BY <2>1 DEF AsmType
  <2>5. b \in AsmType
    BY <2>1, <2>3 DEF AsmType
  <2> QED BY <2>1, <2>2, <2>3, <2>4, <2>5
<1> QED BY <1>2, <1>3

\* An exit is kept.
LEMMA AddedEnded ==
  ASSUME NEW a \in AsmType, NEW raw \in EndedRaws, NEW b \in Added(a, raw)
  PROVE  /\ b \in AsmType /\ b.exits = a.exits \cup {raw}
         /\ b.starts = a.starts /\ b.went = a.went
         /\ b.launched = a.launched /\ b.scheduled = a.scheduled
<1>1. b = [a EXCEPT !.exits = @ \cup {raw}]
  BY KindsRaws DEF Added
<1> QED BY <1>1 DEF AsmType

-----------------------------------------------------------------------------
(***************************************************************************)
(* Queues of events.                                                       *)
(***************************************************************************)
LEMMA OnAppend ==
  ASSUME NEW S, NEW queue \in Seq(S), NEW e \in S, NEW more, more = Append(queue, e)
  PROVE  /\ more \in Seq(S) /\ Len(more) = Len(queue) + 1 /\ Len(queue) \in Nat
         /\ \A i \in 1..Len(queue) : i \in 1..Len(more) /\ more[i] = queue[i]
         /\ Len(more) \in 1..Len(more) /\ more[Len(more)] = e
         /\ \A i \in 1..Len(more) : i \in 1..Len(queue) \/ i = Len(more)
OBVIOUS

LEMMA OnTail ==
  ASSUME NEW S, NEW queue \in Seq(S), queue # <<>>, NEW less, less = Tail(queue)
  PROVE  /\ less \in Seq(S) /\ Len(queue) = Len(less) + 1 /\ Len(less) \in Nat
         /\ Head(queue) \in S /\ Head(queue) = queue[1] /\ 1 \in 1..Len(queue)
         /\ \A i \in 1..Len(less) : i + 1 \in 1..Len(queue) /\ less[i] = queue[i + 1]
         /\ \A i \in 1..Len(queue) : i = 1 \/ (i - 1 \in 1..Len(less) /\ queue[i] = less[i - 1])
OBVIOUS

\* What is sent once an event is put at the end.
LEMMA SentAppend ==
  ASSUME NEW queue \in Seq(Entries), NEW e \in Entries, NEW more, more = Append(queue, e)
  PROVE  /\ \A name : Sent(more, name) <=>
                        Sent(queue, name) \/ (e.kind # "kernel_lost" /\ Name(e) = name)
         /\ InOrder(queue) /\ (\A i \in 1..Len(queue) : Behind(queue[i], e)) => InOrder(more)
         /\ \A after : AllBehind(queue, after) /\ (\A k \in 1..Len(after) : Behind(e, after[k]))
                         => AllBehind(more, after)
         /\ \A box : AllBehind(box, queue) /\ (\A k \in 1..Len(box) : Behind(box[k], e))
                       => AllBehind(box, more)
<1>1. /\ more \in Seq(Entries) /\ Len(more) = Len(queue) + 1 /\ Len(queue) \in Nat
      /\ \A i \in 1..Len(queue) : i \in 1..Len(more) /\ more[i] = queue[i]
      /\ Len(more) \in 1..Len(more) /\ more[Len(more)] = e
      /\ \A i \in 1..Len(more) : i \in 1..Len(queue) \/ i = Len(more)
  BY OnAppend
<1>2. ASSUME NEW name
      PROVE  Sent(more, name) <=> Sent(queue, name) \/ (e.kind # "kernel_lost" /\ Name(e) = name)
  BY <1>1 DEF Sent
<1>3. ASSUME InOrder(queue), \A i \in 1..Len(queue) : Behind(queue[i], e),
             NEW i \in 1..Len(more), NEW k \in 1..Len(more), i < k
      PROVE  Behind(more[i], more[k])
  <2>1. i \in 1..Len(queue)
    BY <1>1, <1>3
  <2> QED BY <1>1, <1>3, <2>1 DEF InOrder
<1> QED BY <1>1, <1>2, <1>3 DEF InOrder, AllBehind

\* What is sent once the first is taken.
LEMMA SentTail ==
  ASSUME NEW queue \in Seq(Entries), queue # <<>>, NEW less, less = Tail(queue),
         NEW e, e = Head(queue)
  PROVE  /\ \A name : Sent(queue, name) <=>
                        Sent(less, name) \/ (e.kind # "kernel_lost" /\ Name(e) = name)
         /\ InOrder(queue) => InOrder(less) /\ \A i \in 1..Len(less) : Behind(e, less[i])
         /\ \A after : AllBehind(queue, after) =>
                         AllBehind(less, after) /\ \A k \in 1..Len(after) : Behind(e, after[k])
         /\ \A box : AllBehind(box, queue) =>
                       AllBehind(box, less) /\ \A k \in 1..Len(box) : Behind(box[k], e)
<1>1. /\ less \in Seq(Entries) /\ Len(queue) = Len(less) + 1 /\ Len(less) \in Nat
      /\ e \in Entries /\ e = queue[1] /\ 1 \in 1..Len(queue)
      /\ \A i \in 1..Len(less) : i + 1 \in 1..Len(queue) /\ less[i] = queue[i + 1]
      /\ \A i \in 1..Len(queue) : i = 1 \/ (i - 1 \in 1..Len(less) /\ queue[i] = less[i - 1])
  BY OnTail
<1>2. ASSUME NEW name
      PROVE  Sent(queue, name) <=> Sent(less, name) \/ (e.kind # "kernel_lost" /\ Name(e) = name)
  BY <1>1 DEF Sent
<1>3. ASSUME InOrder(queue)
      PROVE  InOrder(less) /\ \A i \in 1..Len(less) : Behind(e, less[i])
  <2>1. ASSUME NEW i \in 1..Len(less), NEW k \in 1..Len(less), i < k
        PROVE  Behind(less[i], less[k])
    <3>1. i + 1 < k + 1
      BY <2>1
    <3> QED BY <1>1, <1>3, <3>1 DEF InOrder
  <2>2. ASSUME NEW i \in 1..Len(less) PROVE Behind(e, less[i])
    <3>1. 1 < i + 1
      OBVIOUS
    <3> QED BY <1>1, <1>3, <3>1 DEF InOrder
  <2> QED BY <2>1, <2>2 DEF InOrder
<1>4. ASSUME NEW after, AllBehind(queue, after)
      PROVE  AllBehind(less, after) /\ \A k \in 1..Len(after) : Behind(e, after[k])
  BY <1>1, <1>4 DEF AllBehind
<1>5. ASSUME NEW box, AllBehind(box, queue)
      PROVE  AllBehind(box, less) /\ \A k \in 1..Len(box) : Behind(box[k], e)
  BY <1>1, <1>5 DEF AllBehind
<1> QED BY <1>2, <1>3, <1>4, <1>5

\* Events of different sessions are in no order.
LEMMA OtherSession ==
  ASSUME NEW x \in Raws, NEW y \in Raws, SessionOf(x.kind) # SessionOf(y.kind)
  PROVE  Behind(x, y)
<1>1. x.kind # y.kind /\ ~(x.kind = "ended" /\ y.kind = "created") /\ ~(y.kind = "ended" /\ x.kind = "created")
  BY DEF SessionOf
<1>2. Name(x) = <<x.kind, Of(x)>> /\ Name(y) = <<y.kind, Of(y)>>
  BY RawShape
<1> QED BY <1>1, <1>2 DEF Behind, Ahead

\* A count is in no order.
LEMMA CountBehind ==
  ASSUME NEW total \in Losses, NEW e
  PROVE  Behind(total, e) /\ Behind(e, total)
BY DEF Behind, Losses

\* An event told that is none of those on their way, nor ahead of one, goes to
\* the end of its line.
LEMMA ToldKeeps ==
  ASSUME NEW under \in [Sessions -> Seq(Raws)], NEW box \in Seq(Entries), InLines(under, box),
         NEW e \in Raws, NEW more, more = Told(under, e),
         \A name : Way(under, box, name) => name # Name(e) /\ ~Ahead(Name(e), name)
  PROVE  /\ more \in [Sessions -> Seq(Raws)] /\ InLines(more, box)
         /\ \A name : Way(more, box, name) <=> Way(under, box, name) \/ name = Name(e)
         /\ \A s \in Sessions :
              more[s] = IF s = SessionOf(e.kind) THEN Append(under[s], e) ELSE under[s]
<1>1. e.kind \in {"created", "launched", "scheduled", "ended"} /\ e.kind # "kernel_lost"
  BY RawShape
<1>2. SessionOf(e.kind) \in Sessions
  BY <1>1 DEF SessionOf, Sessions
<1>3. \A s \in Sessions : more[s] = IF s = SessionOf(e.kind) THEN Append(under[s], e) ELSE under[s]
  BY <1>2 DEF Told
<1>4. more \in [Sessions -> Seq(Raws)]
  BY <1>2 DEF Told
<1>5. \A s \in Sessions : under[s] \in Seq(Entries)
  BY DEF Entries
<1>6. e \in Entries
  BY DEF Entries
<1>7. ASSUME NEW name
      PROVE  Way(more, box, name) <=> Way(under, box, name) \/ name = Name(e)
  <2>1. ASSUME NEW s \in Sessions
        PROVE  Sent(more[s], name) <=> Sent(under[s], name) \/ (s = SessionOf(e.kind) /\ Name(e) = name)
    <3>1. CASE s = SessionOf(e.kind)
      <4>1. more[s] = Append(under[s], e) /\ under[s] \in Seq(Entries)
        BY <1>3, <1>5, <3>1
      <4>2. Sent(more[s], name) <=> Sent(under[s], name) \/ (e.kind # "kernel_lost" /\ Name(e) = name)
        BY <1>6, <4>1, SentAppend
      <4> QED BY <1>1, <3>1, <4>2
    <3>2. CASE s # SessionOf(e.kind)
      BY <1>3, <3>2
    <3> QED BY <3>1, <3>2
  <2> QED BY <1>2, <2>1 DEF Way
<1>8. \A x \in Entries : x.kind # "kernel_lost" /\ Way(under, box, Name(x)) => Behind(x, e)
  BY DEF Behind
<1>9. ASSUME NEW i \in 1..Len(box) PROVE Behind(box[i], e)
  <2>1. box[i] \in Entries
    OBVIOUS
  <2>2. box[i].kind # "kernel_lost" => Way(under, box, Name(box[i]))
    BY DEF Way, Sent
  <2> QED BY <1>8, <2>1, <2>2 DEF Behind
<1>10. ASSUME NEW s \in Sessions, NEW i \in 1..Len(under[s]) PROVE Behind(under[s][i], e)
  <2>1. under[s][i] \in Raws
    OBVIOUS
  <2>2. under[s][i].kind # "kernel_lost"
    BY <2>1, RawShape
  <2>3. Way(under, box, Name(under[s][i]))
    BY <2>2 DEF Way, Sent
  <2> QED BY <1>8, <2>1, <2>2, <2>3 DEF Entries
<1>11. ASSUME NEW s \in Sessions
       PROVE  InOrder(more[s]) /\ AllBehind(box, more[s])
  <2>1. InOrder(under[s]) /\ AllBehind(box, under[s])
    BY DEF InLines
  <2>2. CASE s = SessionOf(e.kind)
    BY <1>3, <1>5, <1>6, <1>9, <1>10, <2>1, <2>2, SentAppend
  <2>3. CASE s # SessionOf(e.kind)
    BY <1>3, <2>1, <2>3
  <2> QED BY <2>2, <2>3
<1> QED BY <1>3, <1>4, <1>7, <1>11 DEF InLines

\* Each event is in the line of its session.
BySession(under) == \A s \in Sessions : \A i \in 1..Len(under[s]) : SessionOf(under[s][i].kind) = s

\* None of one session's events has the name of another's.
LEMMA SentBySession ==
  ASSUME NEW under \in [Sessions -> Seq(Raws)],
         BySession(under),
         NEW s \in Sessions, NEW e \in Raws, SessionOf(e.kind) = s,
         NEW t \in Sessions, Sent(under[t], Name(e))
  PROVE  s = t
<1>1. PICK i \in 1..Len(under[t]) : Name(under[t][i]) = Name(e)
  BY DEF Sent
<1>2. under[t][i] \in Raws /\ SessionOf(under[t][i].kind) = t
  BY DEF BySession
<1>3. Name(e) = <<e.kind, Of(e)>> /\ Name(under[t][i]) = <<under[t][i].kind, Of(under[t][i])>>
  BY <1>2, RawShape
<1> QED BY <1>1, <1>2, <1>3

\* The first event of a session is taken from its line.
Drawn(under, s, e, less) == e = Head(under[s]) /\ less = [under EXCEPT ![s] = Tail(@)]

\* The first event of a session leaves its line, for the queue or for good.
LEMMA HandedOver ==
  ASSUME NEW under \in [Sessions -> Seq(Raws)], NEW box \in Seq(Entries), InLines(under, box),
         BySession(under),
         NEW s \in Sessions, under[s] # <<>>, NEW e, NEW less, Drawn(under, s, e, less)
  PROVE  /\ less \in [Sessions -> Seq(Raws)] /\ e \in Raws /\ SessionOf(e.kind) = s
         /\ InLines(less, box) /\ InLines(less, Append(box, e))
         /\ \A name : Way(less, Append(box, e), name) <=> Way(under, box, name)
         /\ \A name : Way(less, box, name) <=> Way(under, box, name) /\ name # Name(e)
         /\ Way(under, box, Name(e))
<1>1. /\ less[s] = Tail(under[s]) /\ \A t \in Sessions : t # s => less[t] = under[t]
      /\ less \in [Sessions -> Seq(Raws)]
  BY DEF Drawn
<1>2. e \in Raws /\ e = under[s][1] /\ 1 \in 1..Len(under[s])
  BY OnTail DEF Drawn
<1>3. SessionOf(e.kind) = s /\ e.kind # "kernel_lost" /\ e \in Entries
  <2>1. SessionOf(e.kind) = s
    BY <1>2 DEF BySession
  <2> QED BY <1>2, <2>1, NoCounts DEF Entries
<1>4. \A t \in Sessions : under[t] \in Seq(Entries) /\ less[t] \in Seq(Entries)
  BY <1>1 DEF Entries
<1>5. /\ \A name : Sent(under[s], name) <=> Sent(less[s], name) \/ Name(e) = name
      /\ InOrder(less[s]) /\ \A i \in 1..Len(less[s]) : Behind(e, less[s][i])
      /\ AllBehind(box, less[s]) /\ \A k \in 1..Len(box) : Behind(box[k], e)
  <2>1. AllBehind(box, under[s]) /\ InOrder(under[s])
    BY DEF InLines
  <2>2. under[s] \in Seq(Entries) /\ less[s] = Tail(under[s])
    BY <1>1, <1>4
  <2>3. e = Head(under[s])
    BY DEF Drawn
  <2>4. PICK q, l : q = under[s] /\ l = less[s]
    OBVIOUS
  <2>5. q \in Seq(Entries) /\ q # <<>> /\ l = Tail(q) /\ e = Head(q) /\ e.kind # "kernel_lost"
        /\ InOrder(q) /\ AllBehind(box, q)
    BY <1>3, <2>1, <2>2, <2>3, <2>4
  <2>6. /\ \A name : Sent(q, name) <=> Sent(l, name) \/ (e.kind # "kernel_lost" /\ Name(e) = name)
        /\ InOrder(l) /\ \A i \in 1..Len(l) : Behind(e, l[i])
        /\ AllBehind(box, l) /\ \A k \in 1..Len(box) : Behind(box[k], e)
    BY <2>5, SentTail
  <2> QED BY <2>4, <2>5, <2>6
<1>6. ~Sent(less[s], Name(e))
  BY <1>1, <1>3, <1>5, RawShape DEF Sent, Behind
<1>7. ~Sent(box, Name(e))
  BY <1>3, <1>5 DEF Sent, Behind
<1>8. \A t \in Sessions : t # s => ~Sent(less[t], Name(e))
  BY <1>1, <1>2, <1>3, SentBySession
<1>9. Sent(under[s], Name(e))
  BY <1>5
<1>10. ASSUME NEW t \in Sessions
       PROVE  InOrder(less[t]) /\ AllBehind(box, less[t]) /\ \A i \in 1..Len(less[t]) : Behind(e, less[t][i])
  <2>1. CASE t = s
    BY <1>5, <2>1
  <2>2. CASE t # s
    <3>1. ASSUME NEW i \in 1..Len(under[t]) PROVE Behind(e, under[t][i])
      <4>1. under[t][i] \in Raws /\ SessionOf(under[t][i].kind) = t
        BY DEF BySession
      <4> QED BY <1>2, <1>3, <2>2, <4>1, OtherSession
    <3> QED BY <1>1, <2>2, <3>1 DEF InLines
  <2> QED BY <2>1, <2>2
<1>11. PICK more : more = Append(box, e)
  OBVIOUS
<1>12. /\ \A name : Sent(more, name) <=> Sent(box, name) \/ Name(e) = name
       /\ InOrder(more)
       /\ \A t \in Sessions : AllBehind(more, less[t])
  <2>1. \A name : Sent(more, name) <=> Sent(box, name) \/ (e.kind # "kernel_lost" /\ Name(e) = name)
    BY <1>3, <1>11, SentAppend
  <2>2. InOrder(more)
    BY <1>3, <1>5, <1>11, SentAppend DEF InLines
  <2>3. ASSUME NEW t \in Sessions PROVE AllBehind(more, less[t])
    BY <1>3, <1>10, <1>11, SentAppend
  <2> QED BY <1>3, <2>1, <2>2, <2>3
<1>13. InLines(less, box) /\ InLines(less, more)
  BY <1>10, <1>12 DEF InLines
<1>14. ASSUME NEW name
       PROVE  /\ Way(less, more, name) <=> Way(under, box, name)
              /\ Way(less, box, name) <=> Way(under, box, name) /\ name # Name(e)
  <2>1. \A t \in Sessions : t # s => (Sent(less[t], name) <=> Sent(under[t], name))
    BY <1>1
  <2>2. Sent(under[s], name) <=> Sent(less[s], name) \/ Name(e) = name
    BY <1>5
  <2> QED BY <1>6, <1>7, <1>8, <1>12, <2>1, <2>2 DEF Way
<1>15. Way(under, box, Name(e))
  BY <1>9 DEF Way
<1> QED BY <1>1, <1>2, <1>3, <1>11, <1>13, <1>14, <1>15

\* A count goes into the queue.
LEMMA CountQueued ==
  ASSUME NEW under, NEW box \in Seq(Entries), InLines(under, box),
         NEW total \in Losses, NEW more, more = Append(box, total)
  PROVE  /\ InLines(under, more)
         /\ \A name : Way(under, more, name) <=> Way(under, box, name)
<1>1. total \in Entries /\ total.kind = "kernel_lost"
  BY DEF Entries, Losses
<1>2. /\ \A name : Sent(more, name) <=> Sent(box, name)
      /\ InOrder(more)
      /\ \A after : AllBehind(box, after) => AllBehind(more, after)
  BY <1>1, CountBehind, SentAppend DEF InLines
<1> QED BY <1>2 DEF InLines, Way

\* The first of the queue is taken: what is told after it is not ahead of it.
LEMMA TakenIn ==
  ASSUME NEW under \in [Sessions -> Seq(Raws)], NEW box \in Seq(Entries), InLines(under, box),
         box # <<>>, NEW e, e = Head(box), NEW less, less = Tail(box)
  PROVE  /\ e \in Entries /\ less \in Seq(Entries) /\ InLines(under, less)
         /\ e \in Losses => \A name : Way(under, less, name) <=> Way(under, box, name)
         /\ e \in Raws =>
              /\ Way(under, box, Name(e))
              /\ \A name : Way(under, less, name) <=> Way(under, box, name) /\ name # Name(e)
              /\ \A name : Way(under, less, name) => ~Ahead(name, Name(e))
<1>1. e \in Entries /\ less \in Seq(Entries)
  BY OnTail
<1>2. /\ \A name : Sent(box, name) <=> Sent(less, name) \/ (e.kind # "kernel_lost" /\ Name(e) = name)
      /\ InOrder(less) /\ \A i \in 1..Len(less) : Behind(e, less[i])
      /\ \A s \in Sessions : AllBehind(less, under[s])
      /\ \A s \in Sessions : \A k \in 1..Len(under[s]) : Behind(e, under[s][k])
  BY SentTail DEF InLines
<1>3. InLines(under, less)
  BY <1>2 DEF InLines
<1>4. ASSUME e \in Losses, NEW name
      PROVE  Way(under, less, name) <=> Way(under, box, name)
  <2>1. e.kind = "kernel_lost"
    BY <1>4 DEF Losses
  <2> QED BY <1>2, <2>1 DEF Way
<1>5. ASSUME e \in Raws
      PROVE  /\ Way(under, box, Name(e))
             /\ \A name : Way(under, less, name) => name # Name(e) /\ ~Ahead(name, Name(e))
             /\ \A name : Way(under, box, name) <=> Way(under, less, name) \/ name = Name(e)
  <2>1. e.kind # "kernel_lost"
    BY <1>5, RawShape
  <2>2. ASSUME NEW name, Sent(less, name) PROVE name # Name(e) /\ ~Ahead(name, Name(e))
    BY <1>2, <2>1, <2>2 DEF Sent, Behind
  <2>3. ASSUME NEW name, NEW s \in Sessions, Sent(under[s], name)
        PROVE  name # Name(e) /\ ~Ahead(name, Name(e))
    BY <1>2, <2>1, <2>3 DEF Sent, Behind
  <2>4. \A name : Way(under, box, name) <=> Way(under, less, name) \/ name = Name(e)
    BY <1>2, <2>1 DEF Way
  <2> QED BY <2>2, <2>3, <2>4 DEF Way
<1> QED BY <1>1, <1>3, <1>4, <1>5

\* No session has anything left.
LEMMA NoneUnderWay ==
  ASSUME NEW under \in [Sessions -> Seq(Raws)], NEW box \in Seq(Entries), InLines(under, box),
         NEW none, none = [s \in Sessions |-> <<>>]
  PROVE  /\ InLines(none, box) /\ none \in [Sessions -> Seq(Raws)]
         /\ \A name : Way(none, box, name) <=> Sent(box, name)
         /\ \A name : Sent(box, name) => \A s \in Sessions : ~Sent(under[s], name)
<1>1. \A s \in Sessions : none[s] = <<>> /\ Len(none[s]) = 0
  OBVIOUS
<1>2. \A s \in Sessions : InOrder(none[s]) /\ AllBehind(box, none[s])
  BY <1>1 DEF InOrder, AllBehind
<1>3. \A name : \A s \in Sessions : ~Sent(none[s], name)
  BY <1>1 DEF Sent
<1>4. ASSUME NEW name, Sent(box, name), NEW s \in Sessions PROVE ~Sent(under[s], name)
  BY <1>4 DEF Sent, InLines, AllBehind, Behind
<1> QED BY <1>2, <1>3, <1>4 DEF InLines, Way

\* What OnTheWay says.
LEMMA WayNow ==
  ASSUME Typed, NEW name
  PROVE  OnTheWay(name) <=> Going(name)
<1>1. \A s \in Sessions : \A i \in 1..Len(underway[s]) : underway[s][i].kind # "kernel_lost"
  BY NoCounts DEF Typed, TypedClock, TypedLines
<1> QED BY <1>1 DEF OnTheWay, Going, Way, Sent

-----------------------------------------------------------------------------
(***************************************************************************)
(* What is said of a process stays so.                                     *)
(***************************************************************************)
BornGrows ==
  \A n \in Processes :
    /\ n \in Processes' /\ born'[n].pid = born[n].pid /\ born'[n].time = born[n].time
    /\ born'[n].task = born[n].task /\ (born[n].ended => born'[n].ended)

LEMMA BornStays == UNCHANGED born => BornGrows
BY DEF BornGrows, Processes

LEMMA FaithfulStays ==
  ASSUME BornGrows, NEW raw, Faithful(raw)
  PROVE  Faithful(raw)' /\ Base(raw)' = Base(raw)
<1>1. /\ Of(raw)' = Of(raw) /\ Of(raw) \in Processes /\ Counted(raw.kind)' = Counted(raw.kind)
      /\ ~Counted(raw.kind) => Of(raw) = raw.of
  BY DEF Of, Counted, Faithful
<1>2. /\ Of(raw) \in Processes' /\ born'[Of(raw)].pid = born[Of(raw)].pid
      /\ born'[Of(raw)].time = born[Of(raw)].time /\ born'[Of(raw)].task = born[Of(raw)].task
      /\ born[Of(raw)].ended => born'[Of(raw)].ended
  BY <1>1 DEF BornGrows
<1> QED BY <1>1, <1>2 DEF Faithful, Base

LEMMA StartStays ==
  ASSUME BornGrows, NEW s, FaithfulStart(s)
  PROVE  FaithfulStart(s)'
BY FaithfulStays DEF BornGrows, FaithfulStart

LEMMA TrueStays ==
  ASSUME BornGrows, NEW under, TrueOf(under)
  PROVE  /\ TrueOf(under)'
         /\ PromptOf(under) /\ now' = now => PromptOf(under)'
<1>1. TrueOf(under)'
  BY FaithfulStays DEF TrueOf, SessionOf
<1>2. \A s \in Sessions : \A i \in 1..Len(under[s]) : Base(under[s][i])' = Base(under[s][i])
  BY FaithfulStays DEF TrueOf
<1>3. ASSUME PromptOf(under), now' = now PROVE PromptOf(under)'
  BY <1>2, <1>3 DEF PromptOf
<1> QED BY <1>1, <1>3

\* What is kept of a process.
LEMMA BornShape ==
  ASSUME Typed, NEW n \in Processes
  PROVE  /\ born[n] \in Lives
         /\ born[n].pid \in Pids /\ born[n].time \in Nat /\ n \in 1..MaxBorn /\ n \in Nat /\ 1 <= n
<1>0. born \in Seq(Lives) /\ Len(born) <= MaxBorn
  BY DEF Typed, TypedClock, TypedLines
<1>1. n \in 1..Len(born) /\ Len(born) \in Nat
  BY <1>0 DEF Processes
<1>2. born[n] \in Lives
  BY <1>0, <1>1
<1>3. n \in 1..MaxBorn
  BY <1>0, <1>1, IntakeAssumption
<1> QED BY <1>1, <1>2, <1>3 DEF Lives

\* A time an event tells is near what it is counted from.
LEMMA NearBase ==
  ASSUME Typed, NEW raw \in Raws, Faithful(raw)
  PROVE  Base(raw) \in Nat /\ raw.time \in Nat /\ Base(raw) <= raw.time /\ raw.time <= Base(raw) + Skew
<1>1. raw.time \in Nat /\ (~Counted(raw.kind) => Of(raw) = raw.of)
  BY RawShape
<1>2. born[Of(raw)].time \in Nat
  BY BornShape DEF Faithful
<1> QED BY <1>1, <1>2, IntakeAssumption DEF Base, Faithful

\* What is told at once is not late.
LEMMA AtOnce == \A time \in Nat : time <= time /\ time <= time + Skew + Delay
BY IntakeAssumption

\* What is told now comes behind, and is prompt.
LEMMA ToldTrue ==
  ASSUME NEW under \in [Sessions -> Seq(Raws)], NEW e \in Raws, NEW more, more = Told(under, e),
         TrueOf(under)', PromptOf(under)', Typed', Faithful(e)', Base(e)' = now'
  PROVE  TrueOf(more)' /\ PromptOf(more)'
<1>1. SessionOf(e.kind) \in Sessions
  BY RawShape DEF SessionOf, Sessions
<1>2. \A s \in Sessions : more[s] = IF s = SessionOf(e.kind) THEN Append(under[s], e) ELSE under[s]
  BY <1>1 DEF Told
<1>3. now' \in Nat /\ Skew \in Nat /\ Delay \in Nat
  BY IntakeAssumption DEF Typed, TypedClock, TypedLines
<1>4. \A raw \in Raws : Faithful(raw)' =>
        /\ Base(raw)' \in Nat /\ raw.time \in Nat
        /\ Base(raw)' <= raw.time /\ raw.time <= Base(raw)' + Skew
  <2>1. \A raw \in Raws : raw.time \in Nat /\ (~Counted(raw.kind)' => Of(raw)' = raw.of)
    BY RawShape DEF Counted, Of
  <2>2. \A n \in Processes' : born'[n].time \in Nat
    <3>1. born' \in Seq(Lives)
      BY DEF Typed, TypedClock, TypedLines
    <3>2. ASSUME NEW n \in 1..Len(born') PROVE born'[n] \in Lives
      BY <3>1
    <3> QED BY <3>2 DEF Processes, Lives
  <2> QED BY <2>1, <2>2, <1>3 DEF Base, Faithful
<1>5. ASSUME NEW s \in Sessions, NEW i \in 1..Len(more[s])
      PROVE  /\ Faithful(more[s][i])' /\ SessionOf(more[s][i].kind) = s
             /\ Base(more[s][i])' <= now' /\ now' <= Base(more[s][i])' + Skew + Delay
             /\ \A k \in 1..i : more[s][k].time <= Base(more[s][i])' + Skew
  <2>1. CASE s # SessionOf(e.kind)
    BY <1>2, <1>5, <2>1 DEF TrueOf, PromptOf
  <2>2. CASE s = SessionOf(e.kind)
    <3>1. /\ Len(more[s]) = Len(under[s]) + 1 /\ Len(under[s]) \in Nat
          /\ \A k \in 1..Len(under[s]) : more[s][k] = under[s][k]
          /\ more[s][Len(more[s])] = e
      <4>1. more[s] = Append(under[s], e) /\ under[s] \in Seq(Raws)
        BY <1>2, <2>2
      <4> QED BY <4>1, OnAppend
    <3>2. CASE i \in 1..Len(under[s])
      <4>1. more[s][i] = under[s][i] /\ \A k \in 1..i : k \in 1..Len(under[s]) /\ more[s][k] = under[s][k]
        BY <3>1, <3>2
      <4> QED BY <3>2, <4>1 DEF TrueOf, PromptOf
    <3>3. CASE i = Len(more[s])
      <4>1. more[s][i] = e
        BY <3>1, <3>3
      <4>2. ASSUME NEW k \in 1..i PROVE more[s][k].time <= Base(e)' + Skew
        <5>1. CASE k = i
          BY <1>4, <4>1, <5>1
        <5>2. CASE k # i
          <6>1. k \in 1..Len(under[s])
            BY <3>1, <3>3, <5>2
          <6>2. /\ more[s][k] = under[s][k] /\ under[s][k] \in Raws
                /\ Faithful(under[s][k])' /\ Base(under[s][k])' <= now'
            BY <3>1, <6>1 DEF TrueOf, PromptOf
          <6> QED BY <1>3, <1>4, <6>2
        <5> QED BY <5>1, <5>2
      <4>3. Base(more[s][i])' = now' /\ Faithful(more[s][i])' /\ SessionOf(more[s][i].kind) = s
        BY <2>2, <4>1
      <4>4. Base(more[s][i])' <= now' /\ now' <= Base(more[s][i])' + Skew + Delay
        BY <1>3, <4>3, AtOnce
      <4>5. \A k \in 1..i : more[s][k].time <= Base(more[s][i])' + Skew
        BY <4>2, <4>3
      <4> QED BY <4>3, <4>4, <4>5
    <3> QED BY <3>1, <3>2, <3>3
  <2> QED BY <2>1, <2>2
<1> QED BY <1>5 DEF TrueOf, PromptOf, SessionOf

-----------------------------------------------------------------------------
(***************************************************************************)
(* What is said, and how the lines change.                                 *)
(***************************************************************************)
LEMMA SaidHas ==
  ASSUME NEW lives
  PROVE  /\ \A name \in SaidOf(lives) : \E k \in Kinds, n \in 1..Len(lives) : name = <<k, n>>
         /\ \A n : <<"created", n>> \in SaidOf(lives) <=> n \in 1..Len(lives)
         /\ \A n : <<"launched", n>> \in SaidOf(lives) <=> n \in 1..Len(lives)
         /\ \A n : <<"scheduled", n>> \in SaidOf(lives) <=> n \in 1..Len(lives) /\ lives[n].task
         /\ \A n : <<"ended", n>> \in SaidOf(lives) <=> n \in 1..Len(lives) /\ lives[n].ended
         /\ \A k, n : <<k, n>> \in SaidOf(lives) <=>
                       /\ k \in Kinds /\ n \in 1..Len(lives)
                       /\ k = "scheduled" => lives[n].task
                       /\ k = "ended" => lives[n].ended
<1>1. \A name \in SaidOf(lives) : \E k \in Kinds, n \in 1..Len(lives) : name = <<k, n>>
  <2>1. ASSUME NEW name \in SaidOf(lives)
        PROVE  \E k \in Kinds, n \in 1..Len(lives) : name = <<k, n>>
    <3>1. name \in Kinds \X (1..Len(lives))
      BY DEF SaidOf
    <3> QED BY <3>1
  <2> QED BY <2>1
<1>2. \A k, n : <<k, n>>[1] = k /\ <<k, n>>[2] = n
  OBVIOUS
<1>3. \A k, n : <<k, n>> \in SaidOf(lives) <=>
        /\ k \in Kinds /\ n \in 1..Len(lives)
        /\ k = "scheduled" => lives[n].task
        /\ k = "ended" => lives[n].ended
  BY <1>2 DEF SaidOf
<1>4. \A n : <<"created", n>> \in SaidOf(lives) <=> n \in 1..Len(lives)
  BY <1>3 DEF Kinds
<1>5. \A n : <<"launched", n>> \in SaidOf(lives) <=> n \in 1..Len(lives)
  BY <1>3 DEF Kinds
<1>6. \A n : <<"scheduled", n>> \in SaidOf(lives) <=> n \in 1..Len(lives) /\ lives[n].task
  BY <1>3 DEF Kinds
<1>7. \A n : <<"ended", n>> \in SaidOf(lives) <=> n \in 1..Len(lives) /\ lives[n].ended
  BY <1>3 DEF Kinds
<1> QED BY <1>1, <1>3, <1>4, <1>5, <1>6, <1>7

\* What is on its way has been said.
LEMMA NameSaid ==
  ASSUME NEW raw \in Raws, Faithful(raw)
  PROVE  Name(raw) \in Said
<1>1. Name(raw) = <<raw.kind, Of(raw)>> /\ raw.kind \in {"created", "launched", "scheduled", "ended"}
  BY RawShape
<1>2. Of(raw) \in 1..Len(born)
  BY DEF Faithful, Processes
<1>3. raw.kind = "scheduled" => born[Of(raw)].task
  BY DEF Faithful
<1>4. raw.kind = "ended" => born[Of(raw)].ended
  BY DEF Faithful
<1> QED BY <1>1, <1>2, <1>3, <1>4, SaidHas DEF Said

\* What is in the queue is an event or a count.
LEMMA BoxEntry ==
  ASSUME Typed, NEW i \in 1..Len(inbox)
  PROVE  /\ inbox[i] \in Raws \/ inbox[i] \in Losses
         /\ inbox[i] \in Losses <=> inbox[i].kind = "kernel_lost"
<1>1. inbox[i] \in Raws \cup Losses
  BY DEF Typed, TypedClock, TypedLines
<1> QED BY <1>1, NoCounts DEF Losses

LEMMA WaySaid ==
  ASSUME Typed, TrueOf(underway), BoxTrue(inbox), NEW name, Going(name)
  PROVE  name \in Said
<1>1. CASE \E s \in Sessions : Sent(underway[s], name)
  <2>0. PICK s \in Sessions : Sent(underway[s], name)
    BY <1>1
  <2>1. PICK i \in 1..Len(underway[s]) : Name(underway[s][i]) = name
    BY <2>0 DEF Sent
  <2>2. underway[s][i] \in Raws
    BY <2>1 DEF Typed, TypedClock, TypedLines
  <2>3. Faithful(underway[s][i])
    BY <2>1 DEF TrueOf
  <2> QED BY <2>1, <2>2, <2>3, NameSaid
<1>2. CASE Sent(inbox, name)
  <2>1. PICK i \in 1..Len(inbox) : inbox[i].kind # "kernel_lost" /\ Name(inbox[i]) = name
    BY <1>2 DEF Sent
  <2>2. inbox[i] \in Raws
    BY <2>1, BoxEntry
  <2>3. Faithful(inbox[i])
    BY <2>1 DEF BoxTrue
  <2> QED BY <2>1, <2>2, <2>3, NameSaid
<1> QED BY <1>1, <1>2 DEF Going, Way

\* Lines that lose what comes before all else of its own keep their order.
LEMMA LinesShrink ==
  ASSUME Lines, born' = born, InLines(underway, inbox)',
         missing \subseteq missing', missing' \subseteq Said,
         \A name : Going(name)' => Going(name),
         \A name \in missing' : name \notin missing => ~Going(name)',
         \A name : Going(name) /\ ~Going(name)' =>
           name \in missing' \/ \A a : Going(a)' => ~Ahead(a, name)
  PROVE  Lines'
<1>1. Said' = Said
  BY DEF Said
<1>2. ASSUME NEW name \in missing' PROVE ~Going(name)'
  BY <1>2 DEF Lines
<1>3. ASSUME NEW a \in Said, NEW b \in Said, Going(a)', Ahead(a, b)
      PROVE  Going(b)' \/ b \in missing'
  <2>1. Going(b) \/ b \in missing
    BY <1>3 DEF Lines
  <2> QED BY <1>3, <2>1
<1> QED BY <1>1, <1>2, <1>3 DEF Lines, Ahead

\* So do lines at whose end there are new ones.
LEMMA LinesGrow ==
  ASSUME Lines, InLines(underway, inbox)', missing' = missing, NEW fresh,
         \A name : Going(name)' <=> Going(name) \/ name \in fresh,
         \A name : name \in Said' <=> name \in Said \/ name \in fresh,
         \A name \in Said : name \notin fresh /\ \A a \in fresh : ~Ahead(a, name)
  PROVE  Lines'
<1>1. ASSUME NEW name \in missing' PROVE ~Going(name)' /\ name \in Said'
  BY <1>1 DEF Lines
<1>2. ASSUME NEW a \in Said', NEW b \in Said', Going(a)', Ahead(a, b)
      PROVE  Going(b)' \/ b \in missing'
  <2>1. CASE b \in fresh
    BY <2>1
  <2>2. CASE b \notin fresh
    <3>1. b \in Said /\ a \notin fresh
      BY <1>2, <2>2
    <3>2. a \in Said /\ Going(a)
      BY <1>2, <3>1
    <3>3. Going(b) \/ b \in missing
      BY <1>2, <3>1, <3>2 DEF Lines
    <3> QED BY <3>3
  <2> QED BY <2>1, <2>2
<1> QED BY <1>1, <1>2 DEF Lines, Ahead

-----------------------------------------------------------------------------
(***************************************************************************)
(* The first of a line, the rest of it, and the queue.                     *)
(***************************************************************************)
LEMMA FirstTrue ==
  ASSUME NEW under \in [Sessions -> Seq(Raws)], TrueOf(under), PromptOf(under),
         NEW s \in Sessions, under[s] # <<>>, NEW e, e = Head(under[s]),
         NEW less, less = [under EXCEPT ![s] = Tail(@)]
  PROVE  /\ TrueOf(less) /\ PromptOf(less)
         /\ e \in Raws /\ Faithful(e) /\ now <= Base(e) + Skew + Delay
<1>1. /\ less[s] \in Seq(Raws) /\ Len(under[s]) = Len(less[s]) + 1 /\ Len(less[s]) \in Nat
      /\ e \in Raws /\ e = under[s][1] /\ 1 \in 1..Len(under[s])
      /\ \A i \in 1..Len(less[s]) : i + 1 \in 1..Len(under[s]) /\ less[s][i] = under[s][i + 1]
  <2>1. less[s] = Tail(under[s]) /\ under[s] \in Seq(Raws)
    OBVIOUS
  <2> QED BY <2>1, OnTail
<1>2. \A r \in Sessions : r # s => less[r] = under[r]
  OBVIOUS
<1>3. ASSUME NEW r \in Sessions, NEW i \in 1..Len(less[r])
      PROVE  /\ Faithful(less[r][i]) /\ SessionOf(less[r][i].kind) = r
             /\ Base(less[r][i]) <= now /\ now <= Base(less[r][i]) + Skew + Delay
             /\ \A k \in 1..i : less[r][k].time <= Base(less[r][i]) + Skew
  <2>1. CASE r # s
    BY <1>2, <1>3, <2>1 DEF TrueOf, PromptOf
  <2>2. CASE r = s
    <3>1. i + 1 \in 1..Len(under[s]) /\ less[s][i] = under[s][i + 1]
      BY <1>1, <1>3, <2>2
    <3>2. ASSUME NEW k \in 1..i PROVE less[s][k].time <= Base(less[s][i]) + Skew
      <4>1. k + 1 \in 1..(i + 1) /\ k \in 1..Len(less[s])
        BY <1>1, <1>3, <2>2
      <4>2. less[s][k] = under[s][k + 1]
        BY <1>1, <4>1
      <4> QED BY <3>1, <4>1, <4>2 DEF PromptOf
    <3> QED BY <2>2, <3>1, <3>2 DEF TrueOf, PromptOf
  <2> QED BY <2>1, <2>2
<1> QED BY <1>1, <1>3, ZenonT(60) DEF TrueOf, PromptOf

LEMMA BoxAppend ==
  ASSUME NEW box \in Seq(Entries), BoxTrue(box), BoxPrompt(box), NEW e \in Entries,
         e.kind # "kernel_lost" => Faithful(e) /\ now <= Base(e) + Skew + Delay,
         NEW more, more = Append(box, e)
  PROVE  BoxTrue(more) /\ BoxPrompt(more) /\ more \in Seq(Entries)
<1>1. /\ more \in Seq(Entries)
      /\ \A i \in 1..Len(box) : more[i] = box[i]
      /\ more[Len(more)] = e
      /\ \A i \in 1..Len(more) : i \in 1..Len(box) \/ i = Len(more)
  BY OnAppend
<1> QED BY <1>1 DEF BoxTrue, BoxPrompt

LEMMA BoxTail ==
  ASSUME NEW box \in Seq(Entries), BoxTrue(box), BoxPrompt(box), box # <<>>,
         NEW e, e = Head(box), NEW less, less = Tail(box)
  PROVE  /\ BoxTrue(less) /\ BoxPrompt(less) /\ less \in Seq(Entries)
         /\ e \in Entries /\ (e.kind # "kernel_lost" => Faithful(e) /\ now <= Base(e) + Skew + Delay)
<1>1. /\ less \in Seq(Entries) /\ e \in Entries /\ e = box[1] /\ 1 \in 1..Len(box)
      /\ \A i \in 1..Len(less) : i + 1 \in 1..Len(box) /\ less[i] = box[i + 1]
  BY OnTail
<1> QED BY <1>1 DEF BoxTrue, BoxPrompt

LEMMA BoxStays ==
  ASSUME BornGrows, NEW box, BoxTrue(box)
  PROVE  /\ BoxTrue(box)'
         /\ BoxPrompt(box) /\ now' = now => BoxPrompt(box)'
BY FaithfulStays DEF BoxTrue, BoxPrompt

LEMMA AsmStays ==
  ASSUME BornGrows, NEW a, AsmTrue(a)
  PROVE  AsmTrue(a)'
BY FaithfulStays, StartStays DEF AsmTrue

-----------------------------------------------------------------------------
(***************************************************************************)
(* The steps that say nothing new and that the assembler has no part in:   *)
(* what leaves its way is missing.                                         *)
(***************************************************************************)
Flow == Typed /\ Truths /\ Prompt /\ Lines

Quiet ==
  /\ born' = born /\ asm' = asm /\ out' = out /\ missing \subseteq missing'
  /\ \A name : Going(name)' => Going(name)
  /\ \A name : name \in missing' => name \in missing \/ (Going(name) /\ ~Going(name)')
  /\ \A name : Going(name) /\ ~Going(name)' => name \in missing'

LEMMA QuietFlow ==
  ASSUME Flow, Typed', Quiet, now' = now, InLines(underway, inbox)',
         TrueOf(underway'), BoxTrue(inbox'), PromptOf(underway'), BoxPrompt(inbox')
  PROVE  Flow'
<1>1. BornGrows
  BY BornStays DEF Quiet
<1>2. TrueOf(underway)' /\ PromptOf(underway)'
  BY <1>1, TrueStays
<1>3. BoxTrue(inbox)' /\ BoxPrompt(inbox)'
  BY <1>1, BoxStays
<1>4. AsmTrue(asm)'
  BY <1>1, AsmStays DEF Flow, Truths, Quiet
<1>5. Births'
  BY DEF Flow, Truths, Births, Quiet, Processes
<1>6. missing' \subseteq Said
  BY WaySaid DEF Flow, Truths, Quiet, Lines
<1>7. Lines'
  BY <1>6, LinesShrink DEF Flow, Quiet
<1> QED BY <1>2, <1>3, <1>4, <1>5, <1>7 DEF Flow, Truths, Prompt

LEMMA QueuesTyped ==
  ASSUME Flow
  PROVE  /\ underway \in [Sessions -> Seq(Raws)] /\ inbox \in Seq(Entries)
         /\ InLines(underway, inbox) /\ TrueOf(underway) /\ PromptOf(underway)
         /\ BoxTrue(inbox) /\ BoxPrompt(inbox)
         /\ BySession(underway)
BY DEF Flow, Typed, TypedClock, TypedLines, Truths, Prompt, Lines, Entries, TrueOf, BySession

\* Counting what was dropped, the session starting again, and no step at all.
LEMMA StillQuiet ==
  ASSUME Flow, CountsDropped \/ Restarts \/ Counts \/ UNCHANGED vars
  PROVE  Flow' /\ Quiet
<1>1. /\ UNCHANGED <<machine, inbox, asm, out, missing, open>>
  BY DEF CountsDropped, Restarts, Counts, vars, intake, thread, ghosts
<1>2. Typed'
  <2>1. TypedClock' /\ TypedLines'
    BY <1>1 DEF Flow, Typed, TypedClock, TypedLines, CountsDropped, Restarts, Counts, vars,
       machine, intake, thread, ghosts
  <2>2. TypedThread'
    BY <1>1 DEF Flow, Typed, TypedThread, CountsDropped, Restarts, Counts, vars, thread
  <2>3. TypedCounts'
    <3>1. full' \in BOOLEAN /\ open' \in BOOLEAN /\ restarted' \in BOOLEAN
      BY DEF Flow, Typed, TypedCounts, CountsDropped, Restarts, Counts, vars, intake, ghosts
    <3>2. \/ dropped' = dropped + 1 /\ UNCHANGED <<events_lost, kernel_lost, dropped_seen, lost, outlost, counted>>
          \/ events_lost' = 0 /\ UNCHANGED <<dropped, kernel_lost, dropped_seen, lost, outlost, counted>>
          \/ /\ lost' = lost + (dropped - dropped_seen) /\ dropped_seen' = dropped
             /\ UNCHANGED <<dropped, events_lost, kernel_lost, outlost, counted>>
          \/ UNCHANGED <<dropped, events_lost, kernel_lost, dropped_seen, lost, outlost, counted>>
      BY DEF CountsDropped, Restarts, Counts, vars, Seen, intake, thread, ghosts
    <3>3. /\ dropped \in Nat /\ events_lost \in Nat /\ kernel_lost \in Nat /\ dropped_seen \in Nat
          /\ lost \in Nat /\ outlost \in Nat /\ counted \in Nat /\ dropped_seen <= dropped
      BY DEF Flow, Typed, TypedCounts
    <3>4. /\ dropped' \in Nat /\ events_lost' \in Nat /\ kernel_lost' \in Nat /\ dropped_seen' \in Nat
          /\ lost' \in Nat /\ outlost' \in Nat /\ counted' \in Nat /\ dropped_seen' <= dropped'
      BY <3>2, <3>3
    <3> QED BY <3>1, <3>4 DEF TypedCounts
  <2> QED BY <2>1, <2>2, <2>3 DEF Typed
<1>3. Quiet
  BY <1>1 DEF Quiet, Going, machine
<1> QED BY <1>1, <1>2, <1>3, QuietFlow, QueuesTyped DEF machine

\* So does time, which no session lets pass by the time it is due.
LEMMA TimeQuiet ==
  ASSUME Flow, TimePasses
  PROVE  Flow' /\ Quiet
<1>0. UNCHANGED <<born, underway, intake, thread, ghosts>> /\ now' = now + 1 /\ now < MaxTime /\ Resting /\ ~Late
  BY DEF TimePasses
<1>1. /\ UNCHANGED <<born, underway, inbox, asm, out, missing, wake_by>> /\ now' = now + 1 /\ now < MaxTime
      /\ inbox = <<>> /\ Len(inbox) = 0
  BY <1>0 DEF Resting, intake, thread, ghosts
<1>2. Typed'
  <2>0. now \in Nat /\ WaitsAtMost <= now /\ now <= MaxTime /\ wake_by \in Nat
    BY DEF Flow, Typed, TypedClock
  <2>1. now' \in Nat /\ WaitsAtMost <= now' /\ now' <= MaxTime /\ wake_by' \in Nat
    BY <1>1, <2>0, IntakeAssumption, TimesAssumption
  <2>2. TypedLines'
    BY <1>1 DEF Flow, Typed, TypedLines, TimePasses, intake
  <2>3. TypedThread' /\ TypedCounts'
    BY <1>1 DEF Flow, Typed, TypedThread, TypedCounts, TimePasses, intake, thread, ghosts
  <2> QED BY <2>1, <2>2, <2>3 DEF Typed, TypedClock
<1>3. Quiet
  BY <1>1 DEF Quiet, Going
<1>4. BornGrows
  BY <1>1, BornStays
<1>5. TrueOf(underway)' /\ BoxTrue(inbox)' /\ AsmTrue(asm)'
  <2>1. TrueOf(underway)'
    BY <1>1, <1>4, TrueStays, QueuesTyped
  <2> QED BY <1>1, <1>4, <2>1, AsmStays, BoxStays DEF Flow, Truths
<1>6. Births'
  <2>1. Births /\ now \in Nat
    BY DEF Flow, Truths, Typed, TypedClock
  <2>2. \A n \in Processes : born[n].time \in Nat
    BY BornShape DEF Flow
  <2> QED BY <1>1, <2>1, <2>2 DEF Births, Processes
<1>7. BoxPrompt(inbox)'
  BY <1>1 DEF BoxPrompt
<1>8. PromptOf(underway)'
  <2>1. ASSUME NEW s \in Sessions, NEW i \in 1..Len(underway[s])
        PROVE  /\ Base(underway[s][i])' = Base(underway[s][i])
               /\ Base(underway[s][i]) <= now + 1 /\ now + 1 <= Base(underway[s][i]) + Skew + Delay
    <3>1. underway[s] \in Seq(Raws) /\ 1 \in 1..i /\ underway[s] # <<>>
      BY <2>1, QueuesTyped
    <3>2. underway[s][i] \in Raws /\ Head(underway[s]) = underway[s][1] /\ underway[s][1] \in Raws
      BY <2>1, <3>1
    <3>3. Faithful(underway[s][i])
      BY <2>1, QueuesTyped DEF TrueOf
    <3>4. Base(underway[s][i])' = Base(underway[s][i]) /\ Base(underway[s][i]) \in Nat
      <4>1. Base(underway[s][i])' = Base(underway[s][i])
        BY <1>1, <1>4, <3>3, FaithfulStays
      <4>2. Typed
        BY DEF Flow
      <4> QED BY <3>2, <3>3, <4>1, <4>2, NearBase
    <3>5. underway[s][1].time <= Base(underway[s][i]) + Skew /\ underway[s][1].time \in Nat
          /\ Base(underway[s][i]) <= now
      BY <2>1, <3>1, <3>2, QueuesTyped, RawShape DEF PromptOf
    <3>6. now < underway[s][1].time + Delay
      BY <3>1, <3>2, <3>5, IntakeAssumption DEF TimePasses, Late, Flow, Typed, TypedClock, TypedLines
    <3> QED BY <3>4, <3>5, <3>6, IntakeAssumption DEF Flow, Typed, TypedClock, TypedLines
  <2> QED BY <1>1, <2>1, QueuesTyped DEF PromptOf
<1>9. InLines(underway, inbox)'
  BY <1>1, QueuesTyped
<1>10. Lines'
  BY <1>1, <1>3, <1>9, LinesShrink DEF Flow, Quiet, Lines
<1> QED BY <1>2, <1>3, <1>5, <1>6, <1>7, <1>8, <1>10 DEF Flow, Truths, Prompt

\* The core's thread tells a count, and the thread that assembles takes one.
LEMMA CountsQuiet ==
  ASSUME Flow, TellsHealth
  PROVE  Flow' /\ Quiet
<1>1. /\ UNCHANGED <<now, born, underway, asm, out, missing>>
      /\ inbox' = Append(inbox, Total(events_lost)) /\ Total(events_lost) \in Losses
  BY DEF TellsHealth, machine, thread, ghosts, Total, Losses, Flow, Typed, TypedCounts
<1>2. Total(events_lost) \in Entries /\ Total(events_lost).kind = "kernel_lost"
  BY <1>1 DEF Entries, Total
<1>3. InLines(underway, inbox') /\ \A name : Going(name)' <=> Going(name)
  BY <1>1, CountQueued, QueuesTyped DEF Going
<1>4. BoxTrue(inbox') /\ BoxPrompt(inbox') /\ inbox' \in Seq(Entries)
  BY <1>1, <1>2, BoxAppend, QueuesTyped
<1>5. Typed'
  <2>1. TypedClock' /\ TypedThread' /\ TypedCounts'
    BY DEF TellsHealth, Flow, Typed, TypedClock, TypedThread, TypedCounts, machine, thread, ghosts
  <2>2. TypedLines'
    BY <1>1, <1>4 DEF TellsHealth, Flow, Typed, TypedLines, Entries
  <2> QED BY <2>1, <2>2 DEF Typed
<1>6. Quiet
  BY <1>1, <1>3 DEF Quiet
<1> QED BY <1>1, <1>3, <1>4, <1>5, <1>6, QuietFlow, QueuesTyped

LEMMA CountTakenQuiet ==
  ASSUME Flow, Receives, Head(inbox).kind = "kernel_lost"
  PROVE  Flow' /\ Quiet
<1>1. /\ UNCHANGED <<now, born, underway, asm, out, missing, open>> /\ inbox # <<>> /\ inbox' = Tail(inbox)
      /\ lost' = lost + NewlyLost(Head(inbox).total) /\ kernel_lost' = Head(inbox).total
  BY DEF Receives, Takes, machine, ghosts
<1>2. /\ BoxTrue(inbox') /\ BoxPrompt(inbox') /\ inbox' \in Seq(Entries) /\ Head(inbox) \in Entries
  BY <1>1, BoxTail, QueuesTyped
<1>3. Head(inbox) \in Losses /\ Head(inbox).total \in Nat
  BY <1>2, NoCounts DEF Entries, Losses
<1>4. InLines(underway, inbox') /\ \A name : Going(name)' <=> Going(name)
  BY <1>1, <1>3, TakenIn, QueuesTyped DEF Going
<1>5. Typed'
  <2>1. TypedClock' /\ TypedThread'
    BY <1>1 DEF Receives, Flow, Typed, TypedClock, TypedThread
  <2>2. TypedLines'
    BY <1>1, <1>2 DEF Flow, Typed, TypedLines, Entries
  <2>3. TypedCounts'
    <3>1. full' \in BOOLEAN /\ open' \in BOOLEAN /\ restarted' \in BOOLEAN
      BY DEF Flow, Typed, TypedCounts, Receives, ghosts
    <3>2. UNCHANGED <<dropped, events_lost, dropped_seen, outlost, counted>>
      BY DEF Receives, ghosts
    <3>3. /\ dropped \in Nat /\ events_lost \in Nat /\ kernel_lost \in Nat /\ dropped_seen \in Nat
          /\ lost \in Nat /\ outlost \in Nat /\ counted \in Nat /\ dropped_seen <= dropped
      BY DEF Flow, Typed, TypedCounts
    <3>4. lost' \in Nat /\ kernel_lost' \in Nat
      BY <1>1, <1>3, <3>3 DEF NewlyLost
    <3> QED BY <3>1, <3>2, <3>3, <3>4 DEF TypedCounts
  <2> QED BY <2>1, <2>2, <2>3 DEF Typed
<1>6. Quiet
  BY <1>1, <1>4 DEF Quiet
<1> QED BY <1>1, <1>2, <1>4, <1>5, <1>6, QuietFlow, QueuesTyped

\* An event comes into the queue, or is lost on the way there.
LEMMA DeliversQuiet ==
  ASSUME Flow, NEW s \in Sessions, Delivers(s) \/ KernelDrops(s)
  PROVE  Flow' /\ Quiet
<1>0. PICK e, less : e = Head(underway[s]) /\ less = [underway EXCEPT ![s] = Tail(@)]
  OBVIOUS
<1>1. /\ UNCHANGED <<now, born, asm, out, open, dropped, kernel_lost, dropped_seen, lost, outlost, restarted, pc, wake_by>>
      /\ open /\ underway[s] # <<>> /\ underway' = less
      /\ \/ inbox' = Append(inbox, e) /\ missing' = missing
         \/ inbox' = inbox /\ missing' = missing \cup {Name(e)}
  BY <1>0 DEF Delivers, KernelDrops, thread
<1>2. /\ less \in [Sessions -> Seq(Raws)] /\ e \in Raws
      /\ InLines(less, inbox) /\ InLines(less, Append(inbox, e))
      /\ \A name : Way(less, Append(inbox, e), name) <=> Way(underway, inbox, name)
      /\ \A name : Way(less, inbox, name) <=> Way(underway, inbox, name) /\ name # Name(e)
      /\ Way(underway, inbox, Name(e))
  <2>1. /\ underway \in [Sessions -> Seq(Raws)] /\ inbox \in Seq(Entries) /\ InLines(underway, inbox)
        /\ BySession(underway) /\ underway[s] # <<>>
    BY <1>1, QueuesTyped
  <2>2. Drawn(underway, s, e, less)
    BY <1>0 DEF Drawn
  <2> QED BY <2>1, <2>2, HandedOver
<1>3. TrueOf(less) /\ PromptOf(less) /\ Faithful(e) /\ now <= Base(e) + Skew + Delay
  BY <1>0, <1>1, FirstTrue, QueuesTyped
<1>4. /\ BoxTrue(Append(inbox, e)) /\ BoxPrompt(Append(inbox, e))
      /\ Append(inbox, e) \in Seq(Entries) /\ inbox \in Seq(Entries)
  BY <1>2, <1>3, BoxAppend, QueuesTyped DEF Entries
<1>5. Typed'
  <2>1. TypedClock' /\ TypedThread'
    BY <1>1 DEF Flow, Typed, TypedClock, TypedThread
  <2>2. TypedLines'
    BY <1>1, <1>2, <1>4 DEF Flow, Typed, TypedLines, Entries
  <2>3. TypedCounts'
    <3>1. full' \in BOOLEAN /\ open' \in BOOLEAN /\ restarted' \in BOOLEAN
      BY DEF Flow, Typed, TypedCounts, Delivers, KernelDrops
    <3>2. /\ counted' = counted + 1 \/ counted' = counted
          /\ events_lost' = events_lost + 1 \/ events_lost' = events_lost
      BY DEF Delivers, KernelDrops
    <3>3. /\ dropped \in Nat /\ events_lost \in Nat /\ kernel_lost \in Nat /\ dropped_seen \in Nat
          /\ lost \in Nat /\ outlost \in Nat /\ counted \in Nat /\ dropped_seen <= dropped
      BY DEF Flow, Typed, TypedCounts
    <3>4. counted' \in Nat /\ events_lost' \in Nat
      BY <3>2, <3>3
    <3> QED BY <1>1, <3>1, <3>3, <3>4 DEF TypedCounts
  <2> QED BY <2>1, <2>2, <2>3 DEF Typed
<1>6. CASE inbox' = Append(inbox, e) /\ missing' = missing
  <2>1. InLines(underway, inbox)' /\ \A name : Going(name)' <=> Going(name)
    BY <1>1, <1>2, <1>6 DEF Going
  <2>2. Quiet
    BY <1>1, <1>6, <2>1 DEF Quiet
  <2> QED BY <1>1, <1>3, <1>4, <1>5, <1>6, <2>1, <2>2, QuietFlow
<1>7. CASE inbox' = inbox /\ missing' = missing \cup {Name(e)}
  <2>1. InLines(underway, inbox)' /\ \A name : Going(name)' <=> Going(name) /\ name # Name(e)
    BY <1>1, <1>2, <1>7 DEF Going
  <2>2. Going(Name(e))
    BY <1>2 DEF Going
  <2>3. Quiet
    BY <1>1, <1>7, <2>1, <2>2 DEF Quiet
  <2>4. BoxTrue(inbox') /\ BoxPrompt(inbox')
    BY <1>7, QueuesTyped
  <2> QED BY <1>1, <1>3, <1>5, <2>1, <2>3, <2>4, QuietFlow
<1> QED BY <1>1, <1>6, <1>7

\* The sessions end, and what they had is lost.
LEMMA StopsQuiet ==
  ASSUME Flow, Stops
  PROVE  Flow' /\ Quiet
<1> DEFINE none == [s \in Sessions |-> <<>>]
           left == {Name(raw) : raw \in UNION {Range(underway[s]) : s \in Sessions}}
<1>1. /\ UNCHANGED <<now, born, inbox, asm, out, pc, wake_by>>
      /\ underway' = none /\ missing' = missing \cup left
      /\ UNCHANGED <<full, dropped, events_lost, kernel_lost, dropped_seen, lost, outlost, counted, restarted>>
      /\ open' = FALSE
  BY DEF Stops, thread
<1>2. /\ InLines(none, inbox) /\ none \in [Sessions -> Seq(Raws)]
      /\ \A name : Way(none, inbox, name) <=> Sent(inbox, name)
      /\ \A name : Sent(inbox, name) => \A s \in Sessions : ~Sent(underway[s], name)
  BY NoneUnderWay, QueuesTyped
<1>3. \A name : name \in left <=> \E s \in Sessions : Sent(underway[s], name)
  <2>1. ASSUME NEW s \in Sessions
        PROVE  Range(underway[s]) = {underway[s][i] : i \in 1..Len(underway[s])}
    BY QueuesTyped DEF Range
  <2>2. ASSUME NEW s \in Sessions, NEW i \in 1..Len(underway[s]) PROVE underway[s][i].kind # "kernel_lost"
    <3>1. underway[s][i] \in Raws
      BY QueuesTyped
    <3> QED BY <3>1, NoCounts
  <2>3. ASSUME NEW name, NEW s \in Sessions
        PROVE  Sent(underway[s], name) <=> \E raw \in Range(underway[s]) : Name(raw) = name
    BY <2>1, <2>2 DEF Sent
  <2> QED BY <2>3
<1> HIDE DEF none, left
<1>4. TrueOf(none) /\ PromptOf(none)
  BY DEF none, TrueOf, PromptOf
<1>5. Typed'
  <2>1. TypedClock' /\ TypedThread' /\ TypedCounts'
    BY <1>1 DEF Flow, Typed, TypedClock, TypedThread, TypedCounts
  <2>2. \A s \in Sessions : none[s] = <<>>
    BY DEF none
  <2>3. TypedLines'
    BY <1>1, <1>2, <2>2 DEF Flow, Typed, TypedLines
  <2> QED BY <2>1, <2>3 DEF Typed
<1>6. \A name : Going(name)' <=> Sent(inbox, name)
  BY <1>1, <1>2 DEF Going
<1>7. Quiet
  <2>1. \A name : Going(name) <=> (\E s \in Sessions : Sent(underway[s], name)) \/ Sent(inbox, name)
    BY DEF Going, Way
  <2> QED BY <1>1, <1>2, <1>3, <1>6, <2>1 DEF Quiet
<1> QED BY <1>1, <1>2, <1>4, <1>5, <1>7, QuietFlow, QueuesTyped

-----------------------------------------------------------------------------
(***************************************************************************)
(* A process starts or ends, and its sessions tell of it.                  *)
(***************************************************************************)
LEMMA GrowFlow ==
  ASSUME Flow, Typed', BornGrows, now' = now, asm' = asm, inbox' = inbox,
         Births', TrueOf(underway)', PromptOf(underway)', Lines'
  PROVE  Flow'
<1>1. BoxTrue(inbox)' /\ BoxPrompt(inbox)'
  BY BoxStays, QueuesTyped
<1>2. AsmTrue(asm)'
  BY AsmStays DEF Flow, Truths
<1> QED BY <1>1, <1>2 DEF Flow, Truths, Prompt

Next1 == Len(born) + 1
FreshNames(task) == {<<"created", Next1>>, <<"launched", Next1>>}
                    \cup IF task THEN {<<"scheduled", Next1>>} ELSE {}

\* What is said so far is of others, and behind nothing new.
LEMMA NewNames ==
  ASSUME Typed, NEW name \in Said, NEW k \in {"created", "launched", "scheduled"}
  PROVE  name # <<k, Next1>> /\ ~Ahead(<<k, Next1>>, name)
<1>1. PICK j \in Kinds, n \in 1..Len(born) : name = <<j, n>>
  BY SaidHas DEF Said
<1>2. Len(born) \in Nat
  BY DEF Typed, TypedLines
<1> QED BY <1>1, <1>2 DEF Next1, Ahead

\* The process that starts is the next of those there are.
LEMMA StartsBorn ==
  ASSUME Flow, NEW pid \in Pids, NEW by \in BOOLEAN, NEW task \in BOOLEAN,
         NEW l \in now..(now + Skew), NEW t \in now..(now + Skew), Starts(pid, by, task, l, t)
  PROVE  /\ UNCHANGED <<now, intake, thread, ghosts>>
         /\ BornGrows /\ Births' /\ born' \in Seq(Lives) /\ Len(born') = Next1 /\ Next1 <= MaxBorn
         /\ \A n \in Processes : born'[n] = born[n]
         /\ born'[Next1] = [pid |-> pid, time |-> now, task |-> task, ended |-> FALSE]
         /\ \A name : name \in Said' <=> name \in Said \/ name \in FreshNames(task)
         /\ task => by
         /\ Processes' = Processes \cup {Next1} /\ Next1 \notin Processes /\ Next1 \in Nat
<1> DEFINE life == [pid |-> pid, time |-> now, task |-> task, ended |-> FALSE]
<1>1. /\ UNCHANGED <<now, intake, thread, ghosts>>
      /\ born' = Append(born, life) /\ Next1 <= MaxBorn /\ (task => by)
      /\ \A n \in Processes : born[n].pid = pid => now >= born[n].time + MinLife
  BY DEF Starts, Next1
<1>2. now \in Nat /\ WaitsAtMost <= now
  BY DEF Flow, Typed, TypedClock
<1>3. born \in Seq(Lives) /\ life \in Lives
  BY <1>2 DEF Flow, Typed, TypedLines, Lives
<1> HIDE DEF life
<1>4. /\ born' \in Seq(Lives) /\ Len(born') = Next1 /\ Len(born) \in Nat
      /\ \A n \in 1..Len(born) : n \in 1..Len(born') /\ born'[n] = born[n]
      /\ born'[Next1] = life
      /\ \A n \in 1..Len(born') : n \in 1..Len(born) \/ n = Next1
  BY <1>1, <1>3, OnAppend DEF Next1
<1>5. Processes' = Processes \cup {Next1} /\ Next1 \notin Processes /\ Next1 \in Nat
  BY <1>4 DEF Processes, Next1
<1>6. BornGrows
  BY <1>4 DEF BornGrows, Processes
<1>7. life.time = now /\ life.pid = pid /\ life.task = task /\ life.ended = FALSE
  BY DEF life
<1>8. Births'
  <2>1. Births /\ now' = now
    BY <1>1 DEF Flow, Truths
  <2>2. ASSUME NEW n \in Processes' PROVE WaitsAtMost <= born'[n].time /\ born'[n].time <= now'
    BY <1>2, <1>4, <1>7, <2>1 DEF Births, Processes
  <2>3. ASSUME NEW m \in Processes', NEW n \in Processes', m < n
        PROVE  /\ born'[m].time <= born'[n].time
               /\ born'[m].pid = born'[n].pid => born'[m].time + MinLife <= born'[n].time
    <3>1. m \in Processes /\ born'[m] = born[m]
      BY <1>4, <2>3 DEF Processes, Next1
    <3>2. CASE n \in Processes
      BY <1>4, <2>1, <2>3, <3>1, <3>2 DEF Births, Processes
    <3>3. CASE n = Next1
      BY <1>1, <1>2, <1>4, <1>7, <2>1, <3>1, <3>3 DEF Births
    <3> QED BY <1>5, <3>2, <3>3
  <2> QED BY <2>2, <2>3 DEF Births
<1>9. ASSUME NEW name PROVE name \in Said' <=> name \in Said \/ name \in FreshNames(task)
  <2>1. CASE \E k \in Kinds : \E n : name = <<k, n>>
    <3>0. PICK k \in Kinds : \E n : name = <<k, n>>
      BY <2>1
    <3>1. PICK n : name = <<k, n>>
      BY <3>0
    <3>2. name \in FreshNames(task) <=>
            n = Next1 /\ (k = "created" \/ k = "launched" \/ (k = "scheduled" /\ task))
      BY <3>1 DEF FreshNames
    <3>3. name \in Said <=> /\ n \in 1..Len(born) /\ (k = "scheduled" => born[n].task)
                            /\ (k = "ended" => born[n].ended)
      BY <3>1, SaidHas DEF Said
    <3>4. name \in Said' <=> /\ n \in 1..Len(born') /\ (k = "scheduled" => born'[n].task)
                             /\ (k = "ended" => born'[n].ended)
      BY <3>1, SaidHas DEF Said
    <3>5. CASE n \in 1..Len(born)
      BY <1>4, <3>2, <3>3, <3>4, <3>5 DEF Next1
    <3>6. CASE n = Next1
      <4>1. n \in 1..Len(born') /\ n \notin 1..Len(born)
        BY <1>4, <3>6 DEF Next1
      <4>2. born'[n].task = task /\ born'[n].ended = FALSE
        BY <1>4, <1>7, <3>6
      <4> QED BY <3>1, <3>2, <3>3, <3>4, <3>6, <4>1, <4>2 DEF Kinds
    <3>7. CASE n \notin 1..Len(born) /\ n # Next1
      BY <1>4, <3>2, <3>3, <3>4, <3>7
    <3> QED BY <3>5, <3>6, <3>7
  <2>2. CASE ~\E k \in Kinds : \E n : name = <<k, n>>
    <3>1. name \notin Said /\ name \notin Said'
      BY <2>2, SaidHas DEF Said
    <3>2. name \notin FreshNames(task)
      BY <2>2 DEF FreshNames, Kinds
    <3> QED BY <3>1, <3>2
  <2> QED BY <2>1, <2>2
<1> QED BY <1>1, <1>4, <1>5, <1>6, <1>8, <1>9 DEF life, Processes

\* What is told of it.
LEMMA StartsTold ==
  ASSUME Flow, NEW pid \in Pids, NEW by \in BOOLEAN, NEW task \in BOOLEAN,
         NEW l \in now..(now + Skew), NEW t \in now..(now + Skew), Starts(pid, by, task, l, t),
         NEW raw, \/ raw = Created(pid, Next1, now, by) \/ raw = Launched(pid, l, Next1)
                  \/ (task /\ raw = Scheduled(pid, t, Next1))
  PROVE  raw \in Raws /\ Faithful(raw)' /\ Base(raw)' = now' /\ Name(raw) = <<raw.kind, Next1>>
<1>1. /\ now' = now /\ born'[Next1] = [pid |-> pid, time |-> now, task |-> task, ended |-> FALSE]
      /\ Next1 \in Processes' /\ Next1 \in Nat /\ (task => by)
  BY StartsBorn
<1>2. now \in Nat /\ l \in Nat /\ t \in Nat /\ now <= l /\ l <= now + Skew /\ now <= t /\ t <= now + Skew
  BY IntakeAssumption DEF Flow, Typed, TypedClock
<1>3. CASE raw = Created(pid, Next1, now, by)
  <2>1. raw = [kind |-> "created", pid |-> pid, seq |-> Next1, time |-> now, scheduled_by |-> by]
    BY <1>3 DEF Created
  <2>2. raw \in Raws
    BY <1>1, <1>2, <2>1 DEF Raws
  <2>3. Counted(raw.kind)' /\ Of(raw)' = Next1 /\ Name(raw) = <<raw.kind, Next1>>
    BY <2>1 DEF Counted, Of, Name
  <2> QED BY <1>1, <2>1, <2>2, <2>3 DEF Faithful, Base
<1>4. CASE raw = Launched(pid, l, Next1)
  <2>1. raw = [kind |-> "launched", pid |-> pid, time |-> l, of |-> Next1]
    BY <1>4 DEF Launched
  <2>2. raw \in Raws
    BY <1>1, <1>2, <2>1 DEF Raws
  <2>3. ~Counted(raw.kind)' /\ Of(raw)' = Next1 /\ Name(raw) = <<raw.kind, Next1>>
    BY <2>1 DEF Counted, Of, Name
  <2> QED BY <1>1, <1>2, <2>1, <2>2, <2>3 DEF Faithful, Base
<1>5. CASE task /\ raw = Scheduled(pid, t, Next1)
  <2>1. raw = [kind |-> "scheduled", pid |-> pid, time |-> t, of |-> Next1]
    BY <1>5 DEF Scheduled
  <2>2. raw \in Raws
    BY <1>1, <1>2, <2>1 DEF Raws
  <2>3. ~Counted(raw.kind)' /\ Of(raw)' = Next1 /\ Name(raw) = <<raw.kind, Next1>>
    BY <2>1 DEF Counted, Of, Name
  <2> QED BY <1>1, <1>2, <1>5, <2>1, <2>2, <2>3 DEF Faithful, Base
<1> QED BY <1>3, <1>4, <1>5

LEMMA StartsFlow ==
  ASSUME Flow, NEW pid \in Pids, NEW by \in BOOLEAN, NEW task \in BOOLEAN,
         NEW l \in now..(now + Skew), NEW t \in now..(now + Skew), Starts(pid, by, task, l, t)
  PROVE  /\ Flow'
         /\ \A name : Going(name)' <=> Going(name) \/ name \in FreshNames(task)
<1>1. /\ UNCHANGED <<now, inbox, asm, missing>>
      /\ BornGrows /\ Births' /\ born' \in Seq(Lives) /\ Len(born') = Next1 /\ Next1 <= MaxBorn
      /\ \A name : name \in Said' <=> name \in Said \/ name \in FreshNames(task)
      /\ Next1 \in Nat
  BY StartsBorn DEF intake, thread, ghosts
<1>2. PICK c, d, e : c = Created(pid, Next1, now, by) /\ d = Launched(pid, l, Next1) /\ e = Scheduled(pid, t, Next1)
  OBVIOUS
<1>3. c.kind = "created" /\ d.kind = "launched" /\ e.kind = "scheduled"
  BY <1>2 DEF Created, Launched, Scheduled
<1>4. /\ c \in Raws /\ Faithful(c)' /\ Base(c)' = now' /\ Name(c) = <<"created", Next1>>
      /\ d \in Raws /\ Faithful(d)' /\ Base(d)' = now' /\ Name(d) = <<"launched", Next1>>
      /\ task => e \in Raws /\ Faithful(e)' /\ Base(e)' = now' /\ Name(e) = <<"scheduled", Next1>>
  <2>1. c \in Raws /\ Faithful(c)' /\ Base(c)' = now' /\ Name(c) = <<c.kind, Next1>>
    BY <1>2, StartsTold
  <2>2. d \in Raws /\ Faithful(d)' /\ Base(d)' = now' /\ Name(d) = <<d.kind, Next1>>
    BY <1>2, StartsTold
  <2>3. ASSUME task PROVE e \in Raws /\ Faithful(e)' /\ Base(e)' = now' /\ Name(e) = <<e.kind, Next1>>
    <3>1. \/ e = Created(pid, Next1, now, by) \/ e = Launched(pid, l, Next1)
          \/ (task /\ e = Scheduled(pid, t, Next1))
      BY <1>2, <2>3
    <3> QED BY <3>1, StartsTold
  <2> QED BY <1>3, <2>1, <2>2, <2>3
<1>5. PICK u, v, w : u = Told(underway, c) /\ v = Told(u, d) /\ w = Told(v, e)
  OBVIOUS
<1>6. underway' = IF task THEN w ELSE v
  BY <1>2, <1>5 DEF Starts, Next1
<1>7. \A name : Way(underway, inbox, name) => name \in Said
  BY WaySaid DEF Flow, Truths, Going
<1>8. \A name \in Said, k \in {"created", "launched", "scheduled"} : name # <<k, Next1>> /\ ~Ahead(<<k, Next1>>, name)
  BY NewNames DEF Flow
<1>9. \A j, k : ~Ahead(<<j, Next1>>, <<k, Next1>>) \/ (j = "created" /\ k = "ended")
  BY <1>1 DEF Ahead
<1>10. /\ u \in [Sessions -> Seq(Raws)] /\ InLines(u, inbox)
       /\ \A name : Way(u, inbox, name) <=> Way(underway, inbox, name) \/ name = <<"created", Next1>>
  <2>1. \A name : Way(underway, inbox, name) => name # Name(c) /\ ~Ahead(Name(c), name)
    BY <1>4, <1>7, <1>8
  <2> QED BY <1>4, <1>5, <2>1, ToldKeeps, QueuesTyped
<1>11. /\ v \in [Sessions -> Seq(Raws)] /\ InLines(v, inbox)
       /\ \A name : Way(v, inbox, name) <=> Way(u, inbox, name) \/ name = <<"launched", Next1>>
  <2>1. \A name : Way(u, inbox, name) => name # Name(d) /\ ~Ahead(Name(d), name)
    BY <1>4, <1>7, <1>8, <1>9, <1>10
  <2> QED BY <1>4, <1>5, <1>10, <2>1, ToldKeeps, QueuesTyped
<1>12. task => /\ w \in [Sessions -> Seq(Raws)] /\ InLines(w, inbox)
               /\ \A name : Way(w, inbox, name) <=> Way(v, inbox, name) \/ name = <<"scheduled", Next1>>
  <2>1. \A name : Way(v, inbox, name) => name # <<"scheduled", Next1>> /\ ~Ahead(<<"scheduled", Next1>>, name)
    BY <1>7, <1>8, <1>9, <1>10, <1>11
  <2>2. ASSUME task
        PROVE  \A name : Way(v, inbox, name) => name # Name(e) /\ ~Ahead(Name(e), name)
    BY <1>4, <2>1, <2>2
  <2>3. ASSUME task
        PROVE  /\ w \in [Sessions -> Seq(Raws)] /\ InLines(w, inbox)
               /\ \A name : Way(w, inbox, name) <=> Way(v, inbox, name) \/ name = <<"scheduled", Next1>>
    BY <1>4, <1>5, <1>11, <2>2, <2>3, ToldKeeps, QueuesTyped
  <2> QED BY <2>3
<1>13. underway' \in [Sessions -> Seq(Raws)] /\ InLines(underway', inbox')
  BY <1>1, <1>6, <1>11, <1>12
<1>14. ASSUME NEW name PROVE Going(name)' <=> Going(name) \/ name \in FreshNames(task)
  <2>1. CASE task
    BY <1>1, <1>6, <1>10, <1>11, <1>12, <2>1 DEF Going, FreshNames
  <2>2. CASE ~task
    BY <1>1, <1>6, <1>10, <1>11, <2>2 DEF Going, FreshNames
  <2> QED BY <2>1, <2>2
<1>15. Typed'
  <2>1. TypedClock' /\ TypedThread' /\ TypedCounts'
    BY StartsBorn DEF Flow, Typed, TypedClock, TypedThread, TypedCounts, intake, thread, ghosts
  <2>2. open'
    BY StartsBorn DEF Starts, intake
  <2>3. TypedLines'
    BY <1>1, <1>13, <2>2, QueuesTyped DEF TypedLines, Entries
  <2> QED BY <2>1, <2>3 DEF Typed
<1>16. TrueOf(underway)' /\ PromptOf(underway)'
  <2>1. PICK under : under = underway
    OBVIOUS
  <2>2. TrueOf(under)' /\ PromptOf(under)' /\ under \in [Sessions -> Seq(Raws)] /\ u = Told(under, c)
    BY <1>1, <1>5, <2>1, TrueStays, QueuesTyped
  <2>3. TrueOf(u)' /\ PromptOf(u)'
    BY <1>4, <1>15, <2>2, ToldTrue
  <2>4. TrueOf(v)' /\ PromptOf(v)'
    BY <1>4, <1>5, <1>10, <1>15, <2>3, ToldTrue
  <2>5. task => TrueOf(w)' /\ PromptOf(w)'
    BY <1>4, <1>5, <1>11, <1>15, <2>4, ToldTrue
  <2> QED BY <1>6, <2>4, <2>5
<1>17. Lines'
  <2>1. \A name \in Said : name \notin FreshNames(task) /\ \A a \in FreshNames(task) : ~Ahead(a, name)
    BY <1>8 DEF FreshNames
  <2> QED BY <1>1, <1>13, <1>14, <2>1, LinesGrow DEF Flow
<1> QED BY <1>1, <1>14, <1>15, <1>16, <1>17, GrowFlow

\* A process ends.
LEMMA EndsFlow ==
  ASSUME Flow, NEW seq \in Processes, NEW dated \in BOOLEAN, Ends(seq, dated)
  PROVE  /\ Flow' /\ BornGrows /\ Processes' = Processes
         /\ UNCHANGED <<now, intake, thread, ghosts>>
         /\ \A n \in Processes : n # seq => born'[n] = born[n]
         /\ born'[seq].ended /\ ~born[seq].ended /\ <<"ended", seq>> \notin Said
         /\ \A name : Going(name)' <=> Going(name) \/ name = <<"ended", seq>>
<1>1. /\ UNCHANGED <<now, intake, thread, ghosts>> /\ ~born[seq].ended /\ open
      /\ born' = [born EXCEPT ![seq].ended = TRUE]
  BY DEF Ends
<1>2. PICK e : e = Ended(born[seq].pid, seq, now, IF dated THEN born[seq].time ELSE 0)
  OBVIOUS
<1>3. underway' = Told(underway, e)
  BY <1>2 DEF Ends
<1>4. born \in Seq(Lives) /\ Len(born) \in Nat /\ seq \in 1..Len(born) /\ born[seq] \in Lives
  BY BornShape DEF Flow, Typed, TypedLines, Processes
<1>19. born' = [born EXCEPT ![seq] = [born[seq] EXCEPT !.ended = TRUE]]
  BY <1>1, <1>4
<1>5. born' \in Seq(Lives) /\ Len(born') = Len(born)
  <2>1. [born[seq] EXCEPT !.ended = TRUE] \in Lives
    BY <1>4 DEF Lives
  <2> QED BY <1>4, <1>19, <2>1
<1>6. /\ \A n \in 1..Len(born) : n # seq => born'[n] = born[n]
      /\ born'[seq].ended /\ born'[seq].time = born[seq].time
      /\ born'[seq].pid = born[seq].pid /\ born'[seq].task = born[seq].task
  <2>1. \A n \in 1..Len(born) : n # seq => born'[n] = born[n]
    BY <1>4, <1>19
  <2>2. born'[seq] = [born[seq] EXCEPT !.ended = TRUE]
    <3>1. PICK life : life = [born[seq] EXCEPT !.ended = TRUE]
      OBVIOUS
    <3>2. born' = [born EXCEPT ![seq] = life]
      BY <1>19, <3>1
    <3>3. born'[seq] = life
      BY <1>4, <3>2
    <3> QED BY <3>1, <3>3
  <2>3. /\ born'[seq].ended /\ born'[seq].time = born[seq].time
        /\ born'[seq].pid = born[seq].pid /\ born'[seq].task = born[seq].task
    BY <1>4, <2>2 DEF Lives
  <2> QED BY <2>1, <2>3
<1>7. BornGrows /\ Processes' = Processes
  <2>1. Processes' = Processes
    BY <1>5 DEF Processes
  <2> QED BY <1>6, <2>1 DEF BornGrows, Processes
<1>8. Births'
  <2>1. \A n \in Processes : born'[n].time = born[n].time /\ born'[n].pid = born[n].pid
    BY <1>7 DEF BornGrows
  <2> QED BY <1>1, <1>7, <2>1 DEF Flow, Truths, Births
<1>9. e \in Raws /\ Faithful(e)' /\ Base(e)' = now' /\ Name(e) = <<"ended", seq>>
  <2>1. e = [kind |-> "ended", pid |-> born[seq].pid, seq |-> seq, time |-> now,
             since |-> IF dated THEN born[seq].time ELSE 0]
    BY <1>2 DEF Ended
  <2>2. now \in Nat /\ born[seq].time <= now /\ born[seq].pid \in Pids /\ born[seq].time \in Nat
    BY BornShape DEF Flow, Typed, TypedClock, Truths, Births
  <2>3. e \in Raws
    BY <1>4, <2>1, <2>2 DEF Raws
  <2>4. Counted(e.kind)' /\ Of(e)' = seq /\ Name(e) = <<"ended", seq>>
    BY <2>1 DEF Counted, Of, Name
  <2>5. Faithful(e)'
    BY <1>1, <1>6, <1>7, <2>1, <2>2, <2>4 DEF Faithful
  <2>6. Base(e)' = now'
    BY <1>1, <2>1, <2>4 DEF Base
  <2> QED BY <2>3, <2>4, <2>5, <2>6
<1>10. /\ <<"ended", seq>> \notin Said
       /\ \A name : name \in Said' <=> name \in Said \/ name = <<"ended", seq>>
  <2>1. <<"ended", seq>> \notin Said
    BY <1>1, SaidHas DEF Said
  <2>2. ASSUME NEW name PROVE name \in Said' <=> name \in Said \/ name = <<"ended", seq>>
    <3>1. CASE \E k \in Kinds : \E n : name = <<k, n>>
      <4>1. PICK k \in Kinds : \E n : name = <<k, n>>
        BY <3>1
      <4>2. PICK n : name = <<k, n>>
        BY <4>1
      <4>3. name \in Said <=> /\ n \in 1..Len(born) /\ (k = "scheduled" => born[n].task)
                              /\ (k = "ended" => born[n].ended)
        BY <4>2, SaidHas DEF Said
      <4>4. name \in Said' <=> /\ n \in 1..Len(born') /\ (k = "scheduled" => born'[n].task)
                               /\ (k = "ended" => born'[n].ended)
        BY <4>2, SaidHas DEF Said
      <4>5. name = <<"ended", seq>> <=> k = "ended" /\ n = seq
        BY <4>2
      <4>6. CASE n = seq
        BY <1>4, <1>5, <1>6, <4>3, <4>4, <4>5, <4>6
      <4>7. CASE n # seq
        BY <1>5, <1>6, <4>3, <4>4, <4>5, <4>7
      <4> QED BY <4>6, <4>7
    <3>2. CASE ~\E k \in Kinds : \E n : name = <<k, n>>
      <4>1. name \notin Said /\ name \notin Said'
        BY <3>2, SaidHas DEF Said
      <4>2. name # <<"ended", seq>>
        BY <3>2 DEF Kinds
      <4> QED BY <4>1, <4>2
    <3> QED BY <3>1, <3>2
  <2> QED BY <2>1, <2>2
<1>11. \A name : ~Ahead(<<"ended", seq>>, name)
  BY DEF Ahead
<1>12. /\ underway' \in [Sessions -> Seq(Raws)] /\ InLines(underway', inbox)
       /\ \A name : Way(underway', inbox, name) <=> Way(underway, inbox, name) \/ name = <<"ended", seq>>
  <2>1. \A name : Way(underway, inbox, name) => name \in Said
    BY WaySaid DEF Flow, Truths, Going
  <2>2. \A name : Way(underway, inbox, name) => name # Name(e) /\ ~Ahead(Name(e), name)
    BY <1>9, <1>10, <1>11, <2>1
  <2> QED BY <1>3, <1>9, <2>2, ToldKeeps, QueuesTyped
<1>13. inbox' = inbox /\ missing' = missing /\ asm' = asm /\ open'
  BY <1>1 DEF intake, thread, ghosts
<1>14. \A name : Going(name)' <=> Going(name) \/ name = <<"ended", seq>>
  BY <1>12, <1>13 DEF Going
<1>15. Typed'
  <2>1. TypedClock' /\ TypedThread' /\ TypedCounts'
    BY <1>1 DEF Flow, Typed, TypedClock, TypedThread, TypedCounts, intake, thread, ghosts
  <2>2. Len(born) <= MaxBorn
    BY DEF Flow, Typed, TypedLines
  <2>3. TypedLines'
    BY <1>5, <1>12, <1>13, <2>2, QueuesTyped DEF TypedLines, Entries
  <2> QED BY <2>1, <2>3 DEF Typed
<1>16. TrueOf(underway)' /\ PromptOf(underway)'
  <2>1. PICK under : under = underway
    OBVIOUS
  <2>2. TrueOf(under)' /\ PromptOf(under)' /\ under \in [Sessions -> Seq(Raws)] /\ underway' = Told(under, e)
    BY <1>1, <1>3, <1>7, <2>1, TrueStays, QueuesTyped
  <2> QED BY <1>9, <1>15, <2>2, ToldTrue
<1>17. Lines'
  <2>1. \A name : name \in Said' <=> name \in Said \/ name \in {<<"ended", seq>>}
    BY <1>10
  <2>2. \A name : Going(name)' <=> Going(name) \/ name \in {<<"ended", seq>>}
    BY <1>14
  <2>3. \A name \in Said : name \notin {<<"ended", seq>>} /\ \A a \in {<<"ended", seq>>} : ~Ahead(a, name)
    BY <1>10, <1>11
  <2>4. InLines(underway, inbox)'
    BY <1>12, <1>13
  <2> QED BY <1>13, <2>1, <2>2, <2>3, <2>4, LinesGrow DEF Flow
<1>18. Flow'
  BY <1>1, <1>7, <1>8, <1>13, <1>15, <1>16, <1>17, GrowFlow
<1> QED BY <1>1, <1>6, <1>7, <1>10, <1>14, <1>18 DEF Processes

-----------------------------------------------------------------------------
(***************************************************************************)
(* The thread takes an event.                                              *)
(***************************************************************************)
LEMMA AsmShape ==
  ASSUME Typed
  PROVE  /\ asm \in AsmType
         /\ asm.starts \subseteq StartType /\ asm.exits \subseteq EndedRaws
         /\ asm.launched \subseteq HalfRaws("launched") /\ asm.scheduled \subseteq HalfRaws("scheduled")
         /\ asm.went \subseteq [pid : Pids, seq : Nat, time : Nat]
BY DEF Typed, TypedThread, AsmType

\* What the assembler says stays true with what it is given.
LEMMA TrueAdded ==
  ASSUME NEW a \in AsmType, AsmTrue(a), NEW raw \in Raws, Faithful(raw), NEW b \in Added(a, raw)
  PROVE  b \in AsmType /\ AsmTrue(b)
<1>1. raw.kind \in {"created", "launched", "scheduled", "ended"}
  BY RawShape
<1>2. CASE raw.kind = "created"
  <2>1. raw \in CreatedRaws /\ Of(raw) = raw.seq
    BY <1>2, RawShape
  <2>2. PICK l \in OrNone(NearestOf(a.launched, raw.pid, raw.time)),
             t \in OrNone(NearestOf(a.scheduled, raw.pid, raw.time)) :
          /\ b.starts = a.starts \cup {Start(raw, l, t)}
          /\ b.launched = a.launched \ {l} /\ b.scheduled = a.scheduled \ {t}
          /\ b.exits = a.exits
    BY <2>1, AddedCreated
  <2>3. (l # None => l \in a.launched) /\ (t # None => t \in a.scheduled)
    BY TakenHalf DEF AsmType
  <2>4. FaithfulStart(Start(raw, l, t))
    BY <1>2, <2>1, <2>3 DEF FaithfulStart, Start, AsmTrue, Faithful
  <2> QED BY <2>1, <2>2, <2>4, AddedCreated DEF AsmTrue
<1>3. CASE raw.kind = "launched"
  <2>1. raw \in HalfRaws("launched")
    BY <1>3, RawShape
  <2>2. b \in AsmType /\ b.exits = a.exits /\ b.scheduled = a.scheduled
    BY <2>1, AddedLaunched
  <2>3. CASE b.launched = a.launched \cup {raw} /\ b.starts = a.starts
    BY <2>2, <2>3 DEF AsmTrue
  <2>4. CASE /\ b.launched = a.launched
             /\ \E s \in NearestOf({s \in a.starts : s.launched = None}, raw.pid, raw.time) :
                  /\ s \in a.starts /\ [s EXCEPT !.launched = raw] \in StartType
                  /\ b.starts = (a.starts \ {s}) \cup {[s EXCEPT !.launched = raw]}
    <3>1. PICK s \in a.starts : b.starts = (a.starts \ {s}) \cup {[s EXCEPT !.launched = raw]}
      BY <2>4
    <3>2. s \in StartType /\ FaithfulStart(s)
      BY DEF AsmTrue, AsmType
    <3>3. FaithfulStart([s EXCEPT !.launched = raw])
      BY <3>2 DEF FaithfulStart, StartType
    <3> QED BY <2>2, <2>4, <3>1, <3>3 DEF AsmTrue
  <2> QED BY <2>1, <2>3, <2>4, AddedLaunched
<1>4. CASE raw.kind = "scheduled"
  <2>1. raw \in HalfRaws("scheduled")
    BY <1>4, RawShape
  <2>2. b \in AsmType /\ b.exits = a.exits /\ b.launched = a.launched
    BY <2>1, AddedScheduled
  <2>3. CASE b.scheduled = a.scheduled \cup {raw} /\ b.starts = a.starts
    BY <2>2, <2>3 DEF AsmTrue
  <2>4. CASE /\ b.scheduled = a.scheduled
             /\ \E s \in NearestOf({s \in a.starts : s.task = None}, raw.pid, raw.time) :
                  /\ s \in a.starts /\ [s EXCEPT !.task = raw] \in StartType
                  /\ b.starts = (a.starts \ {s}) \cup {[s EXCEPT !.task = raw]}
    <3>1. PICK s \in a.starts : b.starts = (a.starts \ {s}) \cup {[s EXCEPT !.task = raw]}
      BY <2>4
    <3>2. s \in StartType /\ FaithfulStart(s)
      BY DEF AsmTrue, AsmType
    <3>3. FaithfulStart([s EXCEPT !.task = raw])
      BY <3>2 DEF FaithfulStart, StartType
    <3> QED BY <2>2, <2>4, <3>1, <3>3 DEF AsmTrue
  <2> QED BY <2>1, <2>3, <2>4, AddedScheduled
<1>5. CASE raw.kind = "ended"
  <2>1. raw \in EndedRaws
    BY <1>5, RawShape
  <2> QED BY <2>1, AddedEnded DEF AsmTrue
<1> QED BY <1>1, <1>2, <1>3, <1>4, <1>5

LEMMA ReceivesFlow ==
  ASSUME Flow, Receives, NEW e, e = Head(inbox), e.kind # "kernel_lost"
  PROVE  /\ Flow' /\ e \in Raws /\ Faithful(e) /\ now <= Base(e) + Skew + Delay
         /\ UNCHANGED <<now, born, underway, out, missing, wake_by, open>> /\ pc' = "drain" /\ pc # "closed"
         /\ UNCHANGED <<machine, full, dropped, events_lost, kernel_lost, lost, dropped_seen, ghosts>>
         /\ asm' \in Added(asm, e) /\ inbox # <<>>
         /\ Going(Name(e))
         /\ \A name : Going(name)' <=> Going(name) /\ name # Name(e)
         /\ \A name : Going(name)' => ~Ahead(name, Name(e))
<1>1. /\ UNCHANGED <<now, born, underway, out, missing, wake_by, open>> /\ inbox # <<>> /\ inbox' = Tail(inbox)
      /\ asm' \in Added(asm, e) /\ UNCHANGED <<machine, full, dropped, events_lost, kernel_lost, lost, dropped_seen, ghosts>>
      /\ pc' = "drain" /\ pc \in {"wait", "drain"}
  BY DEF Receives, Takes, machine, ghosts
<1>2. /\ BoxTrue(inbox') /\ BoxPrompt(inbox') /\ inbox' \in Seq(Entries)
      /\ e \in Entries /\ Faithful(e) /\ now <= Base(e) + Skew + Delay
  BY <1>1, BoxTail, QueuesTyped
<1>3. e \in Raws
  BY <1>2 DEF Entries, Losses
<1>4. /\ InLines(underway, inbox') /\ Going(Name(e))
      /\ \A name : Going(name)' <=> Going(name) /\ name # Name(e)
      /\ \A name : Going(name)' => ~Ahead(name, Name(e))
  <2>1. /\ underway \in [Sessions -> Seq(Raws)] /\ inbox \in Seq(Entries) /\ InLines(underway, inbox)
    BY QueuesTyped
  <2>2. /\ InLines(underway, inbox') /\ Way(underway, inbox, Name(e))
        /\ \A name : Way(underway, inbox', name) <=> Way(underway, inbox, name) /\ name # Name(e)
        /\ \A name : Way(underway, inbox', name) => ~Ahead(name, Name(e))
    BY <1>1, <1>3, <2>1, TakenIn
  <2> QED BY <1>1, <2>2 DEF Going
<1>5. asm' \in AsmType /\ AsmTrue(asm')
  BY <1>1, <1>2, <1>3, TrueAdded, AsmShape DEF Flow, Truths
<1>6. Typed'
  <2>1. TypedClock' /\ TypedThread' /\ TypedCounts'
    BY <1>1, <1>5 DEF Flow, Typed, TypedClock, TypedThread, TypedCounts, ghosts
  <2>2. TypedLines'
    BY <1>1, <1>2 DEF Flow, Typed, TypedLines, Entries
  <2> QED BY <2>1, <2>2 DEF Typed
<1>7. BornGrows
  BY <1>1, BornStays
<1>8. Truths'
  <2>1. TrueOf(underway)' /\ BoxTrue(inbox)' /\ AsmTrue(asm)'
    BY <1>1, <1>2, <1>5, <1>7, TrueStays, BoxStays, AsmStays, QueuesTyped
  <2>2. Births'
    BY <1>1 DEF Flow, Truths, Births, Processes
  <2> QED BY <2>1, <2>2 DEF Truths
<1>9. Prompt'
  BY <1>1, <1>2, <1>7, TrueStays, BoxStays, QueuesTyped DEF Prompt
<1>10. Lines'
  BY <1>1, <1>4, LinesShrink DEF Flow, Lines
<1> QED BY <1>1, <1>2, <1>3, <1>4, <1>6, <1>8, <1>9, <1>10 DEF Flow

-----------------------------------------------------------------------------
(***************************************************************************)
(* What is let out.                                                        *)
(***************************************************************************)
LEMMA LeftShape ==
  ASSUME NEW a \in AsmType, NEW at \in Nat
  PROVE  /\ Left(a, at) \in AsmType
         /\ Left(a, at).starts = a.starts \ DueStarts(a, at)
         /\ Left(a, at).exits = a.exits \ DueExits(a, at)
         /\ Left(a, at).went = StillWent(a.went \cup {Instance(s) : s \in DueStarts(a, at)}, at)
         /\ Left(a, at).launched = StillOpen(a.launched, at)
         /\ Left(a, at).scheduled = StillOpen(a.scheduled, at)
         /\ DueStarts(a, at) \subseteq a.starts /\ DueExits(a, at) \subseteq a.exits
         /\ StillOpen(a.launched, at) \subseteq a.launched
         /\ StillOpen(a.scheduled, at) \subseteq a.scheduled
<1>1. DueStarts(a, at) \subseteq a.starts /\ DueExits(a, at) \subseteq a.exits
  BY DEF DueStarts, DueExits
<1>2. a.starts \subseteq StartType /\ a.went \subseteq [pid : Pids, seq : Nat, time : Nat]
  BY DEF AsmType
<1>3. \A s \in DueStarts(a, at) : Instance(s) \in [pid : Pids, seq : Nat, time : Nat]
  BY <1>1, <1>2 DEF Instance, StartType
<1>4. StillWent(a.went \cup {Instance(s) : s \in DueStarts(a, at)}, at) \subseteq [pid : Pids, seq : Nat, time : Nat]
  BY <1>2, <1>3 DEF StillWent
<1>5. StillOpen(a.launched, at) \subseteq a.launched /\ StillOpen(a.scheduled, at) \subseteq a.scheduled
  BY DEF StillOpen
<1>6. Left(a, at) \in AsmType
  BY <1>1, <1>4, <1>5 DEF Left, AsmType
<1> QED BY <1>1, <1>5, <1>6 DEF Left

LEMMA HalfShape ==
  ASSUME NEW s \in StartType
  PROVE  [launched |-> Half(s.launched), task |-> Half(s.task)] \in StartOut
<1>1. \A h \in HalfRaws("launched") \cup HalfRaws("scheduled") : h \in Raws /\ h.of \in Nat
  BY KindsRaws DEF HalfRaws
<1>2. s.launched \in HalfRaws("launched") \cup {None} /\ s.task \in HalfRaws("scheduled") \cup {None}
  BY DEF StartType
<1>3. Half(s.launched) \in Nat \cup {None} /\ Half(s.task) \in Nat \cup {None}
  BY <1>1, <1>2 DEF Half
<1> QED BY <1>3 DEF StartOut

\* A start that is due goes out with the halves it has.
LEMMA LetsOut ==
  ASSUME Typed, OneStart, NEW at \in Nat, Lets(at)
  PROVE  /\ asm' = Left(asm, at)
         /\ out' \in [1..MaxBorn -> Outs]
         /\ \A n \in 1..MaxBorn : out'[n].exit <=> out[n].exit \/ \E e \in DueExits(asm, at) : e.seq = n
         /\ \A n \in 1..MaxBorn :
              (\A s \in DueStarts(asm, at) : s.seq # n) => out'[n].start = out[n].start
         /\ \A s \in DueStarts(asm, at) : s.seq \in 1..MaxBorn =>
              /\ out'[s.seq].start = [launched |-> Half(s.launched), task |-> Half(s.task)]
              /\ out'[s.seq].start # None
<1>1. asm' = Left(asm, at)
  BY DEF Lets
<1>2. /\ DueStarts(asm, at) \subseteq asm.starts /\ asm.starts \subseteq StartType
  BY AsmShape DEF DueStarts
<1>3. \A n \in 1..MaxBorn : out[n] \in Outs /\ out[n].start \in StartOut \cup {None} /\ out[n].exit \in BOOLEAN
  BY DEF Typed, TypedThread, Outs
<1>4. ASSUME NEW n \in 1..MaxBorn, \A s \in DueStarts(asm, at) : s.seq # n
      PROVE  StartsOut(at)[n] = out[n].start
  BY <1>4 DEF StartsOut
<1>5. ASSUME NEW s \in DueStarts(asm, at), s.seq \in 1..MaxBorn
      PROVE  StartsOut(at)[s.seq] = [launched |-> Half(s.launched), task |-> Half(s.task)]
  <2>1. (CHOOSE t \in DueStarts(asm, at) : t.seq = s.seq) = s
    BY <1>2 DEF OneStart
  <2> QED BY <1>5, <2>1 DEF StartsOut
<1>6. ASSUME NEW n \in 1..MaxBorn PROVE StartsOut(at)[n] \in StartOut \cup {None}
  <2>1. CASE \E s \in DueStarts(asm, at) : s.seq = n
    BY <1>2, <1>5, <2>1, HalfShape
  <2>2. CASE \A s \in DueStarts(asm, at) : s.seq # n
    BY <1>3, <1>4, <2>2
  <2> QED BY <2>1, <2>2
<1>7. out' = [n \in 1..MaxBorn |->
               [start |-> StartsOut(at)[n],
                exit |-> out[n].exit \/ \E e \in DueExits(asm, at) : e.seq = n]]
  BY DEF Lets
<1>8. \A n \in 1..MaxBorn :
        /\ out'[n] = [start |-> StartsOut(at)[n], exit |-> out[n].exit \/ \E e \in DueExits(asm, at) : e.seq = n]
        /\ out'[n].start = StartsOut(at)[n]
        /\ out'[n].exit <=> out[n].exit \/ \E e \in DueExits(asm, at) : e.seq = n
  BY <1>7
<1>9. ASSUME NEW n \in 1..MaxBorn PROVE out'[n] \in Outs
  <2>1. (out[n].exit \/ \E e \in DueExits(asm, at) : e.seq = n) \in BOOLEAN
    OBVIOUS
  <2>2. PICK x \in BOOLEAN : out'[n] = [start |-> StartsOut(at)[n], exit |-> x]
    BY <1>8, <2>1
  <2> QED BY <1>6, <2>2 DEF Outs
<1>10. out' \in [1..MaxBorn -> Outs]
  BY <1>7, <1>9
<1>11. \A s \in DueStarts(asm, at) : s.seq \in 1..MaxBorn =>
         [launched |-> Half(s.launched), task |-> Half(s.task)] # None
  BY <1>2, HalfShape, NoneAssumption
<1> QED BY <1>1, <1>4, <1>5, <1>8, <1>10, <1>11

LEMMA LetsFlow ==
  ASSUME Flow, OneStart, NEW at \in Nat, Lets(at), UNCHANGED <<machine, inbox, missing, open>>,
         pc' \in {"wait", "closed"}, lost' = 0, wake_by' \in Nat, full' = full, restarted' = restarted,
         UNCHANGED <<dropped, events_lost, kernel_lost, dropped_seen, counted>>
  PROVE  Flow' /\ \A name : Going(name)' <=> Going(name)
<1>1. UNCHANGED <<now, born, underway, inbox, missing, open>>
  BY DEF machine
<1>2. asm' = Left(asm, at) /\ asm' \in AsmType /\ out' \in [1..MaxBorn -> Outs]
  <2>1. Typed /\ asm \in AsmType
    BY AsmShape DEF Flow
  <2>2. asm' = Left(asm, at) /\ out' \in [1..MaxBorn -> Outs]
    BY <2>1, LetsOut
  <2> QED BY <2>1, <2>2, LeftShape
<1>3. BornGrows
  BY <1>1, BornStays
<1>4. AsmTrue(asm')
  <2>1. /\ asm'.starts \subseteq asm.starts /\ asm'.exits \subseteq asm.exits
        /\ asm'.launched \subseteq asm.launched /\ asm'.scheduled \subseteq asm.scheduled
    <3>1. asm \in AsmType
      BY AsmShape DEF Flow
    <3>2. /\ asm'.starts = asm.starts \ DueStarts(asm, at)
          /\ asm'.exits = asm.exits \ DueExits(asm, at)
          /\ asm'.launched = StillOpen(asm.launched, at)
          /\ asm'.scheduled = StillOpen(asm.scheduled, at)
      BY <1>2, <3>1, LeftShape
    <3> QED BY <3>2 DEF StillOpen
  <2> QED BY <2>1 DEF Flow, Truths, AsmTrue
<1>5. Truths'
  <2>1. TrueOf(underway)' /\ BoxTrue(inbox)' /\ AsmTrue(asm)'
    BY <1>1, <1>3, <1>4, TrueStays, BoxStays, AsmStays, QueuesTyped
  <2>2. Births'
    BY <1>1 DEF Flow, Truths, Births, Processes
  <2> QED BY <2>1, <2>2 DEF Truths
<1>6. Prompt'
  BY <1>1, <1>3, TrueStays, BoxStays, QueuesTyped DEF Prompt
<1>7. Typed'
  <2>1. TypedClock' /\ TypedLines' /\ TypedThread'
    BY <1>1, <1>2 DEF Flow, Typed, TypedClock, TypedLines, TypedThread
  <2>2. TypedCounts'
    <3>1. full' \in BOOLEAN /\ open' \in BOOLEAN /\ restarted' \in BOOLEAN
      BY <1>1 DEF Flow, Typed, TypedCounts
    <3>2. outlost' = outlost + lost
      BY DEF Lets
    <3>3. /\ dropped \in Nat /\ events_lost \in Nat /\ kernel_lost \in Nat /\ dropped_seen \in Nat
          /\ lost \in Nat /\ outlost \in Nat /\ counted \in Nat /\ dropped_seen <= dropped
      BY DEF Flow, Typed, TypedCounts
    <3>4. outlost' \in Nat /\ lost' \in Nat
      BY <3>2, <3>3
    <3> QED BY <3>1, <3>3, <3>4 DEF TypedCounts
  <2> QED BY <2>1, <2>2 DEF Typed
<1>8. \A name : Going(name)' <=> Going(name)
  BY <1>1 DEF Going
<1>9. Lines'
  <2>1. InLines(underway, inbox)'
    BY <1>1, QueuesTyped
  <2> QED BY <1>1, <1>8, <2>1, LinesShrink DEF Flow, Lines
<1> QED BY <1>5, <1>6, <1>7, <1>8, <1>9 DEF Flow

-----------------------------------------------------------------------------
(***************************************************************************)
(* Every start and every exit is in one place.                             *)
(***************************************************************************)
LEMMA QuietPlaces ==
  ASSUME Flow, Places, Quiet,
         pc' = "closed" => pc = "closed" /\ inbox' = inbox /\ open' = open
  PROVE  Places'
<1>1. Processes' = Processes /\ born' = born /\ asm' = asm /\ out' = out
  BY DEF Quiet, Processes
<1>2. \A name : /\ Going(name)' => Going(name)
                /\ name \in missing => name \in missing'
                /\ name \in missing' => name \in missing \/ (Going(name) /\ ~Going(name)')
                /\ Going(name) /\ ~Going(name)' => name \in missing'
  BY DEF Quiet
<1>3. \A n : (Held(n)' <=> Held(n)) /\ (Exits(n)' <=> Exits(n))
  BY <1>1 DEF Held, Exits
<1>4. ASSUME NEW name, NEW c, NEW d, One(Going(name), name \in missing, c, d)
      PROVE  One(Going(name)', name \in missing', c, d)
  BY <1>2, <1>4 DEF One
<1>5. ASSUME NEW n \in Processes'
      PROVE  /\ One(Going(<<"created", n>>), <<"created", n>> \in missing, Held(n), out[n].start # None)'
             /\ born'[n].ended =>
                  One(Going(<<"ended", n>>), <<"ended", n>> \in missing, Exits(n), out[n].exit)'
  <2>1. /\ One(Going(<<"created", n>>), <<"created", n>> \in missing, Held(n), out[n].start # None)
        /\ born[n].ended =>
             One(Going(<<"ended", n>>), <<"ended", n>> \in missing, Exits(n), out[n].exit)
    BY <1>1 DEF Places
  <2>2. One(Going(<<"created", n>>), <<"created", n>> \in missing, Held(n), out[n].start # None)'
    BY <1>1, <1>2, <1>3, <2>1 DEF One
  <2>3. ASSUME born'[n].ended
        PROVE  One(Going(<<"ended", n>>), <<"ended", n>> \in missing, Exits(n), out[n].exit)'
    BY <1>1, <1>2, <1>3, <2>1, <2>3 DEF One
  <2> QED BY <2>2, <2>3
<1>6. /\ \A n \in 1..MaxBorn : /\ out'[n].start # None => n \in Processes'
                               /\ out'[n].exit => n \in Processes' /\ born'[n].ended
      /\ OneStart' /\ OneExit'
  BY <1>1 DEF Places, OneStart, OneExit
<1>7. pc' = "closed" => asm'.starts = {} /\ asm'.exits = {} /\ inbox' = <<>> /\ ~open'
  BY <1>1 DEF Places
<1> QED BY <1>5, <1>6, <1>7 DEF Places

LEMMA StartsPlaces ==
  ASSUME Flow, Places, NEW pid \in Pids, NEW by \in BOOLEAN, NEW task \in BOOLEAN,
         NEW l \in now..(now + Skew), NEW t \in now..(now + Skew), Starts(pid, by, task, l, t)
  PROVE  Places'
<1>1. /\ UNCHANGED <<inbox, open, asm, pc, out, missing>>
      /\ \A n \in Processes : born'[n] = born[n]
      /\ born'[Next1] = [pid |-> pid, time |-> now, task |-> task, ended |-> FALSE]
      /\ Processes' = Processes \cup {Next1} /\ Next1 \notin Processes /\ Next1 \in Nat /\ Next1 <= MaxBorn
  BY StartsBorn DEF intake, thread, ghosts
<1>2. \A name : Going(name)' <=> Going(name) \/ name \in FreshNames(task)
  BY StartsFlow
<1>3. \A n : (Held(n)' <=> Held(n)) /\ (Exits(n)' <=> Exits(n))
  BY <1>1 DEF Held, Exits
<1>4. ASSUME NEW n \in Processes'
      PROVE  /\ One(Going(<<"created", n>>), <<"created", n>> \in missing, Held(n), out[n].start # None)'
             /\ born'[n].ended =>
                  One(Going(<<"ended", n>>), <<"ended", n>> \in missing, Exits(n), out[n].exit)'
  <2>1. CASE n \in Processes
    <3>1. n # Next1 /\ born'[n] = born[n]
      BY <1>1, <2>1
    <3>2. <<"created", n>> \notin FreshNames(task) /\ <<"ended", n>> \notin FreshNames(task)
      BY <3>1 DEF FreshNames
    <3>3. (Going(<<"created", n>>)' <=> Going(<<"created", n>>)) /\ (Going(<<"ended", n>>)' <=> Going(<<"ended", n>>))
      BY <1>2, <3>2
    <3> QED BY <1>1, <1>3, <2>1, <3>1, <3>3 DEF Places, One
  <2>2. CASE n = Next1
    <3>1. ~born'[n].ended
      BY <1>1, <2>2
    <3>2. Going(<<"created", n>>)'
      BY <1>2, <2>2 DEF FreshNames
    <3>3. <<"created", n>> \notin missing'
      BY <1>1, <2>2, NewNames DEF Flow, Lines
    <3>4. ~Held(n)'
      BY <1>1, <1>3, <2>2 DEF Held, Flow, Truths, AsmTrue, FaithfulStart
    <3>5. out'[n].start = None
      BY <1>1, <2>2, IntakeAssumption DEF Places, Processes, Next1
    <3> QED BY <3>1, <3>2, <3>3, <3>4, <3>5 DEF One
  <2> QED BY <1>1, <2>1, <2>2
<1>5. /\ \A n \in 1..MaxBorn : /\ out'[n].start # None => n \in Processes'
                               /\ out'[n].exit => n \in Processes' /\ born'[n].ended
      /\ OneStart' /\ OneExit'
  BY <1>1 DEF Places, OneStart, OneExit
<1> QED BY <1>1, <1>4, <1>5 DEF Places

LEMMA EndsPlaces ==
  ASSUME Flow, Places, NEW seq \in Processes, NEW dated \in BOOLEAN, Ends(seq, dated)
  PROVE  Places'
<1>1. /\ UNCHANGED <<inbox, open, asm, pc, out, missing>>
      /\ \A n \in Processes : n # seq => born'[n] = born[n]
      /\ born'[seq].ended /\ ~born[seq].ended /\ Processes' = Processes
      /\ <<"ended", seq>> \notin Said
      /\ \A name : Going(name)' <=> Going(name) \/ name = <<"ended", seq>>
  BY EndsFlow DEF intake, thread, ghosts
<1>2. \A n : (Held(n)' <=> Held(n)) /\ (Exits(n)' <=> Exits(n))
  BY <1>1 DEF Held, Exits
<1>3. ASSUME NEW n \in Processes'
      PROVE  /\ One(Going(<<"created", n>>), <<"created", n>> \in missing, Held(n), out[n].start # None)'
             /\ born'[n].ended =>
                  One(Going(<<"ended", n>>), <<"ended", n>> \in missing, Exits(n), out[n].exit)'
  <2>1. (Going(<<"created", n>>)' <=> Going(<<"created", n>>))
    BY <1>1
  <2>2. One(Going(<<"created", n>>), <<"created", n>> \in missing, Held(n), out[n].start # None)'
    BY <1>1, <1>2, <2>1 DEF Places, One
  <2>3. CASE n # seq
    <3>1. (Going(<<"ended", n>>)' <=> Going(<<"ended", n>>)) /\ born'[n] = born[n]
      BY <1>1, <2>3
    <3> QED BY <1>1, <1>2, <2>2, <3>1 DEF Places, One
  <2>4. CASE n = seq
    <3>1. Going(<<"ended", n>>)'
      BY <1>1, <2>4
    <3>2. <<"ended", n>> \notin missing'
      BY <1>1, <2>4 DEF Flow, Lines
    <3>3. ~Exits(n)'
      <4>1. ASSUME NEW e \in asm.exits PROVE e.seq # n
        <5>1. e \in EndedRaws /\ Faithful(e)
          BY AsmShape DEF Flow, Truths, AsmTrue
        <5>2. e \in Raws /\ e.kind = "ended"
          BY <5>1, KindsRaws
        <5>3. Of(e) = e.seq
          BY <5>2, RawShape
        <5> QED BY <1>1, <2>4, <5>1, <5>2, <5>3 DEF Faithful
      <4> QED BY <1>2, <4>1 DEF Exits
    <3>4. ~out'[n].exit
      BY <1>1, <2>4, BornShape DEF Places, Flow
    <3> QED BY <2>2, <3>1, <3>2, <3>3, <3>4 DEF One
  <2> QED BY <2>3, <2>4
<1>4. /\ \A n \in 1..MaxBorn : /\ out'[n].start # None => n \in Processes'
                               /\ out'[n].exit => n \in Processes' /\ born'[n].ended
      /\ OneStart' /\ OneExit'
  BY <1>1 DEF Places, OneStart, OneExit
<1> QED BY <1>1, <1>3, <1>4 DEF Places

\* A half that is given to a start leaves the starts those of the same processes.
LEMMA GivenHalf ==
  ASSUME OneStart, NEW s \in asm.starts, NEW t, t.seq = s.seq, asm'.starts = (asm.starts \ {s}) \cup {t}
  PROVE  OneStart' /\ \A n : Held(n)' <=> Held(n)
BY DEF OneStart, Held

\* What receiving an event does to what is pending, and where it is then.
LEMMA ReceivesHeld ==
  ASSUME Flow, Places, Receives, NEW e, e = Head(inbox), e.kind # "kernel_lost"
  PROVE  /\ \A n : Held(n)' <=> Held(n) \/ Name(e) = <<"created", n>>
         /\ \A n : Exits(n)' <=> Exits(n) \/ Name(e) = <<"ended", n>>
         /\ OneStart' /\ OneExit'
<1>1. /\ e \in Raws /\ Faithful(e) /\ asm' \in Added(asm, e) /\ Going(Name(e))
  BY ReceivesFlow
<1>2. asm \in AsmType /\ OneStart /\ OneExit
  BY AsmShape DEF Flow, Places
<1>3. e.kind \in {"created", "launched", "scheduled", "ended"} /\ Name(e) = <<e.kind, Of(e)>>
      /\ Of(e) \in Processes
  BY <1>1, RawShape DEF Faithful
<1>4. CASE e.kind = "created"
  <2>1. e \in CreatedRaws /\ Of(e) = e.seq
    BY <1>1, <1>4, RawShape
  <2>2. PICK l, t : asm'.starts = asm.starts \cup {Start(e, l, t)} /\ asm'.exits = asm.exits
    BY <1>1, <1>2, <2>1, AddedCreated
  <2>3. Start(e, l, t).seq = e.seq
    BY DEF Start
  <2>4. ~Held(e.seq)
    BY <1>1, <1>3, <1>4, <2>1 DEF Places, One
  <2>5. \A n : Name(e) = <<"created", n>> <=> n = e.seq
    BY <1>3, <1>4, <2>1
  <2>6. OneStart' /\ OneExit'
    BY <1>2, <2>2, <2>3, <2>4 DEF OneStart, OneExit, Held
  <2>7. \A n : Held(n)' <=> Held(n) \/ Name(e) = <<"created", n>>
    BY <2>2, <2>3, <2>5 DEF Held
  <2>8. \A n : Name(e) # <<"ended", n>>
    BY <1>3, <1>4
  <2> QED BY <2>2, <2>6, <2>7, <2>8 DEF Exits
<1>5. CASE e.kind = "launched"
  <2>1. e \in HalfRaws("launched")
    BY <1>1, <1>5, RawShape
  <2>2. \A n : Name(e) # <<"created", n>> /\ Name(e) # <<"ended", n>>
    BY <1>3, <1>5
  <2>3. asm'.exits = asm.exits
    BY <1>1, <1>2, <2>1, AddedLaunched
  <2>4. OneStart' /\ \A n : Held(n)' <=> Held(n)
    <3>1. CASE asm'.starts = asm.starts
      BY <1>2, <3>1 DEF OneStart, Held
    <3>2. CASE \E s \in asm.starts : asm'.starts = (asm.starts \ {s}) \cup {[s EXCEPT !.launched = e]}
      <4>1. PICK s \in asm.starts : asm'.starts = (asm.starts \ {s}) \cup {[s EXCEPT !.launched = e]}
        BY <3>2
      <4>2. [s EXCEPT !.launched = e].seq = s.seq
        BY <1>2 DEF AsmType, StartType
      <4> QED BY <1>2, <4>1, <4>2, GivenHalf
    <3> QED BY <1>1, <1>2, <2>1, <3>1, <3>2, AddedLaunched, ZenonT(60)
  <2> QED BY <1>2, <2>2, <2>3, <2>4 DEF Exits, OneExit
<1>6. CASE e.kind = "scheduled"
  <2>1. e \in HalfRaws("scheduled")
    BY <1>1, <1>6, RawShape
  <2>2. \A n : Name(e) # <<"created", n>> /\ Name(e) # <<"ended", n>>
    BY <1>3, <1>6
  <2>3. asm'.exits = asm.exits
    BY <1>1, <1>2, <2>1, AddedScheduled
  <2>4. OneStart' /\ \A n : Held(n)' <=> Held(n)
    <3>1. CASE asm'.starts = asm.starts
      BY <1>2, <3>1 DEF OneStart, Held
    <3>2. CASE \E s \in asm.starts : asm'.starts = (asm.starts \ {s}) \cup {[s EXCEPT !.task = e]}
      <4>1. PICK s \in asm.starts : asm'.starts = (asm.starts \ {s}) \cup {[s EXCEPT !.task = e]}
        BY <3>2
      <4>2. [s EXCEPT !.task = e].seq = s.seq
        BY <1>2 DEF AsmType, StartType
      <4> QED BY <1>2, <4>1, <4>2, GivenHalf
    <3> QED BY <1>1, <1>2, <2>1, <3>1, <3>2, AddedScheduled, ZenonT(60)
  <2> QED BY <1>2, <2>2, <2>3, <2>4 DEF Exits, OneExit
<1>7. CASE e.kind = "ended"
  <2>1. e \in EndedRaws /\ Of(e) = e.seq
    BY <1>1, <1>7, RawShape
  <2>2. asm'.exits = asm.exits \cup {e} /\ asm'.starts = asm.starts
    BY <1>1, <1>2, <2>1, AddedEnded
  <2>3. \A n : Name(e) # <<"created", n>> /\ (Name(e) = <<"ended", n>> <=> n = e.seq)
    BY <1>3, <1>7, <2>1
  <2>4. ~Exits(e.seq)
    BY <1>1, <1>3, <1>7, <2>1 DEF Places, One, Faithful
  <2>5. OneStart' /\ OneExit'
    BY <1>2, <2>2, <2>4 DEF OneStart, OneExit, Exits
  <2> QED BY <2>2, <2>3, <2>5 DEF Held, Exits
<1> QED BY <1>3, <1>4, <1>5, <1>6, <1>7

LEMMA ReceivesPlaces ==
  ASSUME Flow, Places, Receives, NEW e, e = Head(inbox), e.kind # "kernel_lost"
  PROVE  Places'
<1>1. /\ UNCHANGED <<born, out, missing, open>> /\ pc' = "drain" /\ Going(Name(e))
      /\ \A name : Going(name)' <=> Going(name) /\ name # Name(e)
  BY ReceivesFlow
<1>2. /\ \A n : Held(n)' <=> Held(n) \/ Name(e) = <<"created", n>>
      /\ \A n : Exits(n)' <=> Exits(n) \/ Name(e) = <<"ended", n>>
      /\ OneStart' /\ OneExit'
  BY ReceivesHeld
<1>3. Processes' = Processes
  BY <1>1 DEF Processes
<1>4. ASSUME NEW n \in Processes'
      PROVE  /\ One(Going(<<"created", n>>), <<"created", n>> \in missing, Held(n), out[n].start # None)'
             /\ born'[n].ended =>
                  One(Going(<<"ended", n>>), <<"ended", n>> \in missing, Exits(n), out[n].exit)'
  <2>1. /\ One(Going(<<"created", n>>), <<"created", n>> \in missing, Held(n), out[n].start # None)
        /\ born[n].ended =>
             One(Going(<<"ended", n>>), <<"ended", n>> \in missing, Exits(n), out[n].exit)
    BY <1>3 DEF Places
  <2>2. One(Going(<<"created", n>>), <<"created", n>> \in missing, Held(n), out[n].start # None)'
    BY <1>1, <1>2, <2>1 DEF One
  <2>3. ASSUME born'[n].ended
        PROVE  One(Going(<<"ended", n>>), <<"ended", n>> \in missing, Exits(n), out[n].exit)'
    BY <1>1, <1>2, <2>1, <2>3 DEF One
  <2> QED BY <2>2, <2>3
<1>5. \A n \in 1..MaxBorn : /\ out'[n].start # None => n \in Processes'
                            /\ out'[n].exit => n \in Processes' /\ born'[n].ended
  BY <1>1, <1>3 DEF Places
<1> QED BY <1>1, <1>2, <1>4, <1>5 DEF Places

\* What is pending of which process.
LEMMA PendingShape ==
  ASSUME Flow
  PROVE  /\ \A s \in asm.starts : s \in StartType /\ FaithfulStart(s) /\ s.seq \in Processes
         /\ \A e \in asm.exits : /\ e \in EndedRaws /\ Faithful(e) /\ e.seq \in Processes
                                 /\ e.pid = born[e.seq].pid /\ born[e.seq].ended
                                 /\ born[e.seq].time <= e.time /\ e.since \in {0, born[e.seq].time}
<1>1. ASSUME NEW s \in asm.starts PROVE s \in StartType /\ FaithfulStart(s) /\ s.seq \in Processes
  BY AsmShape DEF Flow, Truths, AsmTrue, FaithfulStart
<1>2. ASSUME NEW e \in asm.exits
      PROVE  /\ e \in EndedRaws /\ Faithful(e) /\ e.seq \in Processes
             /\ e.pid = born[e.seq].pid /\ born[e.seq].ended
             /\ born[e.seq].time <= e.time /\ e.since \in {0, born[e.seq].time}
  <2>1. e \in EndedRaws /\ Faithful(e)
    BY AsmShape DEF Flow, Truths, AsmTrue
  <2>2. e.kind = "ended" /\ Of(e) = e.seq
    BY <2>1, KindsRaws, RawShape
  <2> QED BY <2>1, <2>2 DEF Faithful
<1> QED BY <1>1, <1>2

LEMMA LetsPlaces ==
  ASSUME Flow, Places, NEW at \in Nat, Lets(at), UNCHANGED <<machine, inbox, missing, open>>,
         pc' = "closed" => /\ asm.starts \subseteq DueStarts(asm, at) /\ asm.exits \subseteq DueExits(asm, at)
                           /\ inbox = <<>> /\ ~open
  PROVE  Places'
<1>1. UNCHANGED <<born, underway, inbox, missing, open>> /\ Processes' = Processes
  BY DEF machine, Processes
<1>2. \A name : Going(name)' <=> Going(name)
  BY <1>1 DEF Going
<1>3. asm \in AsmType /\ OneStart /\ OneExit /\ Typed
  BY AsmShape DEF Flow, Places
<1>4. /\ asm' = Left(asm, at)
      /\ \A n \in 1..MaxBorn : out'[n].exit <=> out[n].exit \/ \E e \in DueExits(asm, at) : e.seq = n
      /\ \A n \in 1..MaxBorn :
           (\A s \in DueStarts(asm, at) : s.seq # n) => out'[n].start = out[n].start
      /\ \A s \in DueStarts(asm, at) : s.seq \in 1..MaxBorn => out'[s.seq].start # None
  BY <1>3, LetsOut
<1>5. /\ asm'.starts = asm.starts \ DueStarts(asm, at) /\ asm'.exits = asm.exits \ DueExits(asm, at)
      /\ DueStarts(asm, at) \subseteq asm.starts /\ DueExits(asm, at) \subseteq asm.exits
  BY <1>3, <1>4, LeftShape
<1>6. ASSUME NEW n \in Processes
      PROVE  One(Going(<<"created", n>>), <<"created", n>> \in missing, Held(n), out[n].start # None)'
  <2>1. One(Going(<<"created", n>>), <<"created", n>> \in missing, Held(n), out[n].start # None)
    BY DEF Places
  <2>2. n \in 1..MaxBorn
    BY BornShape DEF Flow
  <2>3. CASE \E s \in DueStarts(asm, at) : s.seq = n
    <3>1. Held(n) /\ ~Held(n)' /\ out'[n].start # None
      BY <1>3, <1>4, <1>5, <2>2, <2>3 DEF Held, OneStart
    <3> QED BY <1>1, <1>2, <2>1, <3>1 DEF One
  <2>4. CASE \A s \in DueStarts(asm, at) : s.seq # n
    <3>1. (Held(n)' <=> Held(n)) /\ out'[n].start = out[n].start
      BY <1>4, <1>5, <2>2, <2>4 DEF Held
    <3> QED BY <1>1, <1>2, <2>1, <3>1 DEF One
  <2> QED BY <2>3, <2>4
<1>7. ASSUME NEW n \in Processes, born[n].ended
      PROVE  One(Going(<<"ended", n>>), <<"ended", n>> \in missing, Exits(n), out[n].exit)'
  <2>1. One(Going(<<"ended", n>>), <<"ended", n>> \in missing, Exits(n), out[n].exit)
    BY <1>7 DEF Places
  <2>2. n \in 1..MaxBorn
    BY BornShape DEF Flow
  <2>3. CASE \E e \in DueExits(asm, at) : e.seq = n
    <3>1. Exits(n) /\ ~Exits(n)' /\ out'[n].exit
      BY <1>3, <1>4, <1>5, <2>2, <2>3 DEF Exits, OneExit
    <3> QED BY <1>1, <1>2, <2>1, <3>1 DEF One
  <2>4. CASE \A e \in DueExits(asm, at) : e.seq # n
    <3>1. (Exits(n)' <=> Exits(n)) /\ (out'[n].exit <=> out[n].exit)
      BY <1>4, <1>5, <2>2, <2>4 DEF Exits
    <3> QED BY <1>1, <1>2, <2>1, <3>1 DEF One
  <2> QED BY <2>3, <2>4
<1>8. ASSUME NEW n \in 1..MaxBorn
      PROVE  /\ out'[n].start # None => n \in Processes
             /\ out'[n].exit => n \in Processes /\ born[n].ended
  <2>1. /\ out[n].start # None => n \in Processes
        /\ out[n].exit => n \in Processes /\ born[n].ended
    BY DEF Places
  <2>2. \A s \in DueStarts(asm, at) : s.seq \in Processes
    BY <1>5, PendingShape
  <2>3. \A e \in DueExits(asm, at) : e.seq \in Processes /\ born[e.seq].ended
    BY <1>5, PendingShape
  <2> QED BY <1>4, <2>1, <2>2, <2>3
<1>9. OneStart' /\ OneExit'
  BY <1>3, <1>5 DEF OneStart, OneExit
<1>10. pc' = "closed" => asm'.starts = {} /\ asm'.exits = {} /\ inbox' = <<>> /\ ~open'
  BY <1>1, <1>5
<1> QED BY <1>1, <1>6, <1>7, <1>8, <1>9, <1>10 DEF Places

-----------------------------------------------------------------------------
(***************************************************************************)
(* Nothing waits longer than it may.                                       *)
(***************************************************************************)
InstanceOf(n) == [pid |-> born[n].pid, seq |-> n, time |-> born[n].time]

LEMMA WaitingKept ==
  ASSUME Flow, Waiting, BornGrows, asm' = asm, out' = out, now' \in Nat, now <= now', now' <= wake_by',
         pc' = "wait" => pc = "wait" /\ wake_by' = wake_by,
         pc' # "closed" => pc # "closed",
         \A n \in Processes' : n \in Processes \/ out[n].start = None
  PROVE  Waiting'
<1>1. ASSUME pc' # "closed", NEW n \in Processes', out'[n].start # None, now' < born'[n].time + WaitsAtMost
      PROVE  [pid |-> born'[n].pid, seq |-> n, time |-> born'[n].time] \in asm'.went
  <2>1. n \in Processes /\ born'[n].pid = born[n].pid /\ born'[n].time = born[n].time
    BY <1>1 DEF BornGrows
  <2>2. now \in Nat /\ born[n].time \in Nat /\ WaitsAtMost \in Nat
    BY <2>1, BornShape, TimesAssumption DEF Flow, Typed, TypedClock
  <2>3. now < born[n].time + WaitsAtMost
    BY <1>1, <2>1, <2>2
  <2> QED BY <1>1, <2>1, <2>3 DEF Waiting
<1>2. pc' = "wait" =>
        /\ \A s \in asm'.starts : wake_by' < s.time + WaitsAtMost + Tick
        /\ \A e \in asm'.exits : e.since # 0 => wake_by' < e.since + WaitsAtMost + Tick
        /\ \A e \in asm'.exits : out'[e.seq].start = None
  BY DEF Waiting
<1> QED BY <1>1, <1>2 DEF Waiting

\* Receiving takes nothing from what is remembered.
LEMMA AddedWent ==
  ASSUME NEW a \in AsmType, NEW raw \in Raws, NEW b \in Added(a, raw)
  PROVE  b.went = a.went
<1>1. raw.kind \in {"created", "launched", "scheduled", "ended"}
  BY RawShape
<1>2. CASE raw.kind = "created"
  BY <1>2, RawShape, AddedCreated
<1>3. CASE raw.kind = "launched"
  BY <1>3, RawShape, AddedLaunched
<1>4. CASE raw.kind = "scheduled"
  BY <1>4, RawShape, AddedScheduled
<1>5. CASE raw.kind = "ended"
  BY <1>5, RawShape, AddedEnded
<1> QED BY <1>1, <1>2, <1>3, <1>4, <1>5

LEMMA ReceivesWaiting ==
  ASSUME Flow, Waiting, Receives, NEW e, e = Head(inbox), e.kind # "kernel_lost"
  PROVE  Waiting'
<1>1. /\ UNCHANGED <<now, born, out, wake_by>> /\ pc' = "drain" /\ pc # "closed"
      /\ e \in Raws /\ asm' \in Added(asm, e)
  BY ReceivesFlow
<1>2. asm'.went = asm.went
  BY <1>1, AddedWent, AsmShape DEF Flow
<1> QED BY <1>1, <1>2 DEF Waiting, Processes

\* When the thread lets out what is due: what stays is young, and its start did
\* not go out.
LEMMA ReleasesWaiting ==
  ASSUME Flow, Places, Waiting, Releases
  PROVE  Waiting'
<1>1. /\ UNCHANGED <<now, born, underway>> /\ Lets(now) /\ wake_by' = now + Tick /\ pc' = "wait" /\ pc = "release"
  BY DEF Releases, machine
<1>2. now \in Nat /\ Tick \in Nat /\ WaitsAtMost \in Nat /\ WaitsAtMost <= now
  BY IntakeAssumption, TimesAssumption DEF Flow, Typed, TypedClock
<1>3. asm \in AsmType /\ OneStart /\ OneExit /\ Typed
  BY AsmShape DEF Flow, Places
<1>4. /\ asm' = Left(asm, now)
      /\ \A n \in 1..MaxBorn :
           (\A s \in DueStarts(asm, now) : s.seq # n) => out'[n].start = out[n].start
  BY <1>1, <1>2, <1>3, LetsOut
<1>5. /\ asm'.starts = asm.starts \ DueStarts(asm, now) /\ asm'.exits = asm.exits \ DueExits(asm, now)
      /\ asm'.went = StillWent(asm.went \cup {Instance(s) : s \in DueStarts(asm, now)}, now)
      /\ DueStarts(asm, now) \subseteq asm.starts /\ DueExits(asm, now) \subseteq asm.exits
  BY <1>2, <1>3, <1>4, LeftShape
<1>6. /\ \A s \in asm.starts : s \in StartType /\ s.seq \in Processes /\ s.pid = born[s.seq].pid
                               /\ s.time = born[s.seq].time /\ s.time \in Nat
      /\ \A e \in asm.exits : /\ e \in EndedRaws /\ e.seq \in Processes /\ e.since \in Nat
                              /\ e.pid = born[e.seq].pid
                              /\ born[e.seq].time <= e.time /\ e.since \in {0, born[e.seq].time}
  BY PendingShape DEF FaithfulStart, StartType, EndedRaws
<1>7. ASSUME NEW n \in Processes, out'[n].start # None, now < born[n].time + WaitsAtMost
      PROVE  InstanceOf(n) \in asm'.went
  <2>1. n \in 1..MaxBorn /\ born[n].time \in Nat
    BY BornShape DEF Flow
  <2>2. ~Waited(InstanceOf(n).time, now)
    BY <1>2, <1>7, <2>1 DEF Waited, InstanceOf
  <2>3. CASE \E s \in DueStarts(asm, now) : s.seq = n
    <3>1. PICK s \in DueStarts(asm, now) : s.seq = n
      BY <2>3
    <3>2. Instance(s) = InstanceOf(n)
      BY <1>5, <1>6, <3>1 DEF Instance, InstanceOf
    <3> QED BY <1>5, <2>2, <3>2 DEF StillWent
  <2>4. CASE \A s \in DueStarts(asm, now) : s.seq # n
    <3>1. InstanceOf(n) \in asm.went
      BY <1>1, <1>4, <1>7, <2>1, <2>4 DEF Waiting, InstanceOf
    <3> QED BY <1>5, <2>2, <3>1 DEF StillWent
  <2> QED BY <2>3, <2>4
<1>8. ASSUME NEW s \in asm'.starts PROVE wake_by' < s.time + WaitsAtMost + Tick
  <2>1. s \in asm.starts /\ ~Waited(s.time, now)
    BY <1>5 DEF DueStarts
  <2> QED BY <1>1, <1>2, <1>6, <2>1 DEF Waited
<1>9. ASSUME NEW e \in asm'.exits
      PROVE  /\ e.since # 0 => wake_by' < e.since + WaitsAtMost + Tick
             /\ out'[e.seq].start = None
  <2>1. e \in asm.exits /\ (HeldBack(asm, e, now) \/ (~Waited(e.since, now) /\ ~Went(asm, e, now)))
    BY <1>5 DEF DueExits
  <2>2. /\ e \in EndedRaws /\ e.seq \in Processes /\ e.since \in Nat
        /\ e.pid = born[e.seq].pid
        /\ born[e.seq].time <= e.time /\ e.since \in {0, born[e.seq].time}
        /\ e.seq \in 1..MaxBorn /\ born[e.seq].time \in Nat
    BY <1>6, <2>1, BornShape DEF Flow
  <2>3. CASE HeldBack(asm, e, now)
    <3>1. PICK s \in asm.starts \ DueStarts(asm, now) : s.seq = e.seq
      BY <2>3 DEF HeldBack, IsOf
    <3>2. ~Waited(born[e.seq].time, now)
      BY <1>6, <3>1 DEF DueStarts
    <3>3. e.since # 0 => wake_by' < e.since + WaitsAtMost + Tick
      BY <1>1, <1>2, <2>2, <3>2 DEF Waited
    <3>4. \A t \in DueStarts(asm, now) : t.seq # e.seq
      BY <1>3, <1>5, <3>1 DEF OneStart
    <3>5. out[e.seq].start = None
      BY <2>2, <3>1 DEF Places, One, Held
    <3> QED BY <1>4, <2>2, <3>3, <3>4, <3>5
  <2>4. CASE ~Waited(e.since, now) /\ ~Went(asm, e, now)
    <3>1. e.since # 0 => wake_by' < e.since + WaitsAtMost + Tick
      BY <1>1, <1>2, <2>2, <2>4 DEF Waited
    <3>2. \A t \in DueStarts(asm, now) : t.seq # e.seq
      <4>1. ASSUME NEW t \in DueStarts(asm, now), t.seq = e.seq PROVE FALSE
        <5>1. t \in asm.starts /\ t.pid = e.pid /\ t.time <= e.time
          BY <1>5, <1>6, <2>2, <4>1
        <5> QED BY <2>4, <4>1, <5>1 DEF Went, IsOf, Before
      <4> QED BY <4>1
    <3>3. out[e.seq].start = None
      <4>1. InstanceOf(e.seq) \notin asm.went
        BY <2>2, <2>4 DEF Went, IsOf, InstanceOf
      <4>2. now < born[e.seq].time + WaitsAtMost
        <5>1. ~(e.since + WaitsAtMost <= now)
          BY <2>4 DEF Waited
        <5> QED BY <1>2, <2>2, <5>1
      <4> QED BY <1>1, <2>2, <4>1, <4>2 DEF Waiting, InstanceOf
    <3> QED BY <1>4, <2>2, <3>1, <3>2, <3>3
  <2> QED BY <2>1, <2>3, <2>4
<1>10. Processes' = Processes /\ now' = now /\ born' = born /\ now' <= wake_by'
  BY <1>1, <1>2 DEF Processes
<1> QED BY <1>1, <1>7, <1>8, <1>9, <1>10 DEF Waiting, InstanceOf

-----------------------------------------------------------------------------
(***************************************************************************)
(* What keeps all of it.                                                   *)
(***************************************************************************)
Core == Flow /\ Places /\ Waiting

LEMMA InitCore == ASSUME Init PROVE Core
<1>1. /\ now = WaitsAtMost /\ born = <<>> /\ underway = [s \in Sessions |-> <<>>]
      /\ inbox = <<>> /\ full = FALSE /\ dropped = 0 /\ events_lost = 0 /\ open = TRUE
      /\ pc = "wait" /\ wake_by = now + Tick /\ asm = Empty
      /\ kernel_lost = 0 /\ dropped_seen = 0 /\ lost = 0
      /\ out = [n \in 1..MaxBorn |-> Untold]
      /\ outlost = 0 /\ missing = {} /\ counted = 0 /\ restarted = FALSE
  BY DEF Init
<1>2. /\ asm.starts = {} /\ asm.exits = {} /\ asm.launched = {} /\ asm.scheduled = {} /\ asm.went = {}
      /\ asm \in AsmType
  BY <1>1 DEF Empty, AsmType
<1>3. Len(born) = 0 /\ Processes = {} /\ Len(inbox) = 0 /\ \A s \in Sessions : underway[s] = <<>> /\ Len(underway[s]) = 0
  BY <1>1 DEF Processes
<1>4. \A n \in 1..MaxBorn : out[n].start = None /\ ~out[n].exit
  BY <1>1 DEF Untold
<1>5. Typed
  <2>1. TypedClock
    BY <1>1, IntakeAssumption, TimesAssumption DEF TypedClock
  <2>2. TypedLines
    BY <1>1, <1>3, IntakeAssumption DEF TypedLines
  <2>3. TypedCounts
    <3>1. full \in BOOLEAN /\ open \in BOOLEAN /\ restarted \in BOOLEAN
      BY <1>1
    <3>2. /\ dropped \in Nat /\ events_lost \in Nat /\ kernel_lost \in Nat /\ dropped_seen \in Nat
          /\ lost \in Nat /\ outlost \in Nat /\ counted \in Nat /\ dropped_seen <= dropped
      BY <1>1
    <3> QED BY <3>1, <3>2 DEF TypedCounts
  <2>4. TypedThread
    BY <1>1, <1>2 DEF TypedThread, Untold, Outs
  <2> QED BY <2>1, <2>2, <2>3, <2>4 DEF Typed
<1>6. Truths
  BY <1>2, <1>3 DEF Truths, Births, TrueOf, BoxTrue, AsmTrue
<1>7. Prompt
  BY <1>3 DEF Prompt, PromptOf, BoxPrompt
<1>8. \A name : ~Going(name)
  BY <1>3 DEF Going, Way, Sent
<1>9. Lines
  <2>1. InLines(underway, inbox)
    BY <1>3 DEF InLines, InOrder, AllBehind
  <2> QED BY <1>1, <1>8, <2>1 DEF Lines
<1>10. Places
  BY <1>1, <1>2, <1>3, <1>4 DEF Places, OneStart, OneExit
<1>11. Waiting
  BY <1>1, <1>2, <1>3, IntakeAssumption, TimesAssumption DEF Waiting
<1> QED BY <1>5, <1>6, <1>7, <1>9, <1>10, <1>11 DEF Core, Flow

LEMMA QuietCore ==
  ASSUME Core, Flow', Quiet, now <= now', now' <= wake_by',
         pc' = "wait" => pc = "wait" /\ wake_by' = wake_by,
         (pc' = "closed" <=> pc = "closed"),
         pc = "closed" => inbox' = inbox /\ open' = open
  PROVE  Core'
<1>1. Places'
  BY QuietPlaces DEF Core
<1>2. born' = born /\ asm' = asm /\ out' = out /\ Processes' = Processes
  BY DEF Quiet, Processes
<1>3. now' \in Nat
  BY DEF Flow, Typed, TypedClock
<1>4. Waiting'
  BY <1>2, <1>3, BornStays, WaitingKept DEF Core
<1> QED BY <1>1, <1>4 DEF Core

\* At the end everything is due.
LEMMA FinishesDue ==
  ASSUME Core
  PROVE  /\ Forever \in Nat
         /\ asm.starts \subseteq DueStarts(asm, Forever) /\ asm.exits \subseteq DueExits(asm, Forever)
<1>1. Forever \in Nat /\ MaxTime + WaitsAtMost <= Forever
  BY IntakeAssumption, TimesAssumption DEF Forever
<1>2. now \in Nat /\ now <= MaxTime /\ MaxTime \in Nat /\ WaitsAtMost \in Nat
  BY IntakeAssumption, TimesAssumption DEF Core, Flow, Typed, TypedClock
<1>3. \A n \in Processes : born[n].time \in Nat /\ born[n].time <= now
  BY BornShape DEF Core, Flow, Truths, Births
<1>4. ASSUME NEW s \in asm.starts PROVE s \in DueStarts(asm, Forever)
  <2>1. s.time = born[s.seq].time /\ s.seq \in Processes
    BY PendingShape DEF Core, FaithfulStart
  <2> QED BY <1>1, <1>2, <1>3, <2>1 DEF DueStarts, Waited
<1>5. ASSUME NEW e \in asm.exits PROVE e \in DueExits(asm, Forever)
  <2>1. e.seq \in Processes /\ e.since \in {0, born[e.seq].time}
    BY PendingShape DEF Core
  <2>2. Waited(e.since, Forever)
    BY <1>1, <1>2, <1>3, <2>1 DEF Waited
  <2>3. ~HeldBack(asm, e, Forever)
    BY <1>4 DEF HeldBack
  <2> QED BY <2>2, <2>3 DEF DueExits
<1> QED BY <1>1, <1>4, <1>5

LEMMA NextCore == ASSUME Core, [Next]_vars PROVE Core'
<1>1. Flow /\ Places /\ Waiting /\ Typed
  BY DEF Core, Flow
<1>2. now \in Nat /\ now <= wake_by /\ wake_by \in Nat
  BY <1>1 DEF Typed, TypedClock, Waiting
<1>3. open => pc # "closed"
  BY <1>1 DEF Places
<1>4. CASE TimePasses
  <2>1. Flow' /\ Quiet
    BY <1>1, <1>4, TimeQuiet
  <2>2. now' = now + 1 /\ now < wake_by /\ UNCHANGED <<pc, wake_by, inbox, open>>
    BY <1>4 DEF TimePasses, Resting, intake, thread
  <2>3. now <= now' /\ now' <= wake_by'
    BY <1>2, <2>2
  <2> QED BY <2>1, <2>2, <2>3, QuietCore
<1>5. CASE CountsDropped \/ Restarts \/ Counts \/ UNCHANGED vars
  <2>1. Flow' /\ Quiet
    BY <1>1, <1>5, StillQuiet
  <2>2. UNCHANGED <<now, wake_by, inbox, open>> /\ (pc' = pc \/ (pc' = "release" /\ pc \in {"wait", "drain"}))
    BY <1>5 DEF CountsDropped, Restarts, Counts, vars, machine, intake, thread
  <2> QED BY <1>2, <2>1, <2>2, QuietCore
<1>6. CASE TellsHealth
  <2>1. Flow' /\ Quiet
    BY <1>1, <1>6, CountsQuiet
  <2>2. UNCHANGED <<now, wake_by, open, pc>> /\ open
    BY <1>6 DEF TellsHealth, machine, thread
  <2> QED BY <1>2, <1>3, <2>1, <2>2, QuietCore
<1>7. CASE Stops
  <2>1. Flow' /\ Quiet
    BY <1>1, <1>7, StopsQuiet
  <2>2. UNCHANGED <<now, wake_by, inbox, pc>> /\ open
    BY <1>7 DEF Stops, thread
  <2>3. pc # "closed"
    BY <1>3, <2>2
  <2>4. now <= now' /\ now' <= wake_by' /\ wake_by' = wake_by /\ pc' = pc
    BY <1>2, <2>2
  <2> QED BY <2>1, <2>3, <2>4, QuietCore
<1>8. ASSUME NEW s \in Sessions, Delivers(s) \/ KernelDrops(s) PROVE Core'
  <2>1. Flow' /\ Quiet
    BY <1>1, <1>8, DeliversQuiet
  <2>2. UNCHANGED <<now, wake_by, open, pc>> /\ open
    BY <1>8 DEF Delivers, KernelDrops, thread
  <2> QED BY <1>2, <1>3, <2>1, <2>2, QuietCore
<1>9. CASE Receives
  <2>1. CASE Head(inbox).kind = "kernel_lost"
    <3>1. Flow' /\ Quiet
      BY <1>1, <1>9, <2>1, CountTakenQuiet
    <3>2. UNCHANGED <<now, wake_by>> /\ pc' = "drain" /\ pc \in {"wait", "drain"}
      BY <1>9 DEF Receives, machine
    <3> QED BY <1>2, <3>1, <3>2, QuietCore
  <2>2. CASE Head(inbox).kind # "kernel_lost"
    BY <1>1, <1>9, <2>2, ReceivesFlow, ReceivesPlaces, ReceivesWaiting DEF Core
  <2> QED BY <2>1, <2>2
<1>10. CASE Releases
  <2>1. /\ Lets(now) /\ UNCHANGED <<machine, inbox, missing, open>> /\ pc' = "wait" /\ lost' = 0
        /\ wake_by' = now + Tick /\ full' = full /\ restarted' = restarted
        /\ UNCHANGED <<dropped, events_lost, kernel_lost, dropped_seen, counted>>
    BY <1>10 DEF Releases, intake
  <2>2. wake_by' \in Nat /\ OneStart
    BY <1>1, <1>2, <2>1, IntakeAssumption DEF Places
  <2>3. Flow'
    BY <1>1, <1>2, <2>1, <2>2, LetsFlow
  <2>4. Places'
    BY <1>1, <1>2, <2>1, LetsPlaces
  <2> QED BY <1>1, <1>10, <2>3, <2>4, ReleasesWaiting DEF Core
<1>11. CASE Finishes
  <2>1. /\ Lets(Forever) /\ UNCHANGED <<machine, inbox, missing, open>> /\ pc' = "closed" /\ lost' = 0
        /\ wake_by' = wake_by /\ full' = full /\ restarted' = restarted
        /\ UNCHANGED <<dropped, events_lost, kernel_lost, dropped_seen, counted>>
        /\ inbox = <<>> /\ ~open
    BY <1>11 DEF Finishes, intake
  <2>2. /\ OneStart /\ Forever \in Nat
        /\ asm.starts \subseteq DueStarts(asm, Forever) /\ asm.exits \subseteq DueExits(asm, Forever)
    BY <1>1, FinishesDue DEF Places
  <2>3. Flow'
    BY <1>1, <1>2, <2>1, <2>2, LetsFlow
  <2>4. Places'
    BY <1>1, <2>1, <2>2, LetsPlaces
  <2>5. Waiting'
    BY <1>1, <2>1 DEF Waiting, machine
  <2> QED BY <2>3, <2>4, <2>5 DEF Core
<1>12. ASSUME NEW p \in Pids, NEW by \in BOOLEAN, NEW task \in BOOLEAN,
              NEW l \in now..(now + Skew), NEW t \in now..(now + Skew), Starts(p, by, task, l, t)
       PROVE  Core'
  <2>1. Flow' /\ Places'
    BY <1>1, <1>12, StartsFlow, StartsPlaces
  <2>2. UNCHANGED <<now, wake_by, pc, asm, out>> /\ BornGrows /\ Processes' = Processes \cup {Next1}
        /\ Next1 \in Nat /\ Next1 <= MaxBorn /\ Next1 \notin Processes
    BY <1>12, <1>1, StartsBorn DEF thread, ghosts
  <2>3. out[Next1].start = None
    BY <1>1, <2>2, IntakeAssumption DEF Places, Next1, Processes, Typed, TypedLines
  <2>4. Waiting'
    BY <1>1, <1>2, <2>2, <2>3, WaitingKept
  <2> QED BY <2>1, <2>4 DEF Core
<1>13. ASSUME NEW n \in Processes, NEW dated \in BOOLEAN, Ends(n, dated) PROVE Core'
  <2>1. Flow' /\ Places'
    BY <1>1, <1>13, EndsFlow, EndsPlaces
  <2>2. UNCHANGED <<now, wake_by, pc, asm, out>> /\ BornGrows /\ Processes' = Processes
    BY <1>13, <1>1, EndsFlow DEF thread, ghosts
  <2>3. Waiting'
    BY <1>1, <1>2, <2>2, WaitingKept
  <2> QED BY <2>1, <2>3 DEF Core
<1> QED
  BY <1>4, <1>5, <1>6, <1>7, <1>8, <1>9, <1>10, <1>11, <1>12, <1>13
  DEF Next, Machine, Intake, Thread

-----------------------------------------------------------------------------
(***************************************************************************)
(* The counts of what is lost.                                             *)
(***************************************************************************)
\* The last of them is put in.
LEMMA RiseAppend ==
  ASSUME NEW box \in Seq(Entries), NEW e \in Entries, NEW more, more = Append(box, e),
         NEW from \in 1..(Len(box) + 1), NEW low \in Nat, NEW high \in Nat,
         TotalsRise(box, from, Len(box), low, high),
         e.kind = "kernel_lost" => e.total = high
  PROVE  TotalsRise(more, from, Len(more), low, high)
<1>1. /\ Len(more) = Len(box) + 1 /\ Len(box) \in Nat
      /\ \A i \in 1..Len(box) : more[i] = box[i]
      /\ more[Len(more)] = e
  BY OnAppend
<1>2. ASSUME NEW i \in from..Len(more) PROVE i \in from..Len(box) \/ (i = Len(more) /\ more[i] = e)
  BY <1>1
<1>3. \A i \in from..Len(box) : more[i] = box[i]
  BY <1>1
<1>4. ASSUME NEW i \in from..Len(more), more[i].kind = "kernel_lost"
      PROVE  low <= more[i].total /\ more[i].total <= high
  BY <1>2, <1>3, <1>4 DEF TotalsRise
<1>5. ASSUME NEW i \in from..Len(more), NEW k \in from..Len(more), i < k,
             more[i].kind = "kernel_lost", more[k].kind = "kernel_lost"
      PROVE  more[i].total <= more[k].total
  <2>1. i \in from..Len(box)
    BY <1>1, <1>5
  <2>2. CASE k \in from..Len(box)
    BY <1>3, <1>5, <2>1, <2>2 DEF TotalsRise
  <2>3. CASE k = Len(more)
    <3>1. more[k].total = high
      BY <1>1, <1>5, <2>3
    <3> QED BY <1>3, <1>5, <2>1, <3>1 DEF TotalsRise
  <2> QED BY <1>2, <2>2, <2>3
<1>6. low <= high
  BY DEF TotalsRise
<1> QED BY <1>4, <1>5, <1>6 DEF TotalsRise

\* The first is taken: those after it are no less.
LEMMA RiseTail ==
  ASSUME NEW box \in Seq(Entries), box # <<>>, NEW e, e = Head(box), NEW less, less = Tail(box),
         NEW to \in 0..Len(box), NEW low \in Nat, NEW high \in Nat
  PROVE  /\ TotalsRise(box, 1, to, low, high) /\ e \notin Losses => TotalsRise(less, 1, to - 1, low, high)
         /\ TotalsRise(box, 1, to, low, high) /\ e \in Losses /\ to # 0
              => /\ low <= e.total /\ e.total <= high
                 /\ TotalsRise(less, 1, to - 1, e.total, high)
         /\ \A from \in 2..(Len(box) + 1) :
              TotalsRise(box, from, to, low, high) => TotalsRise(less, from - 1, to - 1, low, high)
<1>1. /\ Len(box) = Len(less) + 1 /\ Len(less) \in Nat /\ e = box[1] /\ e \in Entries
      /\ \A i \in 1..Len(less) : i + 1 \in 1..Len(box) /\ less[i] = box[i + 1]
  BY OnTail
<1>2. e \in Losses <=> e.kind = "kernel_lost"
  BY <1>1, NoCounts DEF Entries, Losses
<1>4. ASSUME TotalsRise(box, 1, to, low, high), e \notin Losses
      PROVE  TotalsRise(less, 1, to - 1, low, high)
  <2>1. \A i \in 1..(to - 1) : i + 1 \in 1..to /\ less[i] = box[i + 1]
    BY <1>1
  <2> QED BY <1>4, <2>1 DEF TotalsRise
<1>5. ASSUME TotalsRise(box, 1, to, low, high), e \in Losses, to # 0
      PROVE  /\ low <= e.total /\ e.total <= high
             /\ TotalsRise(less, 1, to - 1, e.total, high)
  <2>1. \A i \in 1..(to - 1) : i + 1 \in 1..to /\ less[i] = box[i + 1] /\ 1 < i + 1
    BY <1>1
  <2>2. 1 \in 1..to
    BY <1>5
  <2>3. low <= e.total /\ e.total <= high
    BY <1>1, <1>2, <1>5, <2>2 DEF TotalsRise
  <2>4. ASSUME NEW i \in 1..(to - 1), less[i].kind = "kernel_lost"
        PROVE  e.total <= less[i].total /\ less[i].total <= high
    BY <1>1, <1>2, <1>5, <2>1, <2>2, <2>4 DEF TotalsRise
  <2>5. ASSUME NEW i \in 1..(to - 1), NEW k \in 1..(to - 1), i < k,
               less[i].kind = "kernel_lost", less[k].kind = "kernel_lost"
        PROVE  less[i].total <= less[k].total
    <3>1. i + 1 < k + 1
      BY <2>5
    <3> QED BY <1>5, <2>1, <2>5, <3>1 DEF TotalsRise
  <2> QED BY <2>3, <2>4, <2>5 DEF TotalsRise
<1>6. ASSUME NEW from \in 2..(Len(box) + 1), TotalsRise(box, from, to, low, high)
      PROVE  TotalsRise(less, from - 1, to - 1, low, high)
  <2>1. \A i \in (from - 1)..(to - 1) : i + 1 \in from..to /\ less[i] = box[i + 1]
    BY <1>1
  <2> QED BY <1>6, <2>1 DEF TotalsRise
<1> QED BY <1>4, <1>5, <1>6

\* An event or the session's count is put in.
LEMMA TallyAppend ==
  ASSUME NEW box \in Seq(Entries), NEW e \in Entries, NEW more, more = Append(box, e),
         NEW hand \in Nat, NEW kern \in Nat, NEW ev \in Nat, NEW all \in Nat, NEW again,
         e.kind = "kernel_lost" => e.total = ev,
         TalliedBy(box, hand, kern, ev, all, again)
  PROVE  TalliedBy(more, hand, kern, ev, all, again)
<1>1. /\ Len(more) = Len(box) + 1 /\ Len(box) \in Nat
      /\ \A i \in 1..Len(box) : more[i] = box[i]
  BY OnAppend
<1>2. ASSUME AsOne(box, kern, ev) PROVE AsOne(more, kern, ev)
  <2>1. 1 \in 1..(Len(box) + 1)
    BY <1>1
  <2> QED BY <1>2, <2>1, RiseAppend DEF AsOne
<1>3. ASSUME NEW cut \in 0..Len(box), NEW last \in Nat, AsTwo(box, kern, ev, cut, last)
      PROVE  cut \in 0..Len(more) /\ AsTwo(more, kern, ev, cut, last)
  <2>1. TotalsRise(more, 1, cut, kern, last)
    BY <1>1, <1>3 DEF AsTwo, TotalsRise
  <2>2. cut + 1 \in 1..(Len(box) + 1)
    BY <1>1
  <2>3. TotalsRise(more, cut + 1, Len(more), 0, ev)
    BY <1>1, <1>3, <2>2, RiseAppend DEF AsTwo
  <2> QED BY <1>1, <2>1, <2>3 DEF AsTwo
<1> QED BY <1>2, <1>3 DEF TalliedBy

\* The session counts one more, and so do all.
LEMMA TallyDrop ==
  ASSUME NEW box \in Seq(Entries), NEW hand \in Nat, NEW kern \in Nat, NEW ev \in Nat, NEW all \in Nat,
         NEW again, TalliedBy(box, hand, kern, ev, all, again)
  PROVE  TalliedBy(box, hand, kern, ev + 1, all + 1, again)
<1>1. \A i \in 1..Len(box) : box[i].kind = "kernel_lost" => box[i].total \in Nat
  BY NoCounts DEF Entries, Losses
<1>2. ASSUME NEW from \in 1..(Len(box) + 1), NEW low \in Nat, TotalsRise(box, from, Len(box), low, ev)
      PROVE  TotalsRise(box, from, Len(box), low, ev + 1)
  <2>1. PICK top \in Nat : top = ev + 1 /\ ev <= top
    OBVIOUS
  <2>2. low <= top
    BY <1>2, <2>1 DEF TotalsRise
  <2>3. ASSUME NEW i \in from..Len(box), box[i].kind = "kernel_lost"
        PROVE  low <= box[i].total /\ box[i].total <= top
    <3>1. low <= box[i].total /\ box[i].total <= ev /\ box[i].total \in Nat
      BY <1>1, <1>2, <2>3 DEF TotalsRise
    <3> QED BY <2>1, <3>1
  <2>4. TotalsRise(box, from, Len(box), low, top)
    BY <1>2, <2>2, <2>3 DEF TotalsRise
  <2> QED BY <2>1, <2>4
<1>7. ASSUME AsOne(box, kern, ev) PROVE AsOne(box, kern, ev + 1)
  <2>1. 1 \in 1..(Len(box) + 1)
    OBVIOUS
  <2> QED BY <1>2, <1>7, <2>1 DEF AsOne
<1>3. ASSUME NEW cut \in 0..Len(box), NEW last \in Nat, AsTwo(box, kern, ev, cut, last)
      PROVE  AsTwo(box, kern, ev + 1, cut, last)
  <2>1. cut + 1 \in 1..(Len(box) + 1)
    OBVIOUS
  <2> QED BY <1>2, <1>3, <2>1 DEF AsTwo
<1>4. hand + (ev - kern) <= all => hand + ((ev + 1) - kern) <= all + 1
  OBVIOUS
<1>5. hand + (ev - kern) = all => hand + ((ev + 1) - kern) = all + 1
  OBVIOUS
<1>6. \A last \in Nat : hand + (last - kern) + ev <= all => hand + (last - kern) + (ev + 1) <= all + 1
  OBVIOUS
<1> QED BY <1>3, <1>4, <1>5, <1>6, <1>7 DEF TalliedBy

\* One more is counted, and is in hand.
LEMMA TallyCount ==
  ASSUME NEW box, NEW hand \in Nat, NEW kern \in Nat, NEW ev \in Nat, NEW all \in Nat,
         NEW again, TalliedBy(box, hand, kern, ev, all, again)
  PROVE  TalliedBy(box, hand + 1, kern, ev, all + 1, again)
<1>1. hand + (ev - kern) <= all => (hand + 1) + (ev - kern) <= all + 1
  OBVIOUS
<1>2. hand + (ev - kern) = all => (hand + 1) + (ev - kern) = all + 1
  OBVIOUS
<1>3. \A last \in Nat : hand + (last - kern) + ev <= all => (hand + 1) + (last - kern) + ev <= all + 1
  OBVIOUS
<1> QED BY <1>1, <1>2, <1>3 DEF TalliedBy

\* The session counts anew: what it told so far ends at its last count.
LEMMA TallyRestart ==
  ASSUME NEW box \in Seq(Entries), NEW hand \in Nat, NEW kern \in Nat, NEW ev \in Nat, NEW all \in Nat,
         TalliedBy(box, hand, kern, ev, all, FALSE)
  PROVE  TalliedBy(box, hand, kern, 0, all, TRUE)
<1>1. AsOne(box, kern, ev) /\ hand + (ev - kern) + 0 <= all
  BY DEF TalliedBy
<1>2. Len(box) \in 0..Len(box) /\ ev \in Nat
  OBVIOUS
<1>3. TotalsRise(box, Len(box) + 1, Len(box), 0, 0)
  BY DEF TotalsRise
<1>4. AsTwo(box, kern, 0, Len(box), ev)
  BY <1>1, <1>3 DEF AsOne, AsTwo
<1> QED BY <1>1, <1>2, <1>4 DEF TalliedBy

\* An event is taken.
LEMMA TallyTakesEvent ==
  ASSUME NEW box \in Seq(Entries), box # <<>>, Head(box) \notin Losses, NEW less, less = Tail(box),
         NEW hand \in Nat, NEW kern \in Nat, NEW ev \in Nat, NEW all \in Nat, NEW again,
         TalliedBy(box, hand, kern, ev, all, again)
  PROVE  TalliedBy(less, hand, kern, ev, all, again)
<1>1. Len(box) = Len(less) + 1 /\ Len(less) \in Nat
  BY OnTail
<1>2. ASSUME AsOne(box, kern, ev) PROVE AsOne(less, kern, ev)
  <2>1. Len(box) \in 0..Len(box) /\ Len(less) = Len(box) - 1
    BY <1>1
  <2> QED BY <1>2, <2>1, RiseTail DEF AsOne
<1>3. ASSUME NEW cut \in 0..Len(box), NEW last \in Nat, AsTwo(box, kern, ev, cut, last)
      PROVE  \E c \in 0..Len(less) : AsTwo(less, kern, ev, c, last)
  <2>1. CASE cut = 0
    <3>1. 0 \in 0..Len(less) /\ Len(box) \in 0..Len(box) /\ Len(less) = Len(box) - 1
      BY <1>1
    <3>2. TotalsRise(box, 1, Len(box), 0, ev) /\ kern <= last
      BY <1>3, <2>1 DEF AsTwo, TotalsRise
    <3>3. TotalsRise(less, 1, Len(less), 0, ev)
      BY <3>1, <3>2, RiseTail
    <3>4. TotalsRise(less, 1, 0, kern, last)
      BY <3>2 DEF TotalsRise
    <3>5. AsTwo(less, kern, ev, 0, last)
      BY <3>3, <3>4 DEF AsTwo
    <3> QED BY <3>1, <3>5
  <2>2. CASE cut # 0
    <3>1. /\ cut - 1 \in 0..Len(less) /\ cut + 1 \in 2..(Len(box) + 1) /\ (cut + 1) - 1 = (cut - 1) + 1
          /\ Len(box) \in 0..Len(box) /\ Len(less) = Len(box) - 1
      BY <1>1, <2>2
    <3>2. TotalsRise(less, 1, cut - 1, kern, last)
      BY <1>3, RiseTail DEF AsTwo
    <3>3. TotalsRise(less, (cut - 1) + 1, Len(less), 0, ev)
      BY <1>3, <3>1, RiseTail DEF AsTwo
    <3>4. AsTwo(less, kern, ev, cut - 1, last)
      BY <3>2, <3>3 DEF AsTwo
    <3> QED BY <3>1, <3>4
  <2> QED BY <2>1, <2>2
<1> QED BY <1>2, <1>3 DEF TalliedBy

\* A total is taken.
LEMMA TallyTakesTotal ==
  ASSUME NEW box \in Seq(Entries), box # <<>>, NEW e, e = Head(box), e \in Losses,
         NEW less, less = Tail(box),
         NEW hand \in Nat, NEW kern \in Nat, NEW ev \in Nat, NEW all \in Nat, NEW again,
         TalliedBy(box, hand, kern, ev, all, again)
  PROVE  TalliedBy(less, hand + (IF e.total < kern THEN e.total ELSE e.total - kern),
                   e.total, ev, all, again)
<1>1. Len(box) = Len(less) + 1 /\ Len(less) \in Nat
  BY OnTail
<1>2. PICK n \in Nat : n = e.total
  BY DEF Losses
<1>3. PICK gain \in Nat : /\ gain = IF n < kern THEN n ELSE n - kern
                          /\ n < kern => gain = n
                          /\ n >= kern => gain = n - kern
  <2>1. (IF n < kern THEN n ELSE n - kern) \in Nat
    OBVIOUS
  <2> QED BY <2>1
<1>4. Len(box) \in 0..Len(box) /\ Len(less) = Len(box) - 1 /\ Len(box) # 0
  BY <1>1
<1>5. ASSUME AsOne(box, kern, ev)
      PROVE  /\ AsOne(less, n, ev)
             /\ (hand + gain) + (ev - n) = hand + (ev - kern)
  <2>1. kern <= n /\ TotalsRise(less, 1, Len(less), n, ev)
    BY <1>2, <1>4, <1>5, RiseTail DEF AsOne
  <2> QED BY <1>3, <2>1 DEF AsOne
<1>6. ASSUME NEW cut \in 0..Len(box), NEW last \in Nat, AsTwo(box, kern, ev, cut, last),
             hand + (last - kern) + ev <= all
      PROVE  \/ AsOne(less, n, ev) /\ (hand + gain) + (ev - n) <= all
             \/ \E c \in 0..Len(less) : /\ AsTwo(less, n, ev, c, last)
                                        /\ (hand + gain) + (last - n) + ev <= all
  <2>1. CASE cut = 0
    <3>1. TotalsRise(box, 1, Len(box), 0, ev) /\ kern <= last
      BY <1>6, <2>1 DEF AsTwo, TotalsRise
    <3>2. n <= ev /\ TotalsRise(less, 1, Len(less), n, ev)
      BY <1>2, <1>4, <3>1, RiseTail
    <3>3. gain <= n
      BY <1>3
    <3>4. (hand + gain) + (ev - n) <= all
      BY <1>6, <3>1, <3>2, <3>3
    <3> QED BY <3>2, <3>4 DEF AsOne
  <2>2. CASE cut # 0
    <3>1. /\ cut - 1 \in 0..Len(less) /\ cut + 1 \in 2..(Len(box) + 1) /\ (cut + 1) - 1 = (cut - 1) + 1
      BY <1>1, <2>2
    <3>2. kern <= n /\ n <= last /\ TotalsRise(less, 1, cut - 1, n, last)
      BY <1>2, <1>6, <2>2, RiseTail DEF AsTwo
    <3>3. TotalsRise(less, (cut - 1) + 1, Len(less), 0, ev)
      BY <1>4, <1>6, <3>1, RiseTail DEF AsTwo
    <3>4. AsTwo(less, n, ev, cut - 1, last)
      BY <3>2, <3>3 DEF AsTwo
    <3>5. (hand + gain) + (last - n) + ev <= all
      BY <1>3, <1>6, <3>2
    <3> QED BY <3>1, <3>4, <3>5
  <2> QED BY <2>1, <2>2
<1>7. TalliedBy(less, hand + gain, n, ev, all, again)
  BY <1>5, <1>6 DEF TalliedBy
<1> QED BY <1>2, <1>3, <1>7

LEMMA HandNat == ASSUME TypedCounts PROVE InHand \in Nat
<1>1. (IF full THEN 1 ELSE 0) \in Nat
  OBVIOUS
<1>2. dropped - dropped_seen \in Nat /\ lost \in Nat /\ outlost \in Nat
  BY DEF TypedCounts
<1> QED BY <1>1, <1>2 DEF InHand

\* Every step keeps the tally.
LEMMA NextTallied == ASSUME Typed, Tallied, [Next]_vars PROVE Tallied'
<1>1. /\ InHand \in Nat /\ kernel_lost \in Nat /\ events_lost \in Nat /\ counted \in Nat
      /\ dropped \in Nat /\ dropped_seen \in Nat /\ lost \in Nat /\ outlost \in Nat
      /\ inbox \in Seq(Entries)
  BY HandNat DEF Typed, TypedCounts, TypedLines, Entries
<1>2. ASSUME UNCHANGED <<full, dropped, dropped_seen, lost, outlost>> PROVE InHand' = InHand
  BY <1>2 DEF InHand
<1>3. CASE UNCHANGED <<inbox, full, dropped, dropped_seen, lost, outlost, kernel_lost, events_lost,
                       counted, restarted>>
  BY <1>2, <1>3 DEF Tallied
<1>4. CASE \/ TimePasses \/ Stops \/ UNCHANGED vars
           \/ \E p \in Pids, by, task \in BOOLEAN, l, t \in now..(now + Skew) : Starts(p, by, task, l, t)
           \/ \E n \in Processes, dated \in BOOLEAN : Ends(n, dated)
  BY <1>3, <1>4, ZenonT(60) DEF TimePasses, Stops, Starts, Ends, vars, intake, thread, ghosts
<1>5. CASE CountsDropped
  <2>1. /\ full /\ ~full' /\ dropped' = dropped + 1
        /\ UNCHANGED <<inbox, dropped_seen, lost, outlost, kernel_lost, events_lost, counted, restarted>>
    BY <1>5 DEF CountsDropped, thread, ghosts
  <2>2. InHand = outlost + lost + (dropped - dropped_seen) + 1
    BY <2>1 DEF InHand
  <2>3. InHand' = outlost + lost + ((dropped + 1) - dropped_seen) + 0
    <3>1. full' = FALSE /\ dropped' = dropped + 1 /\ UNCHANGED <<dropped_seen, lost, outlost>>
      BY <1>5, <2>1 DEF CountsDropped
    <3> QED BY <3>1 DEF InHand
  <2>4. InHand' = InHand
    BY <1>1, <2>2, <2>3
  <2> QED BY <2>1, <2>4 DEF Tallied
<1>6. ASSUME NEW s \in Sessions, Delivers(s) PROVE Tallied'
  <2>1. UNCHANGED <<dropped, dropped_seen, lost, outlost, kernel_lost, events_lost, restarted>> /\ ~full
    BY <1>6 DEF Delivers, thread
  <2>2. CASE Len(inbox) < Queued
    <3>1. Head(underway[s]) \in Raws
      BY <1>6 DEF Delivers, Typed, TypedLines
    <3>2. /\ Head(underway[s]) \in Entries /\ Head(underway[s]).kind # "kernel_lost"
          /\ inbox' = Append(inbox, Head(underway[s])) /\ UNCHANGED <<full, counted>>
      BY <1>6, <2>2, <3>1, NoCounts DEF Delivers, Entries
    <3>3. TalliedBy(inbox', InHand, kernel_lost, events_lost, counted, restarted)
      BY <1>1, <3>2, TallyAppend DEF Tallied
    <3> QED BY <1>2, <2>1, <3>2, <3>3 DEF Tallied
  <2>3. CASE ~(Len(inbox) < Queued)
    <3>1. full' = TRUE /\ counted' = counted + 1 /\ inbox' = inbox
      BY <1>6, <2>3 DEF Delivers
    <3>2. InHand = outlost + lost + (dropped - dropped_seen) + 0
      BY <2>1 DEF InHand
    <3>3. InHand' = outlost + lost + (dropped - dropped_seen) + 1
      BY <2>1, <3>1 DEF InHand
    <3>4. InHand' = InHand + 1
      BY <1>1, <3>2, <3>3
    <3>5. TalliedBy(inbox, InHand + 1, kernel_lost, events_lost, counted + 1, restarted)
      BY <1>1, TallyCount DEF Tallied
    <3> QED BY <2>1, <3>1, <3>4, <3>5 DEF Tallied
  <2> QED BY <2>2, <2>3
<1>7. ASSUME NEW s \in Sessions, KernelDrops(s) PROVE Tallied'
  <2>1. UNCHANGED <<inbox, full, dropped, dropped_seen, lost, outlost, kernel_lost, restarted>>
    BY <1>7 DEF KernelDrops, thread
  <2>2. CASE Counted(Head(underway[s]).kind)
    <3>1. events_lost' = events_lost + 1 /\ counted' = counted + 1
      BY <1>7, <2>2 DEF KernelDrops
    <3>2. TalliedBy(inbox, InHand, kernel_lost, events_lost + 1, counted + 1, restarted)
      BY <1>1, TallyDrop DEF Tallied
    <3> QED BY <1>2, <2>1, <3>1, <3>2 DEF Tallied
  <2>3. CASE ~Counted(Head(underway[s]).kind)
    <3>1. UNCHANGED <<events_lost, counted>>
      BY <1>7, <2>3 DEF KernelDrops
    <3> QED BY <1>3, <2>1, <3>1
  <2> QED BY <2>2, <2>3
<1>8. CASE TellsHealth
  <2>1. /\ inbox' = Append(inbox, Total(events_lost))
        /\ UNCHANGED <<full, dropped, dropped_seen, lost, outlost, kernel_lost, events_lost, counted, restarted>>
    BY <1>8 DEF TellsHealth, thread, ghosts
  <2>2. Total(events_lost) \in Entries /\ Total(events_lost).total = events_lost
    BY <1>1 DEF Total, Entries, Losses
  <2>3. TalliedBy(inbox', InHand, kernel_lost, events_lost, counted, restarted)
    BY <1>1, <2>1, <2>2, TallyAppend DEF Tallied
  <2> QED BY <1>2, <2>1, <2>3 DEF Tallied
<1>9. CASE Restarts
  <2>1. /\ events_lost' = 0 /\ restarted' = TRUE /\ restarted = FALSE
        /\ UNCHANGED <<inbox, full, dropped, dropped_seen, lost, outlost, kernel_lost, counted>>
    BY <1>9 DEF Restarts, Typed, TypedCounts, thread
  <2>2. TalliedBy(inbox, InHand, kernel_lost, 0, counted, TRUE)
    BY <1>1, <2>1, TallyRestart DEF Tallied
  <2> QED BY <1>2, <2>1, <2>2 DEF Tallied
<1>10. CASE Receives
  <2>1. /\ inbox # <<>> /\ inbox' = Tail(inbox) /\ Takes(Head(inbox))
        /\ UNCHANGED <<full, dropped, dropped_seen, outlost, events_lost, counted, restarted>>
    BY <1>10 DEF Receives, ghosts
  <2>2. PICK e \in Entries : e = Head(inbox) /\ (e \in Losses <=> e.kind = "kernel_lost")
    BY <1>1, <2>1, NoCounts DEF Entries, Losses
  <2>3. CASE e \in Losses
    <3>1. PICK total \in Nat : total = e.total
      BY <2>3 DEF Losses
    <3>2. /\ lost' = lost + (IF total < kernel_lost THEN total ELSE total - kernel_lost)
          /\ kernel_lost' = total
      BY <2>1, <2>2, <2>3, <3>1 DEF Takes, NewlyLost
    <3>3. TalliedBy(inbox', InHand + (IF total < kernel_lost THEN total ELSE total - kernel_lost),
                    total, events_lost, counted, restarted)
      BY <1>1, <2>1, <2>2, <2>3, <3>1, TallyTakesTotal DEF Tallied
    <3>4. PICK gain \in Nat : gain = IF total < kernel_lost THEN total ELSE total - kernel_lost
      <4>1. (IF total < kernel_lost THEN total ELSE total - kernel_lost) \in Nat
        BY <1>1
      <4> QED BY <4>1
    <3>5. PICK more \in Nat : more = IF full THEN 1 ELSE 0
      <4>1. (IF full THEN 1 ELSE 0) \in Nat
        OBVIOUS
      <4> QED BY <4>1
    <3>6. InHand = outlost + lost + (dropped - dropped_seen) + more
      BY <3>5 DEF InHand
    <3>7. InHand' = outlost + (lost + gain) + (dropped - dropped_seen) + more
      BY <2>1, <3>2, <3>4, <3>5 DEF InHand
    <3>8. InHand' = InHand + gain
      BY <1>1, <3>6, <3>7
    <3> QED BY <2>1, <3>2, <3>3, <3>4, <3>8 DEF Tallied
  <2>4. CASE e \notin Losses
    <3>1. UNCHANGED <<lost, kernel_lost>>
      BY <2>1, <2>2, <2>4 DEF Takes
    <3>2. TalliedBy(inbox', InHand, kernel_lost, events_lost, counted, restarted)
      BY <1>1, <2>1, <2>2, <2>4, TallyTakesEvent DEF Tallied
    <3> QED BY <1>2, <2>1, <3>1, <3>2 DEF Tallied
  <2> QED BY <2>3, <2>4
<1>11. CASE Counts
  <2>1. /\ lost' = lost + (dropped - dropped_seen) /\ dropped_seen' = dropped
        /\ UNCHANGED <<inbox, full, dropped, outlost, kernel_lost, events_lost, counted, restarted>>
    BY <1>11 DEF Counts, Seen, intake, ghosts
  <2>2. InHand' = InHand
    <3>1. PICK more \in Nat : more = IF full THEN 1 ELSE 0
      <4>1. (IF full THEN 1 ELSE 0) \in Nat
        OBVIOUS
      <4> QED BY <4>1
    <3>2. InHand = outlost + lost + (dropped - dropped_seen) + more
      BY <3>1 DEF InHand
    <3>3. InHand' = outlost + (lost + (dropped - dropped_seen)) + (dropped - dropped) + more
      BY <2>1, <3>1 DEF InHand
    <3> QED BY <1>1, <3>2, <3>3
  <2> QED BY <2>1, <2>2 DEF Tallied
<1>12. CASE Releases \/ Finishes
  <2>1. /\ lost' = 0 /\ outlost' = outlost + lost
        /\ UNCHANGED <<inbox, full, dropped, dropped_seen, kernel_lost, events_lost, counted, restarted>>
    BY <1>12 DEF Releases, Finishes, Lets, intake
  <2>2. InHand' = InHand
    <3>1. PICK more \in Nat : more = IF full THEN 1 ELSE 0
      <4>1. (IF full THEN 1 ELSE 0) \in Nat
        OBVIOUS
      <4> QED BY <4>1
    <3>2. InHand = outlost + lost + (dropped - dropped_seen) + more
      BY <3>1 DEF InHand
    <3>3. InHand' = (outlost + lost) + 0 + (dropped - dropped_seen) + more
      BY <2>1, <3>1 DEF InHand
    <3> QED BY <1>1, <3>2, <3>3
  <2> QED BY <2>1, <2>2 DEF Tallied
<1> QED
  BY <1>4, <1>5, <1>6, <1>7, <1>8, <1>9, <1>10, <1>11, <1>12
  DEF Next, Machine, Intake, Thread

LEMMA InitTallied == ASSUME Init PROVE Tallied
<1>1. /\ inbox = <<>> /\ full = FALSE /\ dropped = 0 /\ events_lost = 0 /\ kernel_lost = 0
      /\ dropped_seen = 0 /\ lost = 0 /\ outlost = 0 /\ counted = 0
  BY DEF Init
<1>2. InHand = 0
  <2>1. InHand = 0 + 0 + (0 - 0) + 0
    BY <1>1 DEF InHand
  <2> QED BY <2>1
<1>3. AsOne(inbox, kernel_lost, events_lost)
  BY <1>1 DEF AsOne, TotalsRise
<1> QED BY <1>1, <1>2, <1>3 DEF Tallied, TalliedBy

\* As the thread waits or is done it has told all it took.
Handed == pc \in {"wait", "closed"} => lost = 0
LEMMA HandedAlways == Spec => []Handed
<1>1. Init => Handed
  BY DEF Init, Handed
<1>2. Handed /\ [Next]_vars => Handed'
  BY DEF Handed, Next, Machine, Intake, Thread, TimePasses, Starts, Ends, Delivers, KernelDrops,
     CountsDropped, TellsHealth, Restarts, Stops, Receives, Counts, Releases, Finishes, vars, thread
<1> QED BY <1>1, <1>2, PTL DEF Spec

\* What is in hand is never more than there is.
LEMMA TalliedCounted == ASSUME Typed, Tallied, Handed PROVE LossesCounted
<1>1. /\ InHand \in Nat /\ kernel_lost \in Nat /\ events_lost \in Nat /\ counted \in Nat
  BY HandNat DEF Typed, TypedCounts
<1>2. CASE /\ AsOne(inbox, kernel_lost, events_lost) /\ InHand + (events_lost - kernel_lost) <= counted
           /\ ~restarted => InHand + (events_lost - kernel_lost) = counted
  <2>1. kernel_lost <= events_lost
    BY <1>2 DEF AsOne, TotalsRise
  <2>2. InHand <= counted
    BY <1>1, <1>2, <2>1
  <2> QED BY <1>2, <2>2 DEF LossesCounted, Handed
<1>3. ASSUME restarted, NEW cut, NEW last \in Nat, AsTwo(inbox, kernel_lost, events_lost, cut, last),
             InHand + (last - kernel_lost) + events_lost <= counted
      PROVE  LossesCounted
  <2>1. kernel_lost <= last
    BY <1>3 DEF AsTwo, TotalsRise
  <2>2. InHand <= counted
    BY <1>1, <1>3, <2>1
  <2> QED BY <1>3, <2>2 DEF LossesCounted, Handed
<1> QED BY <1>2, <1>3 DEF Tallied, TalliedBy

-----------------------------------------------------------------------------
(***************************************************************************)
(* Each half reaches the start it is of.                                   *)
(***************************************************************************)
\* Of a pid nothing was lost of, no process misses anything.
LEMMA WholePid ==
  ASSUME Flow, NEW n \in Processes, Whole(n), NEW m \in Processes, born[m].pid = born[n].pid
  PROVE  /\ Whole(m)
         /\ \A k : <<k, m>> \notin missing
<1>1. \A k : <<k, m>>[2] = m
  OBVIOUS
<1>2. \A x \in missing : born[x[2]].pid # born[n].pid
  BY DEF Whole, Lossless
<1>3. \A k : <<k, m>> \notin missing
  BY <1>1, <1>2
<1> QED BY <1>2, <1>3 DEF Whole, Lossless

\* What nothing is lost of has lost nothing before, and one that is alone
\* always was.
LEMMA WholeBefore ==
  ASSUME Flow, BornGrows, missing \subseteq missing', NEW n \in Processes
  PROVE  /\ Whole(n)' => Whole(n)
         /\ Alone(n)' => Alone(n)
<1>1. /\ \A m \in Processes : /\ m \in Processes' /\ born'[m].pid = born[m].pid
                              /\ born'[m].time = born[m].time
  BY DEF BornGrows
<1>2. ASSUME Whole(n)' PROVE Whole(n)
  <2>1. ASSUME NEW x \in missing PROVE born[x[2]].pid # born[n].pid
    <3>1. x \in Said
      BY DEF Flow, Lines
    <3>2. x[2] \in Processes
      BY <3>1 DEF Said, SaidOf, Processes
    <3>3. born'[x[2]].pid # born'[n].pid
      BY <1>2 DEF Whole, Lossless
    <3> QED BY <1>1, <3>2, <3>3
  <2> QED BY <2>1 DEF Whole, Lossless
<1>3. ASSUME Alone(n)' PROVE Alone(n)
  BY <1>1, <1>3 DEF Alone
<1> QED BY <1>2, <1>3

\* A start that keeps its command line, and halves that are as they were.
LEMMA PairedStays ==
  ASSUME NEW n, Paired(n),
         HalfIn(asm'.launched, n) <=> HalfIn(asm.launched, n),
         \A s \in asm'.starts : s.seq = n => \E r \in asm.starts : r.seq = n /\ r.launched = s.launched,
         out'[n].start = out[n].start,
         Going(<<"created", n>>)' <=> Going(<<"created", n>>),
         Going(<<"launched", n>>)' <=> Going(<<"launched", n>>)
  PROVE  Paired(n)'
<1>1. HalfIn(asm.launched, n)' <=> Going(<<"created", n>>)' /\ ~Going(<<"launched", n>>)'
  BY DEF Paired, HalfIn
<1>2. ASSUME NEW s \in asm'.starts, s.seq = n
      PROVE  IF Going(<<"launched", n>>)' THEN s.launched = None
             ELSE s.launched # None /\ s.launched.of = n
  BY <1>2 DEF Paired
<1>3. out'[n].start # None => out'[n].start.launched = n /\ ~Going(<<"launched", n>>)'
  BY DEF Paired
<1> QED BY <1>1, <1>2, <1>3 DEF Paired

LEMMA TaskedStays ==
  ASSUME NEW n, Tasked(n),
         HalfIn(asm'.scheduled, n) <=> HalfIn(asm.scheduled, n),
         \A s \in asm'.starts : s.seq = n => \E r \in asm.starts : r.seq = n /\ r.task = s.task,
         out'[n].start = out[n].start, born'[n].task = born[n].task,
         Going(<<"created", n>>)' <=> Going(<<"created", n>>),
         Going(<<"scheduled", n>>)' <=> Going(<<"scheduled", n>>)
  PROVE  Tasked(n)'
<1>1. CASE born[n].task
  <2>1. HalfIn(asm.scheduled, n)' <=> Going(<<"created", n>>)' /\ ~Going(<<"scheduled", n>>)'
    BY <1>1 DEF Tasked, HalfIn
  <2>2. ASSUME NEW s \in asm'.starts, s.seq = n
        PROVE  IF Going(<<"scheduled", n>>)' THEN s.task = None
               ELSE s.task # None /\ s.task.of = n
    BY <1>1, <2>2 DEF Tasked
  <2>3. out'[n].start # None => out'[n].start.task = n /\ ~Going(<<"scheduled", n>>)'
    BY <1>1 DEF Tasked
  <2> QED BY <1>1, <2>1, <2>2, <2>3 DEF Tasked
<1>2. CASE ~born[n].task
  BY <1>2 DEF Tasked
<1> QED BY <1>1, <1>2

\* Steps in which the assembler has no part and that let nothing out.
LEMMA HalvesStay ==
  ASSUME Flow, Halves, BornGrows, missing \subseteq missing', asm' = asm, out' = out,
         NEW n \in Processes, Whole(n)',
         \A k \in {"created", "launched", "scheduled"} : Going(<<k, n>>)' <=> Going(<<k, n>>)
  PROVE  Paired(n)' /\ (Alone(n)' => Tasked(n)')
<1>1. Whole(n) /\ (Alone(n)' => Alone(n)) /\ born'[n].task = born[n].task
  BY WholeBefore DEF BornGrows
<1>2. Paired(n) /\ (Alone(n) => Tasked(n))
  BY <1>1 DEF Halves, Launches, Tasks
<1>3. /\ Going(<<"created", n>>)' <=> Going(<<"created", n>>)
      /\ Going(<<"launched", n>>)' <=> Going(<<"launched", n>>)
      /\ Going(<<"scheduled", n>>)' <=> Going(<<"scheduled", n>>)
  OBVIOUS
<1>4. /\ HalfIn(asm'.launched, n) <=> HalfIn(asm.launched, n)
      /\ HalfIn(asm'.scheduled, n) <=> HalfIn(asm.scheduled, n)
      /\ \A s \in asm'.starts : s.seq = n =>
           \E r \in asm.starts : r.seq = n /\ r.launched = s.launched /\ r.task = s.task
      /\ out'[n].start = out[n].start
  OBVIOUS
<1>5. Paired(n)'
  BY <1>2, <1>3, <1>4, PairedStays
<1>6. Tasked(n) => Tasked(n)'
  BY <1>1, <1>3, <1>4, TaskedStays
<1> QED BY <1>1, <1>2, <1>5, <1>6

LEMMA QuietHalves ==
  ASSUME Flow, Halves, Quiet
  PROVE  Halves'
<1>1. born' = born /\ asm' = asm /\ out' = out /\ missing \subseteq missing' /\ Processes' = Processes
  BY DEF Quiet, Processes
<1>2. /\ \A name : Going(name)' => Going(name)
      /\ \A name : Going(name) /\ ~Going(name)' => name \in missing'
  BY DEF Quiet
<1>3. ASSUME NEW n \in Processes, Whole(n)'
      PROVE  Paired(n)' /\ (Alone(n)' => Tasked(n)')
  <2>1. \A k : <<k, n>> \notin missing'
    <3>1. \A x \in missing' : born'[x[2]].pid # born'[n].pid
      BY <1>3 DEF Whole, Lossless
    <3>2. \A k : <<k, n>>[2] = n
      OBVIOUS
    <3> QED BY <3>1, <3>2
  <2>2. \A k \in {"created", "launched", "scheduled"} : Going(<<k, n>>)' <=> Going(<<k, n>>)
    BY <1>2, <2>1
  <2> QED BY <1>1, <1>3, <2>2, BornStays, HalvesStay
<1>4. Launches'
  BY <1>1, <1>2, <1>3 DEF Halves, Launches
<1>5. Tasks'
  BY <1>1, <1>2, <1>3 DEF Halves, Tasks
<1> QED BY <1>4, <1>5 DEF Halves

LEMMA StartsHalves ==
  ASSUME Flow, Places, Halves, NEW pid \in Pids, NEW by \in BOOLEAN, NEW task \in BOOLEAN,
         NEW l \in now..(now + Skew), NEW t \in now..(now + Skew), Starts(pid, by, task, l, t)
  PROVE  Halves'
<1>1. /\ UNCHANGED <<asm, out, missing>> /\ BornGrows
      /\ Processes' = Processes \cup {Next1} /\ Next1 \notin Processes /\ Next1 \in Nat /\ Next1 <= MaxBorn
      /\ born'[Next1].task = task
  <2>1. born'[Next1] = [pid |-> pid, time |-> now, task |-> task, ended |-> FALSE]
    BY StartsBorn
  <2> QED BY <2>1, StartsBorn DEF thread, ghosts
<1>2. \A name : Going(name)' <=> Going(name) \/ name \in FreshNames(task)
  BY StartsFlow
<1>3. /\ \A h \in asm.launched \cup asm.scheduled : h.of \in Processes
      /\ \A s \in asm.starts : s.seq \in Processes
  <2>1. \A h \in asm.launched \cup asm.scheduled : h \in Raws /\ h.kind \in {"launched", "scheduled"}
    BY AsmShape, KindsRaws DEF Flow
  <2>2. \A h \in asm.launched \cup asm.scheduled : Of(h) = h.of
    BY <2>1, RawShape
  <2> QED BY <2>2 DEF Flow, Truths, AsmTrue, Faithful, FaithfulStart
<1>4. \A n \in Processes : \A k \in {"created", "launched", "scheduled"} :
        Going(<<k, n>>)' <=> Going(<<k, n>>)
  <2>1. \A n \in Processes : \A k : <<k, n>> \notin FreshNames(task)
    BY <1>1 DEF FreshNames
  <2> QED BY <1>2, <2>1
<1>5. ASSUME NEW n \in Processes', Whole(n)'
      PROVE  Paired(n)' /\ (Alone(n)' => Tasked(n)')
  <2>1. CASE n \in Processes
    BY <1>1, <1>4, <1>5, <2>1, HalvesStay
  <2>2. CASE n = Next1
    <3>1. /\ ~HalfIn(asm'.launched, n) /\ ~HalfIn(asm'.scheduled, n)
          /\ \A s \in asm'.starts : s.seq # n
      BY <1>1, <1>3, <2>2 DEF HalfIn
    <3>2. out'[n].start = None
      BY <1>1, <2>2, IntakeAssumption DEF Places, Next1, Processes
    <3>3. Going(<<"launched", n>>)' /\ (task => Going(<<"scheduled", n>>)')
      BY <1>2, <2>2 DEF FreshNames
    <3>4. Paired(n)'
      BY <3>1, <3>2, <3>3 DEF Paired
    <3>5. Tasked(n)'
      BY <1>1, <2>2, <3>1, <3>2, <3>3 DEF Tasked
    <3> QED BY <3>4, <3>5
  <2> QED BY <1>1, <2>1, <2>2
<1>6. \A h \in asm'.launched : ~Going(<<"launched", h.of>>)'
  BY <1>1, <1>3, <1>4 DEF Halves, Launches
<1>7. \A h \in asm'.scheduled : ~Going(<<"scheduled", h.of>>)'
  BY <1>1, <1>3, <1>4 DEF Halves, Tasks
<1>8. Launches'
  BY <1>1, <1>5, <1>6 DEF Halves, Launches
<1>9. Tasks'
  BY <1>1, <1>5, <1>7 DEF Halves, Tasks
<1> QED BY <1>8, <1>9 DEF Halves

LEMMA EndsHalves ==
  ASSUME Flow, Halves, NEW seq \in Processes, NEW dated \in BOOLEAN, Ends(seq, dated)
  PROVE  Halves'
<1>1. /\ UNCHANGED <<asm, out, missing>> /\ BornGrows /\ Processes' = Processes
      /\ \A name : Going(name)' <=> Going(name) \/ name = <<"ended", seq>>
  BY EndsFlow DEF thread, ghosts
<1>2. \A k \in {"created", "launched", "scheduled"} : \A n : Going(<<k, n>>)' <=> Going(<<k, n>>)
  BY <1>1
<1>3. ASSUME NEW n \in Processes, Whole(n)'
      PROVE  Paired(n)' /\ (Alone(n)' => Tasked(n)')
  BY <1>1, <1>2, <1>3, HalvesStay
<1>4. Launches'
  BY <1>1, <1>2, <1>3 DEF Halves, Launches
<1>5. Tasks'
  BY <1>1, <1>2, <1>3 DEF Halves, Tasks
<1> QED BY <1>4, <1>5 DEF Halves

-----------------------------------------------------------------------------
(***************************************************************************)
(* Which half is nearest to a start, and which start to a half.            *)
(***************************************************************************)
\* Births of a pid are so far apart that what is told of one is nearer to it
\* than to any other.
LEMMA TellsApart ==
  ASSUME Flow, NEW n \in Processes, NEW m \in Processes, m # n, born[m].pid = born[n].pid,
         NEW x \in Nat, born[n].time <= x, x <= born[n].time + Skew,
         NEW y \in Nat, born[m].time <= y, y <= born[m].time + Skew
  PROVE  /\ Apart(x, born[n].time) <= Skew /\ Apart(born[n].time, x) <= Skew
         /\ Apart(y, born[n].time) > Skew /\ Apart(born[m].time, x) > Skew
<1>1. Skew \in Nat /\ MinLife \in Nat /\ 2 * Skew < MinLife
  BY IntakeAssumption, DelaysAssumption
<1>2. PICK a \in Nat, b \in Nat : a = born[n].time /\ b = born[m].time
  BY BornShape DEF Flow
<1>3. a + MinLife <= b \/ b + MinLife <= a
  <2>1. m < n \/ n < m
    BY BornShape DEF Flow
  <2> QED BY <1>2, <2>1 DEF Flow, Truths, Births
<1>4. a <= x /\ x <= a + Skew /\ b <= y /\ y <= b + Skew
  BY <1>2
<1>5. Apart(x, a) <= Skew /\ Apart(a, x) <= Skew
  BY <1>1, <1>2, <1>4 DEF Apart
<1>6. Apart(y, a) > Skew /\ Apart(b, x) > Skew
  BY <1>1, <1>2, <1>3, <1>4 DEF Apart
<1> QED BY <1>2, <1>5, <1>6

\* What a half says.
LEMMA HalfTrue ==
  ASSUME Flow, NEW kind \in {"launched", "scheduled"}, NEW h \in HalfRaws(kind), Faithful(h)
  PROVE  /\ h.of \in Processes /\ h.pid = born[h.of].pid /\ h.time \in Nat /\ h.kind = kind /\ h # None
         /\ born[h.of].time <= h.time /\ h.time <= born[h.of].time + Skew
         /\ kind = "scheduled" => born[h.of].task
         /\ Name(h) = <<kind, h.of>>
<1>1. h \in Raws /\ h.kind = kind
  BY KindsRaws
<1>2. /\ ~Counted(h.kind) /\ Of(h) = h.of /\ h.time \in Nat /\ h # None
      /\ Name(h) = <<h.kind, Of(h)>>
  BY <1>1, RawShape
<1> QED BY <1>1, <1>2 DEF Faithful

\* The halves that wait, and the starts.
LEMMA WaitTrue ==
  ASSUME Flow
  PROVE  /\ \A h \in asm.launched : h \in HalfRaws("launched") /\ Faithful(h)
         /\ \A h \in asm.scheduled : h \in HalfRaws("scheduled") /\ Faithful(h)
BY AsmShape DEF Flow, Truths, AsmTrue

\* A start takes its own half where that waits.
TrueHalves(kind, halves) == \A h \in halves : h \in HalfRaws(kind) /\ Faithful(h)
LEMMA OwnHalf ==
  ASSUME Flow, NEW kind \in {"launched", "scheduled"}, NEW halves, TrueHalves(kind, halves),
         OneEach(halves), NEW n \in Processes, NEW h \in halves, h.of = n
  PROVE  OrNone(NearestOf(halves, born[n].pid, born[n].time)) = {h}
<1>1. /\ Skew \in Nat /\ PairedWithin \in Nat /\ Skew <= PairedWithin
  BY IntakeAssumption, DelaysAssumption, TimesAssumption
<1>2. \A g \in halves : /\ g.of \in Processes /\ g.pid = born[g.of].pid /\ g.time \in Nat
                        /\ born[g.of].time <= g.time /\ g.time <= born[g.of].time + Skew
  BY HalfTrue DEF TrueHalves
<1>3. Apart(h.time, born[n].time) <= Skew
  <2>1. h.time \in Nat /\ born[n].time \in Nat /\ born[n].time <= h.time /\ h.time <= born[n].time + Skew
    BY <1>2, BornShape DEF Flow
  <2> QED BY <1>1, <2>1 DEF Apart
<1>4. ASSUME NEW g \in halves, g.pid = born[n].pid, g # h
      PROVE  Apart(g.time, born[n].time) > Skew
  <2>1. g.of \in Processes /\ g.of # n /\ born[g.of].pid = born[n].pid
    BY <1>2, <1>4 DEF OneEach
  <2> QED BY <1>2, <2>1, TellsApart
<1>5. Apart(h.time, born[n].time) \in Nat /\ \A g \in halves : Apart(g.time, born[n].time) \in Nat
  BY <1>2, BornShape DEF Apart, Flow
<1>6. h \in AnyOf(halves, born[n].pid, born[n].time)
  BY <1>1, <1>2, <1>3, <1>5 DEF AnyOf, Near
<1>7. h \in NearestOf(halves, born[n].pid, born[n].time)
  <2>1. ASSUME NEW g \in AnyOf(halves, born[n].pid, born[n].time)
        PROVE  Apart(h.time, born[n].time) <= Apart(g.time, born[n].time)
    <3>1. g \in halves /\ g.pid = born[n].pid
      BY DEF AnyOf
    <3>2. g = h \/ Apart(g.time, born[n].time) > Skew
      BY <1>4, <3>1
    <3> QED BY <1>1, <1>3, <1>5, <3>1, <3>2
  <2> QED BY <1>6, <2>1 DEF NearestOf
<1>8. ASSUME NEW g \in NearestOf(halves, born[n].pid, born[n].time) PROVE g = h
  <2>1. /\ g \in halves /\ g.pid = born[n].pid
        /\ Apart(g.time, born[n].time) <= Apart(h.time, born[n].time)
    BY <1>6 DEF NearestOf, AnyOf
  <2> QED BY <1>1, <1>3, <1>4, <1>5, <2>1
<1> QED BY <1>7, <1>8 DEF OrNone

\* A half goes to its own start where that has none.
LEMMA OwnStart ==
  ASSUME Flow, OneStart, NEW kind \in {"launched", "scheduled"}, NEW e \in HalfRaws(kind), Faithful(e),
         NEW free \in SUBSET asm.starts, NEW s \in free, s.seq = e.of
  PROVE  NearestOf(free, e.pid, e.time) = {s}
<1>1. /\ Skew \in Nat /\ PairedWithin \in Nat /\ Skew <= PairedWithin
  BY IntakeAssumption, DelaysAssumption, TimesAssumption
<1>2. \A f \in free : /\ f.seq \in Processes /\ f.pid = born[f.seq].pid /\ f.time = born[f.seq].time
                      /\ f.time \in Nat
  <2>1. \A f \in free : FaithfulStart(f)
    BY DEF Flow, Truths, AsmTrue
  <2> QED BY <2>1, BornShape DEF Flow, FaithfulStart
<1>3. PICK n \in Processes : /\ n = e.of /\ e.pid = born[n].pid /\ e.time \in Nat
                             /\ born[n].time <= e.time /\ e.time <= born[n].time + Skew
  BY HalfTrue
<1>4. Apart(s.time, e.time) <= Skew
  <2>1. s.time = born[n].time /\ s.time \in Nat
    BY <1>2, <1>3
  <2> QED BY <1>1, <1>3, <2>1 DEF Apart
<1>5. ASSUME NEW f \in free, f.pid = e.pid, f # s
      PROVE  Apart(f.time, e.time) > Skew
  <2>1. f.seq \in Processes /\ f.seq # n /\ born[f.seq].pid = born[n].pid
    BY <1>2, <1>3, <1>5 DEF OneStart
  <2>2. born[f.seq].time \in Nat /\ born[f.seq].time <= born[f.seq].time
        /\ born[f.seq].time <= born[f.seq].time + Skew
    BY <1>1, <2>1, BornShape DEF Flow
  <2>3. Apart(born[f.seq].time, e.time) > Skew
    BY <1>3, <2>1, <2>2, TellsApart
  <2> QED BY <1>2, <2>3
<1>6. \A f \in free : Apart(f.time, e.time) \in Nat
  BY <1>2, <1>3 DEF Apart
<1>7. s \in AnyOf(free, e.pid, e.time)
  <2>1. Apart(s.time, e.time) \in Nat /\ s.pid = e.pid
    BY <1>2, <1>3, <1>6
  <2> QED BY <1>1, <1>4, <2>1 DEF AnyOf, Near
<1>8. s \in NearestOf(free, e.pid, e.time)
  <2>1. ASSUME NEW f \in AnyOf(free, e.pid, e.time)
        PROVE  Apart(s.time, e.time) <= Apart(f.time, e.time)
    <3>1. f \in free /\ f.pid = e.pid
      BY DEF AnyOf
    <3>2. f = s \/ Apart(f.time, e.time) > Skew
      BY <1>5, <3>1
    <3> QED BY <1>1, <1>4, <1>6, <3>1, <3>2
  <2> QED BY <1>7, <2>1 DEF NearestOf
<1>9. ASSUME NEW f \in NearestOf(free, e.pid, e.time) PROVE f = s
  <2>1. /\ f \in free /\ f.pid = e.pid /\ Apart(f.time, e.time) <= Apart(s.time, e.time)
    BY <1>7 DEF NearestOf, AnyOf
  <2> QED BY <1>1, <1>4, <1>5, <1>6, <2>1
<1> QED BY <1>8, <1>9

\* What is near one of another process, is near that process.
LEMMA NearOthers ==
  ASSUME Flow, NEW n \in Processes, NEW m \in Processes, m # n, born[m].pid = born[n].pid,
         NEW x \in Nat, born[n].time <= x, x <= born[n].time + Skew, Near(born[m].time, x) \/ Near(x, born[m].time)
  PROVE  ~Alone(n) /\ ~Alone(m)
<1>1. Skew \in Nat /\ PairedWithin \in Nat
  BY IntakeAssumption, TimesAssumption
<1>2. PICK a \in Nat, b \in Nat : a = born[n].time /\ b = born[m].time
  BY BornShape DEF Flow
<1>3. Apart(a, b) <= PairedWithin + Skew /\ Apart(b, a) <= PairedWithin + Skew
  BY <1>1, <1>2 DEF Near, Apart
<1>4. Apart(a, b) \in Nat /\ Apart(b, a) \in Nat
  BY <1>2 DEF Apart
<1> QED BY <1>1, <1>2, <1>3, <1>4 DEF Alone

\* What the order of the sessions says of two processes, when the first of the
\* queue is taken.
LEMMA TakenFirst ==
  ASSUME Flow, Receives, NEW e, e = Head(inbox), e.kind # "kernel_lost",
         NEW k \in {"created", "launched"}, NEW n \in Processes, Name(e) = <<k, n>>,
         NEW m \in Processes, Going(<<k, m>>)
  PROVE  n <= m
<1>1. m \in Nat /\ n \in Nat
  BY BornShape DEF Flow
<1>2. ASSUME m < n PROVE FALSE
  <2>1. <<k, m>> # <<k, n>>
    BY <1>1, <1>2
  <2>2. Going(<<k, m>>)'
    BY <2>1, ReceivesFlow
  <2>3. Ahead(<<k, m>>, <<k, n>>)
    BY <1>2 DEF Ahead
  <2> QED BY <2>2, <2>3, ReceivesFlow
<1> QED BY <1>1, <1>2

LEMMA GoingOn ==
  ASSUME Flow, NEW k \in {"created", "launched"}, NEW n \in Processes, Going(<<k, n>>),
         NEW m \in Processes, n < m, <<k, m>> \notin missing
  PROVE  Going(<<k, m>>)
<1>1. <<k, n>> \in Said /\ <<k, m>> \in Said
  BY SaidHas DEF Said, Processes
<1>2. Ahead(<<k, n>>, <<k, m>>)
  BY DEF Ahead
<1> QED BY <1>1, <1>2 DEF Flow, Lines

\* A start whose command line does not wait takes none.
LEMMA NoneToTake ==
  ASSUME Flow, Launches, Receives, NEW e, e = Head(inbox), e.kind = "created",
         NEW n \in Processes, Name(e) = <<"created", n>>, Whole(n), ~HalfIn(asm.launched, n)
  PROVE  NearestOf(asm.launched, born[n].pid, born[n].time) = {}
<1>1. Going(<<"created", n>>)
  BY ReceivesFlow
<1>2. Going(<<"launched", n>>)
  BY <1>1 DEF Launches, Paired
<1>3. ASSUME NEW g \in asm.launched, g.pid = born[n].pid PROVE FALSE
  <2>1. PICK m \in Processes : m = g.of /\ born[m].pid = born[n].pid
    BY <1>3, WaitTrue, HalfTrue
  <2>2. m # n
    BY <1>3, <2>1 DEF HalfIn
  <2>3. Whole(m) /\ <<"launched", m>> \notin missing
    BY <2>1, WholePid
  <2>4. Going(<<"created", m>>) /\ ~Going(<<"launched", m>>)
    BY <1>3, <2>1, <2>3 DEF Launches, Paired, HalfIn
  <2>5. n <= m
    BY <2>4, TakenFirst
  <2>6. n < m
    BY <2>2, <2>5, BornShape DEF Flow
  <2> QED BY <1>2, <2>3, <2>4, <2>6, GoingOn
<1> QED BY <1>3 DEF NearestOf, AnyOf

\* A command line whose start is not pending yet goes to none.
LEMMA NoStartFree ==
  ASSUME Flow, Places, Launches, Receives, NEW e, e = Head(inbox), e.kind = "launched",
         NEW n \in Processes, Name(e) = <<"launched", n>>, e.pid = born[n].pid, Whole(n), ~Held(n)
  PROVE  /\ NearestOf({s \in asm.starts : s.launched = None}, e.pid, e.time) = {}
         /\ Going(<<"created", n>>)
<1>1. Going(<<"launched", n>>)
  BY ReceivesFlow
<1>2. Going(<<"created", n>>)
  <2>1. out[n].start = None
    BY <1>1 DEF Launches, Paired
  <2>2. <<"created", n>> \notin missing
    BY WholePid
  <2> QED BY <2>1, <2>2 DEF Places, One
<1>3. ASSUME NEW f \in asm.starts, f.launched = None, f.pid = e.pid PROVE FALSE
  <2>1. PICK m \in Processes : m = f.seq /\ born[m].pid = born[n].pid
    BY <1>3, PendingShape DEF FaithfulStart
  <2>2. m # n /\ Held(m)
    BY <1>3, <2>1 DEF Held
  <2>3. Whole(m) /\ <<"created", m>> \notin missing
    BY <2>1, WholePid
  <2>4. Going(<<"launched", m>>)
    BY <1>3, <2>1, <2>3 DEF Launches, Paired
  <2>5. n <= m
    BY <2>4, TakenFirst
  <2>6. n < m
    BY <2>2, <2>5, BornShape DEF Flow
  <2>7. Going(<<"created", m>>)
    BY <1>2, <2>3, <2>6, GoingOn
  <2> QED BY <2>2, <2>7 DEF Places, One
<1> QED BY <1>2, <1>3 DEF NearestOf, AnyOf

\* A start is taken in: of a pid nothing was lost of, it has its command line
\* or that is still to come.
LEMMA CreatedLaunches ==
  ASSUME Flow, Places, Launches, Receives, NEW e, e = Head(inbox), e.kind = "created",
         NEW n \in Processes, Name(e) = <<"created", n>>, n = e.seq, e.pid = born[n].pid, e.time = born[n].time,
         NEW l \in OrNone(NearestOf(asm.launched, e.pid, e.time)), NEW t,
         asm'.starts = asm.starts \cup {Start(e, l, t)}, asm'.launched = asm.launched \ {l}
  PROVE  Launches'
<1>1. /\ born' = born /\ out' = out /\ missing' = missing /\ Processes' = Processes
      /\ Going(<<"created", n>>)
      /\ \A name : Going(name)' <=> Going(name) /\ name # <<"created", n>>
  BY ReceivesFlow DEF Processes
<1>2. /\ \A h \in asm.launched : /\ h \in HalfRaws("launched") /\ Faithful(h) /\ h # None
                                 /\ h.of \in Processes /\ h.pid = born[h.of].pid
      /\ asm.launched \in SUBSET HalfRaws("launched")
  BY WaitTrue, HalfTrue
<1>3. l # None => l \in asm.launched /\ l.pid = born[n].pid
  BY DEF OrNone, NearestOf, AnyOf
<1>4. ASSUME Whole(n), NEW h \in asm.launched, h.of = n PROVE l = h
  <2>1. TrueHalves("launched", asm.launched) /\ OneEach(asm.launched)
    BY <1>2 DEF TrueHalves, Launches
  <2>2. OrNone(NearestOf(asm.launched, born[n].pid, born[n].time)) = {h}
    BY <1>4, <2>1, OwnHalf
  <2> QED BY <2>2
<1>5. ASSUME Whole(n), ~HalfIn(asm.launched, n) PROVE l = None
  <2>1. NearestOf(asm.launched, born[n].pid, born[n].time) = {}
    BY <1>5, NoneToTake
  <2> QED BY <2>1 DEF OrNone
<1>6. Start(e, l, t).seq = n /\ Start(e, l, t).launched = l
  BY DEF Start
<1>7. ~Held(n) /\ out[n].start = None
  BY <1>1 DEF Places, One
<1>8. ASSUME NEW m \in Processes, Whole(m)' PROVE Paired(m)'
  <2>1. Whole(m) /\ Paired(m)
    BY <1>1, <1>8 DEF Launches, Whole, Lossless
  <2>2. CASE m = n
    <3>1. ~HalfIn(asm'.launched, n)
      BY <1>4, <2>1, <2>2 DEF HalfIn
    <3>2. ~Going(<<"created", n>>)' /\ (Going(<<"launched", n>>)' <=> Going(<<"launched", n>>))
      BY <1>1
    <3>3. ASSUME NEW s \in asm'.starts, s.seq = n
          PROVE  IF Going(<<"launched", n>>)' THEN s.launched = None
                 ELSE s.launched # None /\ s.launched.of = n
      <4>1. s.launched = l
        BY <1>6, <1>7, <3>3 DEF Held
      <4>2. CASE HalfIn(asm.launched, n)
        <5>1. PICK h \in asm.launched : h.of = n
          BY <4>2 DEF HalfIn
        <5>2. l = h /\ l # None /\ l.of = n
          BY <1>2, <1>4, <2>1, <2>2, <5>1
        <5>3. ~Going(<<"launched", n>>)'
          BY <2>1, <2>2, <3>2, <4>2 DEF Paired
        <5> QED BY <4>1, <5>2, <5>3
      <4>3. CASE ~HalfIn(asm.launched, n)
        <5>1. l = None
          BY <1>5, <2>1, <2>2, <4>3
        <5>2. Going(<<"launched", n>>)'
          BY <1>1, <2>1, <2>2, <3>2, <4>3 DEF Paired
        <5> QED BY <4>1, <5>1, <5>2
      <4> QED BY <4>2, <4>3
    <3>4. out'[n].start = None
      BY <1>1, <1>7
    <3> QED BY <2>2, <3>1, <3>2, <3>3, <3>4 DEF Paired, HalfIn
  <2>3. CASE m # n
    <3>1. ASSUME l # None PROVE l.of # m
      <4>1. ASSUME l.of = m PROVE FALSE
        <5>1. born[m].pid = born[n].pid
          BY <1>2, <1>3, <3>1, <4>1
        <5>2. Whole(n)
          BY <2>1, <5>1, WholePid
        <5>3. HalfIn(asm.launched, n)
          BY <1>5, <3>1, <5>2
        <5>4. l.of = n
          BY <1>4, <5>2, <5>3 DEF HalfIn
        <5> QED BY <2>3, <4>1, <5>4
      <4> QED BY <4>1
    <3>2. HalfIn(asm'.launched, m) <=> HalfIn(asm.launched, m)
      BY <1>2, <3>1 DEF HalfIn
    <3>3. \A s \in asm'.starts : s.seq = m => \E r \in asm.starts : r.seq = m /\ r.launched = s.launched
      BY <1>6, <2>3
    <3>4. /\ Going(<<"created", m>>)' <=> Going(<<"created", m>>)
          /\ Going(<<"launched", m>>)' <=> Going(<<"launched", m>>)
      BY <1>1, <2>3
    <3>5. out'[m].start = out[m].start
      BY <1>1
    <3> QED BY <2>1, <3>2, <3>3, <3>4, <3>5, PairedStays
  <2> QED BY <2>2, <2>3
<1>9. /\ OneEach(asm'.launched)
      /\ \A h \in asm'.launched : ~Going(<<"launched", h.of>>)'
  BY <1>1 DEF Launches, OneEach
<1> QED BY <1>1, <1>8, <1>9 DEF Launches

\* A half is given to a start.
LaunchGiven(starts, after, s, half, given) ==
  /\ s \in starts /\ after = (starts \ {s}) \cup {given}
  /\ given.launched = half /\ given.seq = s.seq /\ given.task = s.task
TaskGiven(starts, after, s, half, given) ==
  /\ s \in starts /\ after = (starts \ {s}) \cup {given}
  /\ given.task = half /\ given.seq = s.seq /\ given.launched = s.launched

LEMMA LaunchedGiven ==
  ASSUME NEW a \in AsmType, NEW raw \in HalfRaws("launched"), NEW b \in Added(a, raw),
         NEW free, free = {s \in a.starts : s.launched = None}
  PROVE  /\ b.scheduled = a.scheduled
         /\ \/ NearestOf(free, raw.pid, raw.time) = {} /\ b.launched = a.launched \cup {raw} /\ b.starts = a.starts
            \/ /\ b.launched = a.launched
               /\ \E s \in NearestOf(free, raw.pid, raw.time) : \E given : LaunchGiven(a.starts, b.starts, s, raw, given)
<1>1. b \in AddLaunched(a, raw)
  BY KindsRaws DEF Added
<1>2. CASE NearestOf(free, raw.pid, raw.time) = {}
  <2>1. b = [a EXCEPT !.launched = @ \cup {raw}]
    BY <1>1, <1>2 DEF AddLaunched
  <2> QED BY <1>2, <2>1 DEF AsmType
<1>3. CASE NearestOf(free, raw.pid, raw.time) # {}
  <2>1. PICK s \in NearestOf(free, raw.pid, raw.time) :
          b = [a EXCEPT !.starts = (@ \ {s}) \cup {[s EXCEPT !.launched = raw]}]
    BY <1>1, <1>3 DEF AddLaunched
  <2>2. s \in a.starts /\ s \in StartType
    BY DEF NearestOf, AnyOf, AsmType
  <2>3. PICK given : given = [s EXCEPT !.launched = raw]
    OBVIOUS
  <2>4. given.launched = raw /\ given.seq = s.seq /\ given.task = s.task
    BY <2>2, <2>3 DEF StartType
  <2>5. b = [a EXCEPT !.starts = (@ \ {s}) \cup {given}]
    BY <2>1, <2>3
  <2>6. b.starts = (a.starts \ {s}) \cup {given} /\ b.launched = a.launched /\ b.scheduled = a.scheduled
    BY <2>5 DEF AsmType
  <2> QED BY <2>2, <2>4, <2>6 DEF LaunchGiven
<1> QED BY <1>2, <1>3

LEMMA ScheduledGiven ==
  ASSUME NEW a \in AsmType, NEW raw \in HalfRaws("scheduled"), NEW b \in Added(a, raw),
         NEW free, free = {s \in a.starts : s.task = None}
  PROVE  /\ b.launched = a.launched
         /\ \/ NearestOf(free, raw.pid, raw.time) = {} /\ b.scheduled = a.scheduled \cup {raw} /\ b.starts = a.starts
            \/ /\ b.scheduled = a.scheduled
               /\ \E s \in NearestOf(free, raw.pid, raw.time) : \E given : TaskGiven(a.starts, b.starts, s, raw, given)
<1>1. b \in AddScheduled(a, raw)
  BY KindsRaws DEF Added
<1>2. CASE NearestOf(free, raw.pid, raw.time) = {}
  <2>1. b = [a EXCEPT !.scheduled = @ \cup {raw}]
    BY <1>1, <1>2 DEF AddScheduled
  <2> QED BY <1>2, <2>1 DEF AsmType
<1>3. CASE NearestOf(free, raw.pid, raw.time) # {}
  <2>1. PICK s \in NearestOf(free, raw.pid, raw.time) :
          b = [a EXCEPT !.starts = (@ \ {s}) \cup {[s EXCEPT !.task = raw]}]
    BY <1>1, <1>3 DEF AddScheduled
  <2>2. s \in a.starts /\ s \in StartType
    BY DEF NearestOf, AnyOf, AsmType
  <2>3. PICK given : given = [s EXCEPT !.task = raw]
    OBVIOUS
  <2>4. given.task = raw /\ given.seq = s.seq /\ given.launched = s.launched
    BY <2>2, <2>3 DEF StartType
  <2>5. b = [a EXCEPT !.starts = (@ \ {s}) \cup {given}]
    BY <2>1, <2>3
  <2>6. b.starts = (a.starts \ {s}) \cup {given} /\ b.launched = a.launched /\ b.scheduled = a.scheduled
    BY <2>5 DEF AsmType
  <2> QED BY <2>2, <2>4, <2>6 DEF TaskGiven
<1> QED BY <1>2, <1>3

\* A command line goes to its own start, or waits for it.
LEMMA LaunchedLaunches ==
  ASSUME Flow, Places, Launches, Receives, NEW e, e = Head(inbox), e.kind = "launched",
         NEW n \in Processes, Name(e) = <<"launched", n>>, n = e.of, e.pid = born[n].pid
  PROVE  Launches'
<1> DEFINE free == {s \in asm.starts : s.launched = None}
<1>1. /\ born' = born /\ out' = out /\ missing' = missing /\ Processes' = Processes
      /\ Going(<<"launched", n>>) /\ e \in Raws /\ Faithful(e) /\ asm' \in Added(asm, e)
      /\ \A name : Going(name)' <=> Going(name) /\ name # <<"launched", n>>
  BY ReceivesFlow DEF Processes
<1>2. e \in HalfRaws("launched") /\ e # None /\ asm \in AsmType /\ OneStart /\ free \in SUBSET asm.starts
  BY <1>1, RawShape, AsmShape DEF Flow, Places
<1>3. \/ NearestOf(free, e.pid, e.time) = {} /\ asm'.launched = asm.launched \cup {e} /\ asm'.starts = asm.starts
      \/ /\ asm'.launched = asm.launched
         /\ \E s \in NearestOf(free, e.pid, e.time) : \E given : LaunchGiven(asm.starts, asm'.starts, s, e, given)
  BY <1>1, <1>2, LaunchedGiven, ZenonT(60)
<1>4. ~HalfIn(asm.launched, n)
  BY <1>1 DEF Launches, HalfIn
<1>5. /\ \A m \in Processes : Whole(m)' => Whole(m) /\ Paired(m) /\ out'[m].start = out[m].start
      /\ \A k, m : k # "launched" \/ m # n => (Going(<<k, m>>)' <=> Going(<<k, m>>))
      /\ ~Going(<<"launched", n>>)'
  BY <1>1 DEF Launches, Whole, Lossless
<1>6. ASSUME Whole(n) PROVE out[n].start = None
  BY <1>1, <1>6 DEF Launches, Paired
<1>7. ASSUME Whole(n), NEW s \in asm.starts, s.seq = n
      PROVE  NearestOf(free, e.pid, e.time) = {s}
  <2>1. s \in free
    BY <1>1, <1>7 DEF Launches, Paired
  <2> QED BY <1>1, <1>2, <1>7, <2>1, OwnStart
<1>8. ASSUME Whole(n), ~Held(n)
      PROVE  NearestOf(free, e.pid, e.time) = {} /\ Going(<<"created", n>>)
  BY <1>1, <1>8, NoStartFree
<1>9. CASE NearestOf(free, e.pid, e.time) = {} /\ asm'.launched = asm.launched \cup {e} /\ asm'.starts = asm.starts
  <2>1. ASSUME NEW m \in Processes, Whole(m)' PROVE Paired(m)'
    <3>1. CASE m = n
      <4>1. Whole(n) /\ ~Held(n)
        BY <1>5, <1>7, <1>9, <2>1, <3>1 DEF Held
      <4>2. HalfIn(asm'.launched, n) /\ Going(<<"created", n>>)' /\ ~Going(<<"launched", n>>)'
        BY <1>5, <1>8, <1>9, <4>1 DEF HalfIn
      <4>3. \A s \in asm'.starts : s.seq # n
        BY <1>9, <4>1 DEF Held
      <4>4. out'[n].start = None
        BY <1>5, <1>6, <2>1, <3>1, <4>1
      <4> QED BY <3>1, <4>2, <4>3, <4>4 DEF Paired, HalfIn
    <3>2. CASE m # n
      <4>1. /\ HalfIn(asm'.launched, m) <=> HalfIn(asm.launched, m)
            /\ \A s \in asm'.starts : s.seq = m => \E r \in asm.starts : r.seq = m /\ r.launched = s.launched
        BY <1>9, <3>2 DEF HalfIn
      <4>2. /\ Going(<<"created", m>>)' <=> Going(<<"created", m>>)
            /\ Going(<<"launched", m>>)' <=> Going(<<"launched", m>>)
            /\ Paired(m) /\ out'[m].start = out[m].start
        BY <1>5, <2>1, <3>2
      <4> QED BY <4>1, <4>2, PairedStays
    <3> QED BY <3>1, <3>2
  <2>2. OneEach(asm'.launched)
    BY <1>4, <1>9 DEF Launches, OneEach, HalfIn
  <2>3. \A h \in asm'.launched : ~Going(<<"launched", h.of>>)'
    BY <1>1, <1>9 DEF Launches
  <2> QED BY <1>1, <2>1, <2>2, <2>3 DEF Launches
<1>10. ASSUME asm'.launched = asm.launched, NEW s \in NearestOf(free, e.pid, e.time),
              NEW given, LaunchGiven(asm.starts, asm'.starts, s, e, given)
       PROVE  Launches'
  <2>0. s \in asm.starts
    BY <1>10 DEF LaunchGiven
  <2>1. s \in StartType /\ FaithfulStart(s) /\ s.seq \in Processes
    BY <2>0, PendingShape
  <2>3. given.launched = e /\ given.seq = s.seq /\ asm'.starts = (asm.starts \ {s}) \cup {given}
    BY <1>10 DEF LaunchGiven
  <2>5. s.pid = e.pid
    BY DEF NearestOf, AnyOf
  <2>6. born[s.seq].pid = born[n].pid
    BY <2>1, <2>5 DEF FaithfulStart
  <2>7. ASSUME Whole(n) PROVE Held(n) /\ s.seq = n
    <3>1. Held(n)
      BY <1>8, <1>10, <2>7
    <3> QED BY <1>7, <1>10, <2>7, <3>1 DEF Held
  <2>8. ASSUME NEW m \in Processes, Whole(m)' PROVE Paired(m)'
    <3>1. CASE m = n
      <4>1. Whole(n) /\ Held(n) /\ s.seq = n
        BY <1>5, <2>7, <2>8, <3>1
      <4>2. ~Going(<<"created", n>>)' /\ ~Going(<<"launched", n>>)'
        BY <1>5, <4>1 DEF Places, One
      <4>3. ASSUME NEW r \in asm'.starts, r.seq = n PROVE r = given
        BY <1>2, <2>0, <2>3, <4>1, <4>3 DEF OneStart
      <4>4. ~HalfIn(asm'.launched, n)
        BY <1>4, <1>10
      <4>5. out'[n].start = None
        BY <1>5, <1>6, <2>8, <3>1, <4>1
      <4>6. e.of = n /\ e # None
        BY <1>2
      <4> QED BY <2>3, <3>1, <4>2, <4>3, <4>4, <4>5, <4>6 DEF Paired, HalfIn
    <3>2. CASE m # n
      <4>1. s.seq # m
        <5>1. ASSUME s.seq = m PROVE FALSE
          <6>1. Whole(n)
            BY <1>5, <2>6, <2>8, <5>1, WholePid
          <6> QED BY <2>7, <3>2, <5>1, <6>1
        <5> QED BY <5>1
      <4>2. /\ HalfIn(asm'.launched, m) <=> HalfIn(asm.launched, m)
            /\ \A r \in asm'.starts : r.seq = m => \E q \in asm.starts : q.seq = m /\ q.launched = r.launched
        BY <1>10, <2>3, <4>1
      <4>3. /\ Going(<<"created", m>>)' <=> Going(<<"created", m>>)
            /\ Going(<<"launched", m>>)' <=> Going(<<"launched", m>>)
            /\ Paired(m) /\ out'[m].start = out[m].start
        BY <1>5, <2>8, <3>2
      <4> QED BY <4>2, <4>3, PairedStays
    <3> QED BY <3>1, <3>2
  <2>9. /\ OneEach(asm'.launched)
        /\ \A h \in asm'.launched : ~Going(<<"launched", h.of>>)'
    BY <1>1, <1>10 DEF Launches, OneEach
  <2> QED BY <1>1, <2>8, <2>9 DEF Launches
<1> QED BY <1>3, <1>9, <1>10

\* A task that is taken in leaves the command lines as they are, and so does an end.
LEMMA OthersLaunches ==
  ASSUME Flow, Places, Launches, Receives, NEW e, e = Head(inbox), e.kind \in {"scheduled", "ended"}
  PROVE  Launches'
<1>1. /\ born' = born /\ out' = out /\ missing' = missing /\ Processes' = Processes
      /\ e \in Raws /\ asm' \in Added(asm, e)
      /\ \A name : Going(name)' <=> Going(name) /\ name # Name(e)
  BY ReceivesFlow DEF Processes
<1>2. Name(e) = <<e.kind, Of(e)>> /\ asm \in AsmType
  BY <1>1, RawShape, AsmShape DEF Flow
<1>3. \A n : /\ Going(<<"created", n>>)' <=> Going(<<"created", n>>)
             /\ Going(<<"launched", n>>)' <=> Going(<<"launched", n>>)
  <2>1. \A n : Name(e) # <<"created", n>> /\ Name(e) # <<"launched", n>>
    BY <1>2
  <2> QED BY <1>1, <2>1
<1>4. /\ asm'.launched = asm.launched
      /\ \A s \in asm'.starts : \E r \in asm.starts : r.seq = s.seq /\ r.launched = s.launched
  <2>1. CASE e.kind = "scheduled"
    <3>1. e \in HalfRaws("scheduled")
      BY <1>1, <2>1, RawShape
    <3>2. /\ asm'.launched = asm.launched
          /\ \/ asm'.starts = asm.starts
             \/ \E s, given : TaskGiven(asm.starts, asm'.starts, s, e, given)
      BY <1>1, <1>2, <3>1, ScheduledGiven
    <3>3. ASSUME NEW s, NEW given, TaskGiven(asm.starts, asm'.starts, s, e, given)
          PROVE  \A r \in asm'.starts : \E q \in asm.starts : q.seq = r.seq /\ q.launched = r.launched
      BY <3>3 DEF TaskGiven
    <3> QED BY <3>2, <3>3
  <2>2. CASE e.kind = "ended"
    BY <1>1, <1>2, <2>2, RawShape, AddedEnded
  <2> QED BY <2>1, <2>2
<1>5. ASSUME NEW m \in Processes, Whole(m)' PROVE Paired(m)'
  <2>1. Paired(m) /\ out'[m].start = out[m].start
    BY <1>1, <1>5 DEF Launches, Whole, Lossless
  <2>2. /\ HalfIn(asm'.launched, m) <=> HalfIn(asm.launched, m)
        /\ \A s \in asm'.starts : s.seq = m => \E r \in asm.starts : r.seq = m /\ r.launched = s.launched
    BY <1>4
  <2> QED BY <1>3, <2>1, <2>2, PairedStays
<1>6. /\ OneEach(asm'.launched)
      /\ \A h \in asm'.launched : ~Going(<<"launched", h.of>>)'
  BY <1>3, <1>4 DEF Launches, OneEach
<1> QED BY <1>1, <1>5, <1>6 DEF Launches

\* A start is taken in: one that is alone has its task, or that is still to come.
LEMMA CreatedTasks ==
  ASSUME Flow, Places, Tasks, Receives, NEW e, e = Head(inbox), e.kind = "created",
         NEW n \in Processes, Name(e) = <<"created", n>>, n = e.seq, e.pid = born[n].pid, e.time = born[n].time,
         NEW t \in OrNone(NearestOf(asm.scheduled, e.pid, e.time)), NEW l,
         asm'.starts = asm.starts \cup {Start(e, l, t)}, asm'.scheduled = asm.scheduled \ {t}
  PROVE  Tasks'
<1>1. /\ born' = born /\ out' = out /\ missing' = missing /\ Processes' = Processes
      /\ Going(<<"created", n>>)
      /\ \A name : Going(name)' <=> Going(name) /\ name # <<"created", n>>
  BY ReceivesFlow DEF Processes
<1>2. /\ \A h \in asm.scheduled : /\ h \in HalfRaws("scheduled") /\ Faithful(h) /\ h # None
                                  /\ h.of \in Processes /\ h.pid = born[h.of].pid
                                  /\ born[h.of].task /\ h.time \in Nat
                                  /\ born[h.of].time <= h.time /\ h.time <= born[h.of].time + Skew
  BY WaitTrue, HalfTrue
<1>3. t # None => t \in asm.scheduled /\ t.pid = born[n].pid /\ Near(t.time, born[n].time)
  BY DEF OrNone, NearestOf, AnyOf
<1>4. ASSUME NEW h \in asm.scheduled, h.of = n PROVE t = h
  <2>1. TrueHalves("scheduled", asm.scheduled) /\ OneEach(asm.scheduled)
    BY <1>2 DEF TrueHalves, Tasks
  <2>2. OrNone(NearestOf(asm.scheduled, born[n].pid, born[n].time)) = {h}
    BY <1>4, <2>1, OwnHalf
  <2> QED BY <2>2
<1>5. ASSUME t # None, t.of # n PROVE ~Alone(n) /\ ~Alone(t.of)
  <2>1. /\ t \in asm.scheduled /\ Near(t.time, born[n].time) /\ t.of \in Processes
        /\ born[t.of].pid = born[n].pid /\ t.time \in Nat
        /\ born[t.of].time <= t.time /\ t.time <= born[t.of].time + Skew
    BY <1>2, <1>3, <1>5
  <2> QED BY <1>5, <2>1, NearOthers
<1>6. Start(e, l, t).seq = n /\ Start(e, l, t).task = t
  BY DEF Start
<1>7. ~Held(n) /\ out[n].start = None
  BY <1>1 DEF Places, One
<1>8. ASSUME NEW m \in Processes, Whole(m)', Alone(m)' PROVE Tasked(m)'
  <2>1. Alone(m) /\ Tasked(m)
    BY <1>1, <1>8 DEF Tasks, Whole, Lossless, Alone
  <2>2. CASE m = n
    <3>1. t # None => t \in asm.scheduled /\ t.of = n
      BY <1>3, <1>5, <2>1, <2>2
    <3>2. ~HalfIn(asm'.scheduled, n)
      BY <1>4 DEF HalfIn
    <3>3. ~Going(<<"created", n>>)' /\ (Going(<<"scheduled", n>>)' <=> Going(<<"scheduled", n>>))
      BY <1>1
    <3>4. ASSUME NEW s \in asm'.starts, s.seq = n PROVE s.task = t
      BY <1>6, <1>7, <3>4 DEF Held
    <3>5. out'[n].start = None /\ born'[n].task = born[n].task
      BY <1>1, <1>7
    <3>6. CASE born[n].task
      <4>1. Going(<<"scheduled", n>>)' => t = None
        BY <2>1, <2>2, <3>1, <3>3, <3>6 DEF Tasked, HalfIn
      <4>2. ~Going(<<"scheduled", n>>)' => t # None /\ t.of = n
        <5>1. ASSUME ~Going(<<"scheduled", n>>)' PROVE t # None /\ t.of = n
          <6>1. HalfIn(asm.scheduled, n)
            BY <1>1, <2>1, <2>2, <3>3, <3>6, <5>1 DEF Tasked
          <6> QED BY <1>2, <1>4, <6>1 DEF HalfIn
        <5> QED BY <5>1
      <4>3. \A s \in asm'.starts : s.seq = n =>
              IF Going(<<"scheduled", n>>)' THEN s.task = None ELSE s.task # None /\ s.task.of = n
        BY <3>4, <4>1, <4>2
      <4> QED BY <2>2, <3>2, <3>3, <3>5, <3>6, <4>3 DEF Tasked, HalfIn
    <3>7. CASE ~born[n].task
      <4>1. t = None
        BY <1>2, <3>1, <3>7
      <4> QED BY <2>2, <3>4, <3>5, <3>7, <4>1 DEF Tasked
    <3> QED BY <3>6, <3>7
  <2>3. CASE m # n
    <3>1. t # None => t.of # m
      BY <1>5, <2>1, <2>3
    <3>2. HalfIn(asm'.scheduled, m) <=> HalfIn(asm.scheduled, m)
      BY <1>2, <3>1 DEF HalfIn
    <3>3. \A s \in asm'.starts : s.seq = m => \E r \in asm.starts : r.seq = m /\ r.task = s.task
      BY <1>6, <2>3
    <3>4. /\ Going(<<"created", m>>)' <=> Going(<<"created", m>>)
          /\ Going(<<"scheduled", m>>)' <=> Going(<<"scheduled", m>>)
      BY <1>1, <2>3
    <3>5. out'[m].start = out[m].start /\ born'[m].task = born[m].task
      BY <1>1
    <3> QED BY <2>1, <3>2, <3>3, <3>4, <3>5, TaskedStays
  <2> QED BY <2>2, <2>3
<1>9. /\ OneEach(asm'.scheduled)
      /\ \A h \in asm'.scheduled : ~Going(<<"scheduled", h.of>>)'
  BY <1>1 DEF Tasks, OneEach
<1> QED BY <1>1, <1>8, <1>9 DEF Tasks

\* A task goes to its own start, or waits for it, if that is alone.
LEMMA ScheduledTasks ==
  ASSUME Flow, Places, Tasks, Receives, NEW e, e = Head(inbox), e.kind = "scheduled",
         NEW n \in Processes, Name(e) = <<"scheduled", n>>, n = e.of, e.pid = born[n].pid
  PROVE  Tasks'
<1> DEFINE free == {s \in asm.starts : s.task = None}
<1>1. /\ born' = born /\ out' = out /\ missing' = missing /\ Processes' = Processes
      /\ Going(<<"scheduled", n>>) /\ e \in Raws /\ Faithful(e) /\ asm' \in Added(asm, e)
      /\ \A name : Going(name)' <=> Going(name) /\ name # <<"scheduled", n>>
  BY ReceivesFlow DEF Processes
<1>2. e \in HalfRaws("scheduled") /\ e # None /\ asm \in AsmType /\ OneStart /\ free \in SUBSET asm.starts
  BY <1>1, RawShape, AsmShape DEF Flow, Places
<1>3. \/ NearestOf(free, e.pid, e.time) = {} /\ asm'.scheduled = asm.scheduled \cup {e} /\ asm'.starts = asm.starts
      \/ /\ asm'.scheduled = asm.scheduled
         /\ \E s \in NearestOf(free, e.pid, e.time) : \E given : TaskGiven(asm.starts, asm'.starts, s, e, given)
  BY <1>1, <1>2, ScheduledGiven, ZenonT(60)
<1>4. ~HalfIn(asm.scheduled, n)
  BY <1>1 DEF Tasks, HalfIn
<1>5. /\ \A m \in Processes : Whole(m)' /\ Alone(m)' =>
           /\ Whole(m) /\ Alone(m) /\ Tasked(m)
           /\ out'[m].start = out[m].start /\ born'[m].task = born[m].task
      /\ \A k, m : k # "scheduled" \/ m # n => (Going(<<k, m>>)' <=> Going(<<k, m>>))
      /\ ~Going(<<"scheduled", n>>)'
  BY <1>1 DEF Tasks, Whole, Lossless, Alone
<1>6. /\ born[n].task /\ e.time \in Nat /\ born[n].time <= e.time /\ e.time <= born[n].time + Skew
  BY <1>1, <1>2, HalfTrue
<1>7. ASSUME Whole(n), Alone(n) PROVE out[n].start = None
  BY <1>1, <1>6, <1>7 DEF Tasks, Tasked
<1>8. ASSUME Whole(n), Alone(n), NEW s \in asm.starts, s.seq = n
      PROVE  NearestOf(free, e.pid, e.time) = {s}
  <2>1. s \in free
    BY <1>1, <1>6, <1>8 DEF Tasks, Tasked
  <2> QED BY <1>1, <1>2, <1>8, <2>1, OwnStart
<1>9. ASSUME NEW f \in NearestOf(free, e.pid, e.time), f.seq # n
      PROVE  ~Alone(n) /\ ~Alone(f.seq)
  <2>1. f \in asm.starts /\ f.pid = e.pid /\ Near(f.time, e.time)
    BY DEF NearestOf, AnyOf
  <2>2. f.seq \in Processes /\ f.pid = born[f.seq].pid /\ f.time = born[f.seq].time
    BY <2>1, PendingShape DEF FaithfulStart
  <2> QED BY <1>6, <1>9, <2>1, <2>2, NearOthers
<1>10. CASE NearestOf(free, e.pid, e.time) = {} /\ asm'.scheduled = asm.scheduled \cup {e} /\ asm'.starts = asm.starts
  <2>1. ASSUME NEW m \in Processes, Whole(m)', Alone(m)' PROVE Tasked(m)'
    <3>1. CASE m = n
      <4>1. Whole(n) /\ Alone(n) /\ ~Held(n) /\ born'[n].task
        BY <1>5, <1>6, <1>8, <1>10, <2>1, <3>1 DEF Held
      <4>2. out[n].start = None /\ out'[n].start = None
        BY <1>5, <1>7, <2>1, <3>1, <4>1
      <4>3. <<"created", n>> \notin missing
        BY <4>1, WholePid
      <4>4. Going(<<"created", n>>)
        BY <4>1, <4>2, <4>3 DEF Places, One
      <4>5. HalfIn(asm'.scheduled, n) /\ Going(<<"created", n>>)' /\ ~Going(<<"scheduled", n>>)'
        BY <1>5, <1>10, <4>4 DEF HalfIn
      <4>6. \A s \in asm'.starts : s.seq # n
        BY <1>10, <4>1 DEF Held
      <4> QED BY <3>1, <4>1, <4>2, <4>5, <4>6 DEF Tasked, HalfIn
    <3>2. CASE m # n
      <4>1. /\ HalfIn(asm'.scheduled, m) <=> HalfIn(asm.scheduled, m)
            /\ \A s \in asm'.starts : s.seq = m => \E r \in asm.starts : r.seq = m /\ r.task = s.task
        BY <1>10, <3>2 DEF HalfIn
      <4>2. /\ Going(<<"created", m>>)' <=> Going(<<"created", m>>)
            /\ Going(<<"scheduled", m>>)' <=> Going(<<"scheduled", m>>)
            /\ Tasked(m) /\ out'[m].start = out[m].start /\ born'[m].task = born[m].task
        BY <1>5, <2>1, <3>2
      <4> QED BY <4>1, <4>2, TaskedStays
    <3> QED BY <3>1, <3>2
  <2>2. OneEach(asm'.scheduled)
    BY <1>4, <1>10 DEF Tasks, HalfIn, OneEach
  <2>3. \A h \in asm'.scheduled : ~Going(<<"scheduled", h.of>>)'
    BY <1>1, <1>10 DEF Tasks
  <2> QED BY <1>1, <2>1, <2>2, <2>3 DEF Tasks
<1>11. ASSUME asm'.scheduled = asm.scheduled, NEW s \in NearestOf(free, e.pid, e.time),
              NEW given, TaskGiven(asm.starts, asm'.starts, s, e, given)
       PROVE  Tasks'
  <2>1. s \in asm.starts
    BY <1>11 DEF TaskGiven
  <2>2. given.task = e /\ given.seq = s.seq /\ asm'.starts = (asm.starts \ {s}) \cup {given}
    BY <1>11 DEF TaskGiven
  <2>3. ASSUME NEW m \in Processes, Whole(m)', Alone(m)' PROVE Tasked(m)'
    <3>1. CASE m = n
      <4>1. Whole(n) /\ Alone(n) /\ s.seq = n /\ born'[n].task
        BY <1>5, <1>6, <1>9, <1>11, <2>3, <3>1
      <4>2. Held(n)
        BY <2>1, <4>1 DEF Held
      <4>3. ~Going(<<"created", n>>)' /\ ~Going(<<"scheduled", n>>)'
        BY <1>5, <4>2 DEF Places, One
      <4>4. ASSUME NEW r \in asm'.starts, r.seq = n PROVE r = given
        BY <1>2, <2>1, <2>2, <4>1, <4>4 DEF OneStart
      <4>5. ~HalfIn(asm'.scheduled, n)
        BY <1>4, <1>11
      <4>6. out'[n].start = None
        BY <1>5, <1>7, <2>3, <3>1, <4>1
      <4>7. e.of = n /\ e # None
        BY <1>2
      <4> QED BY <2>2, <3>1, <4>1, <4>3, <4>4, <4>5, <4>6, <4>7 DEF Tasked, HalfIn
    <3>2. CASE m # n
      <4>1. s.seq # m
        BY <1>5, <1>9, <2>3, <3>2
      <4>2. /\ HalfIn(asm'.scheduled, m) <=> HalfIn(asm.scheduled, m)
            /\ \A r \in asm'.starts : r.seq = m => \E q \in asm.starts : q.seq = m /\ q.task = r.task
        BY <1>11, <2>2, <4>1
      <4>3. /\ Going(<<"created", m>>)' <=> Going(<<"created", m>>)
            /\ Going(<<"scheduled", m>>)' <=> Going(<<"scheduled", m>>)
            /\ Tasked(m) /\ out'[m].start = out[m].start /\ born'[m].task = born[m].task
        BY <1>5, <2>3, <3>2
      <4> QED BY <4>2, <4>3, TaskedStays
    <3> QED BY <3>1, <3>2
  <2>4. /\ OneEach(asm'.scheduled)
        /\ \A h \in asm'.scheduled : ~Going(<<"scheduled", h.of>>)'
    BY <1>1, <1>11 DEF Tasks, OneEach
  <2> QED BY <1>1, <2>3, <2>4 DEF Tasks
<1> QED BY <1>3, <1>10, <1>11

\* A command line that is taken in leaves the tasks as they are, and so does an end.
LEMMA OthersTasks ==
  ASSUME Flow, Places, Tasks, Receives, NEW e, e = Head(inbox), e.kind \in {"launched", "ended"}
  PROVE  Tasks'
<1>1. /\ born' = born /\ out' = out /\ missing' = missing /\ Processes' = Processes
      /\ e \in Raws /\ asm' \in Added(asm, e)
      /\ \A name : Going(name)' <=> Going(name) /\ name # Name(e)
  BY ReceivesFlow DEF Processes
<1>2. Name(e) = <<e.kind, Of(e)>> /\ asm \in AsmType
  BY <1>1, RawShape, AsmShape DEF Flow
<1>3. \A n : /\ Going(<<"created", n>>)' <=> Going(<<"created", n>>)
             /\ Going(<<"scheduled", n>>)' <=> Going(<<"scheduled", n>>)
  <2>1. \A n : Name(e) # <<"created", n>> /\ Name(e) # <<"scheduled", n>>
    BY <1>2
  <2> QED BY <1>1, <2>1
<1>4. /\ asm'.scheduled = asm.scheduled
      /\ \A s \in asm'.starts : \E r \in asm.starts : r.seq = s.seq /\ r.task = s.task
  <2>1. CASE e.kind = "launched"
    <3>1. e \in HalfRaws("launched")
      BY <1>1, <2>1, RawShape
    <3>2. /\ asm'.scheduled = asm.scheduled
          /\ \/ asm'.starts = asm.starts
             \/ \E s, given : LaunchGiven(asm.starts, asm'.starts, s, e, given)
      BY <1>1, <1>2, <3>1, LaunchedGiven
    <3>3. ASSUME NEW s, NEW given, LaunchGiven(asm.starts, asm'.starts, s, e, given)
          PROVE  \A r \in asm'.starts : \E q \in asm.starts : q.seq = r.seq /\ q.task = r.task
      BY <3>3 DEF LaunchGiven
    <3> QED BY <3>2, <3>3
  <2>2. CASE e.kind = "ended"
    BY <1>1, <1>2, <2>2, RawShape, AddedEnded
  <2> QED BY <2>1, <2>2
<1>5. ASSUME NEW m \in Processes, Whole(m)', Alone(m)' PROVE Tasked(m)'
  <2>1. Tasked(m) /\ out'[m].start = out[m].start /\ born'[m].task = born[m].task
    BY <1>1, <1>5 DEF Tasks, Whole, Lossless, Alone
  <2>2. /\ HalfIn(asm'.scheduled, m) <=> HalfIn(asm.scheduled, m)
        /\ \A s \in asm'.starts : s.seq = m => \E r \in asm.starts : r.seq = m /\ r.task = s.task
    BY <1>4
  <2> QED BY <1>3, <2>1, <2>2, TaskedStays
<1>6. /\ OneEach(asm'.scheduled)
      /\ \A h \in asm'.scheduled : ~Going(<<"scheduled", h.of>>)'
  BY <1>3, <1>4 DEF Tasks, OneEach
<1> QED BY <1>1, <1>5, <1>6 DEF Tasks

\* The thread takes an event.
LEMMA ReceivesHalves ==
  ASSUME Flow, Places, Halves, Receives, NEW e, e = Head(inbox), e.kind # "kernel_lost"
  PROVE  Halves'
<1>1. e \in Raws /\ Faithful(e) /\ asm' \in Added(asm, e) /\ asm \in AsmType /\ Launches /\ Tasks
  BY ReceivesFlow, AsmShape DEF Flow, Halves
<1>2. PICK n \in Processes : n = Of(e)
  BY <1>1 DEF Faithful
<1>3. /\ e.kind \in {"created", "launched", "scheduled", "ended"} /\ Name(e) = <<e.kind, n>>
      /\ e.pid = born[n].pid
      /\ e.kind = "created" => n = e.seq /\ e.time = born[n].time /\ e \in CreatedRaws
      /\ e.kind \in {"launched", "scheduled"} => n = e.of
  BY <1>1, <1>2, RawShape DEF Faithful
<1>4. CASE e.kind = "created"
  <2>1. PICK l \in OrNone(NearestOf(asm.launched, e.pid, e.time)),
             t \in OrNone(NearestOf(asm.scheduled, e.pid, e.time)) :
          /\ asm'.starts = asm.starts \cup {Start(e, l, t)}
          /\ asm'.launched = asm.launched \ {l} /\ asm'.scheduled = asm.scheduled \ {t}
    BY <1>1, <1>3, <1>4, AddedCreated
  <2>2. Launches'
    BY <1>1, <1>3, <1>4, <2>1, CreatedLaunches
  <2>3. Tasks'
    BY <1>1, <1>3, <1>4, <2>1, CreatedTasks
  <2> QED BY <2>2, <2>3 DEF Halves
<1>5. CASE e.kind = "launched"
  <2>1. Launches'
    BY <1>1, <1>3, <1>5, LaunchedLaunches
  <2>2. Tasks'
    BY <1>1, <1>5, OthersTasks
  <2> QED BY <2>1, <2>2 DEF Halves
<1>6. CASE e.kind = "scheduled"
  <2>1. Launches'
    BY <1>1, <1>6, OthersLaunches
  <2>2. Tasks'
    BY <1>1, <1>3, <1>6, ScheduledTasks
  <2> QED BY <2>1, <2>2 DEF Halves
<1>7. CASE e.kind = "ended"
  BY <1>1, <1>7, OthersLaunches, OthersTasks DEF Halves
<1> QED BY <1>3, <1>4, <1>5, <1>6, <1>7

\* Nothing of a start is on its way for as long as it may wait.
LEMMA GoingSoon ==
  ASSUME Flow, NEW k \in {"created", "launched", "scheduled"}, NEW n \in Processes, Going(<<k, n>>)
  PROVE  ~Waited(born[n].time, now)
<1>1. PICK raw \in Raws : Name(raw) = <<k, n>> /\ Faithful(raw) /\ now <= Base(raw) + Skew + Delay
  <2>1. ASSUME NEW s \in Sessions, Sent(underway[s], <<k, n>>)
        PROVE  \E raw \in Raws : Name(raw) = <<k, n>> /\ Faithful(raw) /\ now <= Base(raw) + Skew + Delay
    <3>1. PICK i \in 1..Len(underway[s]) : Name(underway[s][i]) = <<k, n>>
      BY <2>1 DEF Sent
    <3>2. underway[s][i] \in Raws
      BY <3>1 DEF Flow, Typed, TypedLines
    <3>3. Faithful(underway[s][i]) /\ now <= Base(underway[s][i]) + Skew + Delay
      BY <3>1 DEF Flow, Truths, TrueOf, Prompt, PromptOf
    <3> QED BY <3>1, <3>2, <3>3
  <2>2. ASSUME Sent(inbox, <<k, n>>)
        PROVE  \E raw \in Raws : Name(raw) = <<k, n>> /\ Faithful(raw) /\ now <= Base(raw) + Skew + Delay
    <3>1. PICK i \in 1..Len(inbox) : inbox[i].kind # "kernel_lost" /\ Name(inbox[i]) = <<k, n>>
      BY <2>2 DEF Sent
    <3>2. inbox[i] \in Raws
      BY <3>1, BoxEntry DEF Flow
    <3>3. Faithful(inbox[i]) /\ now <= Base(inbox[i]) + Skew + Delay
      BY <3>1 DEF Flow, Truths, BoxTrue, Prompt, BoxPrompt
    <3> QED BY <3>1, <3>2, <3>3
  <2> QED BY <2>1, <2>2 DEF Going, Way
<1>2. raw.kind = k /\ Of(raw) = n
  BY <1>1, RawShape
<1>3. Base(raw) = born[n].time
  BY <1>1, <1>2, RawShape DEF Base, Faithful
<1>4. PICK a \in Nat, b \in Nat : a = born[n].time /\ b = now
  BY BornShape DEF Flow, Typed, TypedClock
<1>5. Skew \in Nat /\ Delay \in Nat /\ WaitsAtMost \in Nat /\ Delay + Skew < WaitsAtMost
  BY IntakeAssumption, DelaysAssumption, TimesAssumption
<1>6. b <= a + Skew + Delay
  BY <1>1, <1>3, <1>4
<1>7. ~(a + WaitsAtMost <= b)
  BY <1>4, <1>5, <1>6
<1> QED BY <1>4, <1>7 DEF Waited

\* A start that is due has all that is its own, and halves that have waited
\* too long are of starts that are not to come.
LEMMA LetsHalves ==
  ASSUME Flow, Places, Halves, NEW at \in Nat, Lets(at), UNCHANGED <<machine, inbox, missing>>,
         \A n \in Processes : \A k \in {"created", "launched", "scheduled"} :
           Going(<<k, n>>) => ~Waited(born[n].time, at)
  PROVE  Halves'
<1>1. UNCHANGED <<born, underway, inbox, missing>> /\ Processes' = Processes
  BY DEF machine, Processes
<1>2. \A name : Going(name)' <=> Going(name)
  BY <1>1 DEF Going
<1>3. asm \in AsmType /\ OneStart /\ Typed /\ Launches /\ Tasks
  BY AsmShape DEF Flow, Places, Halves
<1>4. /\ asm' = Left(asm, at)
      /\ \A n \in 1..MaxBorn :
           (\A s \in DueStarts(asm, at) : s.seq # n) => out'[n].start = out[n].start
      /\ \A s \in DueStarts(asm, at) : s.seq \in 1..MaxBorn =>
           out'[s.seq].start = [launched |-> Half(s.launched), task |-> Half(s.task)]
  BY <1>3, LetsOut
<1>5. /\ asm'.starts = asm.starts \ DueStarts(asm, at) /\ DueStarts(asm, at) \subseteq asm.starts
      /\ asm'.launched = StillOpen(asm.launched, at) /\ asm'.scheduled = StillOpen(asm.scheduled, at)
      /\ asm'.launched \subseteq asm.launched /\ asm'.scheduled \subseteq asm.scheduled
  BY <1>3, <1>4, LeftShape
<1>6. ASSUME NEW h \in asm.launched \cup asm.scheduled, Going(<<"created", h.of>>)
      PROVE  h.time + PairedWithin + WaitsAtMost > at
  <2>1. h.of \in Processes /\ h.time \in Nat /\ born[h.of].time <= h.time
    BY WaitTrue, HalfTrue
  <2>2. ~(born[h.of].time + WaitsAtMost <= at)
    BY <1>6, <2>1 DEF Waited
  <2>3. PICK b \in Nat : b = born[h.of].time
    BY <2>1, BornShape DEF Flow
  <2> QED BY <2>1, <2>2, <2>3, TimesAssumption
<1>7. ASSUME NEW n \in Processes
      PROVE  /\ Going(<<"created", n>>) => (HalfIn(asm'.launched, n) <=> HalfIn(asm.launched, n))
             /\ Going(<<"created", n>>) => (HalfIn(asm'.scheduled, n) <=> HalfIn(asm.scheduled, n))
             /\ HalfIn(asm'.launched, n) => HalfIn(asm.launched, n)
             /\ HalfIn(asm'.scheduled, n) => HalfIn(asm.scheduled, n)
  BY <1>5, <1>6 DEF HalfIn, StillOpen
<1>8. ASSUME NEW n \in Processes
      PROVE  \/ \A s \in DueStarts(asm, at) : s.seq # n
             \/ \E s \in DueStarts(asm, at) :
                  /\ s \in asm.starts /\ s.seq = n
                  /\ \A r \in asm'.starts : r.seq # n
                  /\ out'[n].start.launched = Half(s.launched) /\ out'[n].start.task = Half(s.task)
  <2>1. n \in 1..MaxBorn
    BY <1>3, BornShape
  <2>2. ASSUME NEW s \in DueStarts(asm, at), s.seq = n
        PROVE  /\ s \in asm.starts /\ \A r \in asm'.starts : r.seq # n
               /\ out'[n].start.launched = Half(s.launched) /\ out'[n].start.task = Half(s.task)
    <3>1. out'[n].start = [launched |-> Half(s.launched), task |-> Half(s.task)]
      BY <1>4, <2>1, <2>2
    <3> QED BY <1>3, <1>5, <2>2, <3>1 DEF OneStart
  <2> QED BY <2>2
<1>9. ASSUME NEW n \in Processes PROVE (\A s \in DueStarts(asm, at) : s.seq # n) => out'[n].start = out[n].start
  BY <1>3, <1>4, BornShape
<1>10. ASSUME NEW n \in Processes, Whole(n)' PROVE Paired(n)'
  <2>1. Paired(n)
    BY <1>1, <1>3, <1>10 DEF Launches, Whole, Lossless
  <2>2. HalfIn(asm'.launched, n) <=> Going(<<"created", n>>) /\ ~Going(<<"launched", n>>)
    BY <1>7, <2>1 DEF Paired
  <2>3. \A s \in asm'.starts : s.seq = n =>
          IF Going(<<"launched", n>>) THEN s.launched = None
          ELSE s.launched # None /\ s.launched.of = n
    BY <1>5, <2>1 DEF Paired
  <2>4. CASE \A s \in DueStarts(asm, at) : s.seq # n
    <3>1. out'[n].start = out[n].start
      BY <1>9, <2>4
    <3> QED BY <1>2, <2>1, <2>2, <2>3, <3>1 DEF Paired, HalfIn
  <2>5. ASSUME NEW s \in DueStarts(asm, at), s \in asm.starts, s.seq = n,
               out'[n].start.launched = Half(s.launched)
        PROVE  Paired(n)'
    <3>1. ~Going(<<"launched", n>>)
      <4>1. Waited(s.time, at) \/ s.launched # None
        BY DEF DueStarts, Complete
      <4>2. s.time = born[n].time
        BY <2>5, PendingShape DEF FaithfulStart
      <4> QED BY <2>1, <2>5, <4>1, <4>2 DEF Paired
    <3>2. s.launched # None /\ s.launched.of = n
      BY <2>1, <2>5, <3>1 DEF Paired
    <3>3. out'[n].start.launched = n
      BY <2>5, <3>2 DEF Half
    <3> QED BY <1>2, <2>2, <2>3, <3>1, <3>3 DEF Paired, HalfIn
  <2> QED BY <1>8, <2>4, <2>5
<1>11. ASSUME NEW n \in Processes, Whole(n)', Alone(n)' PROVE Tasked(n)'
  <2>1. Tasked(n) /\ born'[n].task = born[n].task
    BY <1>1, <1>3, <1>11 DEF Tasks, Whole, Lossless, Alone
  <2>2. CASE ~born[n].task
    <3>1. \A s \in asm'.starts : s.seq = n => s.task = None
      BY <1>5, <2>1, <2>2 DEF Tasked
    <3>2. CASE \A s \in DueStarts(asm, at) : s.seq # n
      BY <1>9, <2>1, <2>2, <3>1, <3>2 DEF Tasked
    <3>3. ASSUME NEW s \in DueStarts(asm, at), s \in asm.starts, s.seq = n,
                 out'[n].start.task = Half(s.task)
          PROVE  Tasked(n)'
      <4>1. out'[n].start.task = None
        BY <2>1, <2>2, <3>3 DEF Tasked, Half
      <4> QED BY <2>1, <2>2, <3>1, <4>1 DEF Tasked
    <3> QED BY <1>8, <3>2, <3>3
  <2>3. CASE born[n].task
    <3>1. HalfIn(asm'.scheduled, n) <=> Going(<<"created", n>>) /\ ~Going(<<"scheduled", n>>)
      BY <1>7, <2>1, <2>3 DEF Tasked
    <3>2. \A s \in asm'.starts : s.seq = n =>
            IF Going(<<"scheduled", n>>) THEN s.task = None
            ELSE s.task # None /\ s.task.of = n
      BY <1>5, <2>1, <2>3 DEF Tasked
    <3>3. CASE \A s \in DueStarts(asm, at) : s.seq # n
      <4>1. out'[n].start = out[n].start
        BY <1>9, <3>3
      <4> QED BY <1>2, <2>1, <2>3, <3>1, <3>2, <4>1 DEF Tasked, HalfIn
    <3>4. ASSUME NEW s \in DueStarts(asm, at), s \in asm.starts, s.seq = n,
                 out'[n].start.task = Half(s.task)
          PROVE  Tasked(n)'
      <4>1. s.time = born[n].time /\ s.scheduled_by
        BY <2>3, <3>4, PendingShape DEF FaithfulStart
      <4>2. ~Going(<<"scheduled", n>>)
        <5>1. Waited(s.time, at) \/ s.task # None
          BY <4>1 DEF DueStarts, Complete
        <5> QED BY <2>1, <2>3, <3>4, <4>1, <5>1 DEF Tasked
      <4>3. s.task # None /\ s.task.of = n
        BY <2>1, <2>3, <3>4, <4>2 DEF Tasked
      <4>4. out'[n].start.task = n
        BY <3>4, <4>3 DEF Half
      <4> QED BY <1>2, <2>1, <2>3, <3>1, <3>2, <4>2, <4>4 DEF Tasked, HalfIn
    <3> QED BY <1>8, <3>3, <3>4
  <2> QED BY <2>2, <2>3
<1>12. Launches'
  BY <1>1, <1>2, <1>3, <1>5, <1>10 DEF Launches, OneEach
<1>13. Tasks'
  BY <1>1, <1>2, <1>3, <1>5, <1>11 DEF Tasks, OneEach
<1> QED BY <1>12, <1>13 DEF Halves

LEMMA InitHalves == ASSUME Init PROVE Halves
<1>1. /\ born = <<>> /\ asm = Empty
  BY DEF Init
<1>2. /\ asm.launched = {} /\ asm.scheduled = {} /\ Processes = {}
  BY <1>1 DEF Empty, Processes
<1> QED BY <1>2 DEF Halves, Launches, Tasks, OneEach

\* Every step keeps the halves where they belong.
LEMMA NextHalves == ASSUME Core, Halves, [Next]_vars PROVE Halves'
<1>1. Flow /\ Places /\ Typed
  BY DEF Core, Flow
<1>2. ASSUME Quiet PROVE Halves'
  BY <1>1, <1>2, QuietHalves
<1>3. CASE TimePasses
  BY <1>1, <1>2, <1>3, TimeQuiet
<1>4. CASE CountsDropped \/ Restarts \/ Counts \/ UNCHANGED vars
  BY <1>1, <1>2, <1>4, StillQuiet
<1>5. CASE TellsHealth
  BY <1>1, <1>2, <1>5, CountsQuiet
<1>6. CASE Stops
  BY <1>1, <1>2, <1>6, StopsQuiet
<1>7. ASSUME NEW s \in Sessions, Delivers(s) \/ KernelDrops(s) PROVE Halves'
  BY <1>1, <1>2, <1>7, DeliversQuiet
<1>8. CASE Receives
  <2>1. CASE Head(inbox).kind = "kernel_lost"
    BY <1>1, <1>2, <1>8, <2>1, CountTakenQuiet
  <2>2. CASE Head(inbox).kind # "kernel_lost"
    BY <1>1, <1>8, <2>2, ReceivesHalves
  <2> QED BY <2>1, <2>2
<1>9. CASE Releases
  <2>1. Lets(now) /\ UNCHANGED <<machine, inbox, missing>> /\ now \in Nat
    BY <1>1, <1>9 DEF Releases, intake, Typed, TypedClock
  <2>2. \A n \in Processes : \A k \in {"created", "launched", "scheduled"} :
          Going(<<k, n>>) => ~Waited(born[n].time, now)
    BY <1>1, GoingSoon
  <2> QED BY <1>1, <2>1, <2>2, LetsHalves
<1>10. CASE Finishes
  <2>1. Lets(Forever) /\ UNCHANGED <<machine, inbox, missing>> /\ inbox = <<>> /\ ~open
    BY <1>10 DEF Finishes, intake
  <2>2. Forever \in Nat
    BY FinishesDue
  <2>3. \A name : ~Going(name)
    <3>1. \A s \in Sessions : underway[s] = <<>>
      BY <1>1, <2>1 DEF Typed, TypedLines
    <3>2. \A s \in Sessions : Len(underway[s]) = 0
      BY <3>1
    <3> QED BY <2>1, <3>2 DEF Going, Way, Sent
  <2> QED BY <1>1, <2>1, <2>2, <2>3, LetsHalves
<1>11. ASSUME NEW p \in Pids, NEW by \in BOOLEAN, NEW task \in BOOLEAN,
              NEW l \in now..(now + Skew), NEW t \in now..(now + Skew), Starts(p, by, task, l, t)
       PROVE  Halves'
  BY <1>1, <1>11, StartsHalves
<1>12. ASSUME NEW n \in Processes, NEW dated \in BOOLEAN, Ends(n, dated) PROVE Halves'
  BY <1>1, <1>12, EndsHalves
<1> QED
  BY <1>3, <1>4, <1>5, <1>6, <1>7, <1>8, <1>9, <1>10, <1>11, <1>12
  DEF Next, Machine, Intake, Thread

-----------------------------------------------------------------------------
(***************************************************************************)
(* The theorems.                                                           *)
(***************************************************************************)
LEMMA CoreAlways == Spec => []Core
<1>1. Core /\ [Next]_vars => Core'
  BY NextCore
<1> QED BY InitCore, <1>1, PTL DEF Spec

LEMMA TalliedAlways == Spec => [](Core /\ Tallied)
<1>1. Core /\ Tallied /\ [Next]_vars => (Core /\ Tallied)'
  BY NextCore, NextTallied DEF Core, Flow
<1>2. Init => Core /\ Tallied
  BY InitCore, InitTallied
<1> QED BY <1>1, <1>2, PTL DEF Spec

\* Nobody waits on an event longer than the bound and a tick, unless it is an
\* exit that does not tell when its process started, and no exit is kept once
\* its start went out (release, run).
THEOREM EventsOutInTime == Spec => []OutInTime
<1>1. Core => OutInTime
  <2> SUFFICES ASSUME Core, pc = "wait" PROVE OutInTime
    BY DEF OutInTime
  <2>1. /\ now <= wake_by /\ now \in Nat /\ wake_by \in Nat
        /\ \A s \in asm.starts : wake_by < s.time + WaitsAtMost + Tick
        /\ \A e \in asm.exits : e.since # 0 => wake_by < e.since + WaitsAtMost + Tick
        /\ \A e \in asm.exits : out[e.seq].start = None
    BY DEF Core, Waiting, Flow, Typed, TypedClock
  <2>2. /\ \A s \in asm.starts : s.time + WaitsAtMost + Tick \in Nat
        /\ \A e \in asm.exits : e.since + WaitsAtMost + Tick \in Nat
    <3>1. WaitsAtMost \in Nat /\ Tick \in Nat
      BY IntakeAssumption, TimesAssumption
    <3>2. /\ \A s \in asm.starts : s.time \in Nat
          /\ \A e \in asm.exits : e.since \in Nat
      BY PendingShape DEF Core, StartType, EndedRaws
    <3> QED BY <3>1, <3>2
  <2> QED BY <2>1, <2>2 DEF OutInTime
<1> QED BY <1>1, CoreAlways, PTL

\* An exit goes out with its start or after it, unless the start was lost:
\* sessions that tell an exit after its start keep it so all the way, and a
\* start that is not due holds it back (release).
THEOREM StartsComeFirst == Spec => StartsFirst
<1> DEFINE First(n) == out'[n].exit /\ ~out[n].exit =>
                         out'[n].start # None \/ <<"created", n>> \in missing
<1>1. ASSUME Core, NEW at \in Nat, Lets(at), NEW n \in Processes, out'[n].exit, ~out[n].exit,
             <<"created", n>> \notin missing
      PROVE  out'[n].start # None
  <2>1. Flow /\ Places /\ Typed /\ OneStart /\ n \in 1..MaxBorn
    <3>1. Flow /\ Places /\ Typed /\ OneStart
      BY <1>1 DEF Core, Flow, Places
    <3> QED BY <3>1, BornShape
  <2>2. /\ out'[n].exit <=> out[n].exit \/ \E e \in DueExits(asm, at) : e.seq = n
        /\ (\A s \in DueStarts(asm, at) : s.seq # n) => out'[n].start = out[n].start
        /\ \A s \in DueStarts(asm, at) : s.seq = n => out'[n].start # None
    <3>1. /\ \A m \in 1..MaxBorn : out'[m].exit <=> out[m].exit \/ \E e \in DueExits(asm, at) : e.seq = m
          /\ \A m \in 1..MaxBorn :
               (\A s \in DueStarts(asm, at) : s.seq # m) => out'[m].start = out[m].start
          /\ \A s \in DueStarts(asm, at) : s.seq \in 1..MaxBorn => out'[s.seq].start # None
      BY <1>1, <2>1, LetsOut
    <3> QED BY <2>1, <3>1
  <2>3. PICK e \in DueExits(asm, at) : e.seq = n
    BY <1>1, <2>2
  <2>4. e \in asm.exits /\ ~HeldBack(asm, e, at)
    BY <2>3 DEF DueExits
  <2>5. e.pid = born[n].pid /\ born[n].ended /\ born[n].time <= e.time
    BY <2>1, <2>3, <2>4, PendingShape
  <2>6. ~Going(<<"ended", n>>) /\ <<"ended", n>> \notin missing
    BY <2>1, <2>3, <2>4, <2>5 DEF Places, One, Exits
  <2>7. ~Going(<<"created", n>>)
    <3>1. <<"created", n>> \in Said /\ <<"ended", n>> \in Said
      BY <2>5, SaidHas DEF Said, Processes
    <3>2. Ahead(<<"created", n>>, <<"ended", n>>)
      BY DEF Ahead
    <3> QED BY <2>1, <2>6, <3>1, <3>2 DEF Flow, Lines
  <2>8. Held(n) \/ out[n].start # None
    BY <1>1, <2>1, <2>7 DEF Places, One
  <2>9. CASE out[n].start # None
    BY <2>2, <2>9
  <2>10. CASE Held(n)
    <3>1. PICK s \in asm.starts : s.seq = n
      BY <2>10 DEF Held
    <3>2. s.pid = born[n].pid /\ s.time = born[n].time
      BY <2>1, <3>1, PendingShape DEF FaithfulStart
    <3>3. s \in DueStarts(asm, at)
      BY <2>3, <2>4, <2>5, <3>1, <3>2 DEF HeldBack, IsOf, Before
    <3> QED BY <2>2, <3>1, <3>3
  <2> QED BY <2>8, <2>9, <2>10
<1>2. ASSUME Core, [Next]_vars, NEW n \in Processes PROVE First(n)
  <2>1. CASE Releases
    <3>1. now \in Nat /\ Lets(now)
      BY <1>2, <2>1 DEF Releases, Core, Flow, Typed, TypedClock
    <3> QED BY <1>1, <1>2, <3>1
  <2>2. CASE Finishes
    <3>1. Forever \in Nat /\ Lets(Forever)
      BY <1>2, <2>2, FinishesDue DEF Finishes
    <3> QED BY <1>1, <1>2, <3>1
  <2>3. CASE ~Releases /\ ~Finishes
    <3>1. out' = out
      BY <1>2, <2>3 DEF Next, Machine, Intake, Thread, TimePasses, Starts, Ends, Delivers, KernelDrops,
         CountsDropped, TellsHealth, Restarts, Stops, Receives, Counts, vars, ghosts
    <3> QED BY <3>1
  <2> QED BY <2>1, <2>2, <2>3
<1>3. Core /\ [Next]_vars =>
        [\A n \in Processes : out'[n].exit /\ ~out[n].exit =>
                                out'[n].start # None \/ <<"created", n>> \in missing]_vars
  BY <1>2
<1> QED BY <1>3, CoreAlways, PTL DEF Spec, StartsFirst

\* One of four places is one place.
LEMMA OneIsOne ==
  ASSUME NEW a \in BOOLEAN, NEW b \in BOOLEAN, NEW c \in BOOLEAN, NEW d \in BOOLEAN, One(a, b, c, d)
  PROVE  OneOf(<<a, b, c, d>>)
<1> DEFINE places == <<a, b, c, d>>
           at == {n \in 1..Len(places) : places[n]}
<1>1. Len(places) = 4 /\ places[1] = a /\ places[2] = b /\ places[3] = c /\ places[4] = d
  OBVIOUS
<1>2. \A n \in 1..Len(places) : n = 1 \/ n = 2 \/ n = 3 \/ n = 4
  BY <1>1
<1> HIDE DEF places
<1>3. \E n : at = {n}
  <2>1. CASE a
    <3>1. \A n \in 1..Len(places) : places[n] <=> n = 1
      BY <1>1, <1>2, <2>1 DEF One
    <3>2. at = {1}
      BY <1>1, <3>1
    <3> QED BY <3>2
  <2>2. CASE b
    <3>1. \A n \in 1..Len(places) : places[n] <=> n = 2
      BY <1>1, <1>2, <2>2 DEF One
    <3>2. at = {2}
      BY <1>1, <3>1
    <3> QED BY <3>2
  <2>3. CASE c
    <3>1. \A n \in 1..Len(places) : places[n] <=> n = 3
      BY <1>1, <1>2, <2>3 DEF One
    <3>2. at = {3}
      BY <1>1, <3>1
    <3> QED BY <3>2
  <2>4. CASE d
    <3>1. \A n \in 1..Len(places) : places[n] <=> n = 4
      BY <1>1, <1>2, <2>4 DEF One
    <3>2. at = {4}
      BY <1>1, <3>1
    <3> QED BY <3>2
  <2> QED BY <2>1, <2>2, <2>3, <2>4 DEF One
<1>4. Cardinality(at) = 1
  BY <1>3, FS_Singleton
<1> QED BY <1>4 DEF OneOf, places

LEMMA TypedOK == ASSUME Typed PROVE TypeOK
<1>1. /\ now \in Nat /\ wake_by \in Nat
  BY DEF Typed, TypedClock
<1>2. \A n \in Processes : born[n] \in [pid : Pids, time : Nat, task : BOOLEAN, ended : BOOLEAN]
  <2>1. born \in Seq(Lives)
    BY DEF Typed, TypedLines
  <2>2. \A n \in Processes : born[n] \in Lives
    BY <2>1 DEF Processes
  <2> QED BY <2>2 DEF Lives
<1>3. \A s \in Sessions : Range(underway[s]) \subseteq Raws
  BY DEF Typed, TypedLines, Range
<1>4. Range(inbox) \subseteq Raws \cup [kind : {"kernel_lost"}, total : Nat]
  BY DEF Typed, TypedLines, Range, Losses
<1>5. /\ full \in BOOLEAN /\ open \in BOOLEAN /\ restarted \in BOOLEAN
      /\ {dropped, events_lost, kernel_lost, dropped_seen, lost, outlost, counted} \subseteq Nat
  BY DEF Typed, TypedCounts
<1>6. pc \in {"wait", "drain", "release", "closed"}
  BY DEF Typed, TypedThread
<1>7. asm.launched \subseteq Raws /\ asm.scheduled \subseteq Raws /\ asm.exits \subseteq Raws
  BY AsmShape, KindsRaws DEF AsmType
<1>8. \A s \in asm.starts : s.launched \in Raws \cup {None} /\ s.task \in Raws \cup {None}
  <2>1. asm.starts \subseteq StartType
    BY AsmShape
  <2> QED BY <2>1, KindsRaws DEF StartType
<1>9. out \in [1..MaxBorn -> [start : StartOut \cup {None}, exit : BOOLEAN]]
  BY DEF Typed, TypedThread, Outs
<1> QED BY <1>1, <1>2, <1>3, <1>4, <1>5, <1>6, <1>7, <1>8, <1>9 DEF TypeOK

\* A start or an exit told is on its way, lost, pending or let out, and in one
\* of these only; at the end nothing is pending; each part of the state has
\* its type; and no loss counted is told twice, or left in the thread's hand
\* as it waits or ends (add, release, run, health).
THEOREM EveryEventIsAccounted == Spec => []Accounted
<1>1. Core /\ Tallied /\ Handed => Accounted
  <2> SUFFICES ASSUME Core, Tallied, Handed PROVE Accounted
    OBVIOUS
  <2>1. Typed /\ Places
    BY DEF Core, Flow
  <2>2. TypeOK /\ LossesCounted
    BY <2>1, TypedOK, TalliedCounted
  <2>3. \A name : Going(name) <=> OnTheWay(name)
    BY <2>1, WayNow
  <2>4. ASSUME NEW n \in Processes
        PROVE  OneOf(<<OnTheWay(<<"created", n>>), <<"created", n>> \in missing,
                       \E s \in asm.starts : s.seq = n, out[n].start # None>>)
    <3>1. One(OnTheWay(<<"created", n>>), <<"created", n>> \in missing,
              \E s \in asm.starts : s.seq = n, out[n].start # None)
      BY <2>1, <2>3 DEF Places, One, Held
    <3>2. /\ OnTheWay(<<"created", n>>) \in BOOLEAN /\ (<<"created", n>> \in missing) \in BOOLEAN
          /\ (\E s \in asm.starts : s.seq = n) \in BOOLEAN /\ (out[n].start # None) \in BOOLEAN
      BY DEF OnTheWay
    <3> QED BY <3>1, <3>2, OneIsOne
  <2>5. ASSUME NEW n \in Processes, born[n].ended
        PROVE  OneOf(<<OnTheWay(<<"ended", n>>), <<"ended", n>> \in missing,
                       \E e \in asm.exits : e.seq = n, out[n].exit>>)
    <3>1. One(OnTheWay(<<"ended", n>>), <<"ended", n>> \in missing,
              \E e \in asm.exits : e.seq = n, out[n].exit)
      BY <2>1, <2>3, <2>5 DEF Places, One, Exits
    <3>2. out[n].exit \in BOOLEAN
      <4>1. n \in 1..MaxBorn
        BY BornShape DEF Core, Flow
      <4> QED BY <2>1, <4>1 DEF Typed, TypedThread, Outs
    <3>3. /\ OnTheWay(<<"ended", n>>) \in BOOLEAN /\ (<<"ended", n>> \in missing) \in BOOLEAN
          /\ (\E e \in asm.exits : e.seq = n) \in BOOLEAN
      BY DEF OnTheWay
    <3> QED BY <3>1, <3>2, <3>3, OneIsOne
  <2>6. pc = "closed" => asm.starts = {} /\ asm.exits = {}
    BY <2>1 DEF Places
  <2> QED BY <2>2, <2>4, <2>5, <2>6 DEF Accounted
<1> QED BY <1>1, TalliedAlways, HandedAlways, PTL

\* IInv holds of every state, as Core, Halves and Tallied are kept.
LEMMA IInvAlways == Spec => []IInv
<1>1. Init => Core /\ Halves /\ Tallied
  BY InitCore, InitHalves, InitTallied
<1>2. Core /\ Halves /\ Tallied /\ [Next]_vars => (Core /\ Halves /\ Tallied)'
  BY NextCore, NextHalves, NextTallied DEF Core, Flow
<1>3. Core /\ Halves /\ Tallied => IInv
  BY DEF Core, Flow, IInv
<1> QED BY <1>1, <1>2, <1>3, PTL DEF Spec

\* Of a process nothing of whose pid was lost, the start goes out with the
\* command line of that process, and with its task when no other process had
\* the pid near it in time (add, take_nearest, release).
THEOREM StartsAreTheirOwn == Spec => []StartsAreWhole
<1>1. IInv => StartsAreWhole
  <2> SUFFICES ASSUME IInv, NEW n \in Processes, out[n].start # None, Lossless(born[n].pid)
               PROVE  /\ out[n].start.launched = n
                      /\ Alone(n) => out[n].start.task = IF born[n].task THEN n ELSE None
    BY DEF StartsAreWhole
  <2>1. Paired(n)
    BY DEF IInv, Halves, Launches, Whole
  <2>2. Alone(n) => Tasked(n)
    BY DEF IInv, Halves, Tasks, Whole
  <2>3. out[n].start.launched = n
    BY <2>1 DEF Paired
  <2>4. ASSUME Alone(n) PROVE out[n].start.task = IF born[n].task THEN n ELSE None
    BY <2>2, <2>4 DEF Tasked
  <2> QED BY <2>3, <2>4
<1> QED BY <1>1, IInvAlways, PTL
=============================================================================

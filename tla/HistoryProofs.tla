---------------------------- MODULE HistoryProofs ----------------------------
(***************************************************************************)
(* Proofs about the history (History), whatever its limits, the sizes of   *)
(* the events, the order of time they come in and the watchers.  It holds  *)
(* the latest of the events, each under an index that names it for good,   *)
(* and tells from when on nothing is missing.  Each watcher is given each  *)
(* event once but for those it is told it missed, is told of each loss     *)
(* once, and rests or ends with nothing unread.  The sums of sizes and of  *)
(* losses are reasoned about by induction on sets of numbers.              *)
(***************************************************************************)
EXTENDS History, FiniteSetTheorems, SequenceTheorems, NaturalsInduction, WellFoundedInduction, TLAPS

\* The types of what the thread lets out and holds.
Typed ==
  /\ now \in Nat /\ lost \in Nat
  /\ batch \in Seq(Event)
  /\ entries \in Seq(EntryType) /\ pushed \in Seq(EntryType)
  /\ first \in Nat /\ history_from \in Nat

IInv == Typed /\ HeldAreLatest /\ NothingMissingSince

\* What the invariant is about.
kept == <<now, lost, batch, entries, pushed, first, history_from>>

-----------------------------------------------------------------------------
\* A step that leaves the history alone keeps what is said of it.
LEMMA Stays ==
  ASSUME IInv, UNCHANGED <<entries, pushed, first, history_from>>,
         now' \in Nat, lost' \in Nat, batch' \in Seq(Event)
  PROVE  IInv'
BY DEF IInv, Typed, HeldAreLatest, NothingMissingSince

\* The invariant holds at first.
LEMMA Initially == Init => IInv
BY DEF Init, IInv, Typed, HeldAreLatest, NothingMissingSince

\* Batches let out are of events up to now.
LEMMA BatchesType ==
  ASSUME now \in Nat, NEW events \in Batches
  PROVE  events \in Seq(Event)
<1>1. Events \subseteq Event
  BY DEF Events, Event
<1>2. CASE events = <<>>
  BY <1>2
<1>3. ASSUME NEW e \in Events, events = <<e>> PROVE events \in Seq(Event)
  BY <1>1, <1>3
<1>4. ASSUME NEW e \in Events, NEW f \in Events, events = <<e, f>> PROVE events \in Seq(Event)
  BY <1>1, <1>4
<1> QED BY <1>2, <1>3, <1>4 DEF Batches

\* An event that goes in takes the next index.
LEMMA PushKeeps == IInv /\ Pushes => IInv'
<1> SUFFICES ASSUME IInv, Pushes PROVE IInv'
  OBVIOUS
<1> DEFINE entry == Entry(Head(batch))
<1>0. Typed /\ HeldAreLatest /\ NothingMissingSince
  BY DEF IInv
<1>1. /\ batch # <<>> /\ batch' = Tail(batch)
      /\ entries' = Append(entries, entry) /\ pushed' = Append(pushed, entry)
      /\ lost' = 0 /\ UNCHANGED <<now, first, history_from>>
  BY DEF Pushes, LostTaken
<1>2. entry \in EntryType
  <2>1. Head(batch) \in Event
    BY <1>0, <1>1 DEF Typed
  <2> QED BY <1>0, <2>1 DEF Typed, Entry, Event, EntryType
<1> HIDE DEF entry
<1>3. entries \in Seq(EntryType) /\ pushed \in Seq(EntryType) /\ first \in Nat
  BY <1>0 DEF Typed
<1>4. Typed'
  <2>1. entries' \in Seq(EntryType) /\ pushed' \in Seq(EntryType)
    BY <1>1, <1>2, <1>3
  <2>2. batch' \in Seq(Event)
    BY <1>0, <1>1 DEF Typed
  <2> QED BY <1>0, <1>1, <2>1, <2>2 DEF Typed
<1>5. /\ Len(entries') = Len(entries) + 1 /\ Len(pushed') = Len(pushed) + 1
      /\ Len(entries) \in Nat /\ Len(pushed) \in Nat
      /\ \A n \in 1..Len(entries) : entries'[n] = entries[n]
      /\ \A n \in 1..Len(pushed) : pushed'[n] = pushed[n]
      /\ entries'[Len(entries) + 1] = entry /\ pushed'[Len(pushed) + 1] = entry
  BY <1>1, <1>3
<1>6. first + Len(entries) = Len(pushed)
  BY <1>0 DEF HeldAreLatest
<1>7. HeldAreLatest'
  <2>1. ASSUME NEW n \in 1..Len(entries') PROVE entries'[n] = pushed'[first + n]
    <3>1. CASE n \in 1..Len(entries)
      <4>1. first + n \in 1..Len(pushed) /\ entries[n] = pushed[first + n]
        BY <1>0, <1>3, <1>5, <1>6, <3>1 DEF HeldAreLatest
      <4> QED BY <1>5, <3>1, <4>1
    <3>2. CASE n = Len(entries) + 1
      <4>1. first + n = Len(pushed) + 1
        <5>1. first + (Len(entries) + 1) = (first + Len(entries)) + 1
          BY <1>3, <1>5
        <5> QED BY <1>6, <3>2, <5>1
      <4> QED BY <1>5, <3>2, <4>1
    <3> QED BY <1>5, <2>1, <3>1, <3>2
  <2>2. first + Len(entries') = Len(pushed')
    BY <1>3, <1>5, <1>6
  <2>3. first' = first
    BY <1>1
  <2> QED BY <2>1, <2>2, <2>3 DEF HeldAreLatest
<1>8. NothingMissingSince'
  <2>1. \A n \in 1..first : n \in 1..Len(pushed)
    BY <1>3, <1>5, <1>6
  <2> QED BY <1>0, <1>1, <1>5, <2>1 DEF NothingMissingSince
<1> QED BY <1>4, <1>7, <1>8 DEF IInv

\* An event let go is older than what nothing is said to be missing from.
LEMMA EvictKeeps == IInv /\ Evicts => IInv'
<1> SUFFICES ASSUME IInv, Evicts PROVE IInv'
  OBVIOUS
<1>0. Typed /\ HeldAreLatest /\ NothingMissingSince
  BY DEF IInv
<1>1. /\ entries # <<>> /\ entries' = Tail(entries) /\ first' = first + 1
      /\ history_from' = From(Head(entries))
      /\ UNCHANGED <<now, batch, lost, pushed>>
  BY DEF Evicts, Overdue, NextFirst, thread
<1>2. entries \in Seq(EntryType) /\ pushed \in Seq(EntryType) /\ first \in Nat
  BY <1>0 DEF Typed
<1>3. /\ Len(entries) \in Nat /\ Len(entries) >= 1 /\ Len(entries') = Len(entries) - 1
      /\ \A n \in 1..Len(entries') : entries'[n] = entries[n + 1]
      /\ Head(entries) = entries[1]
  BY <1>1, <1>2
<1>4. first + Len(entries) = Len(pushed)
  BY <1>0 DEF HeldAreLatest
<1>5. entries[1] \in EntryType /\ entries[1] = pushed[first + 1]
  <2>1. 1 \in 1..Len(entries)
    BY <1>3
  <2>2. entries[1] \in EntryType
    BY <1>2, <2>1
  <2> QED BY <1>0, <2>1, <2>2 DEF HeldAreLatest
<1>6. /\ history_from' \in Nat /\ history_from' >= history_from
      /\ history_from' > pushed[first + 1].time
  <2>1. history_from' = LaterOf(history_from, entries[1].time + 1)
    BY <1>1, <1>3 DEF From
  <2>2. entries[1].time \in Nat /\ history_from \in Nat
    BY <1>0, <1>5 DEF Typed, EntryType
  <2> QED BY <1>5, <2>1, <2>2 DEF LaterOf
<1>7. Typed'
  <2>1. entries' \in Seq(EntryType)
    BY <1>1, <1>2
  <2> QED BY <1>0, <1>1, <1>6, <2>1 DEF Typed
<1>8. HeldAreLatest'
  <2>1. ASSUME NEW n \in 1..Len(entries') PROVE entries'[n] = pushed[(first + 1) + n]
    <3>1. n + 1 \in 1..Len(entries) /\ first + (n + 1) = (first + 1) + n
      BY <1>2, <1>3
    <3>2. entries[n + 1] = pushed[first + (n + 1)]
      BY <1>0, <3>1 DEF HeldAreLatest
    <3> QED BY <1>3, <3>1, <3>2
  <2> QED BY <1>1, <1>2, <1>3, <1>4, <2>1 DEF HeldAreLatest
<1>9. NothingMissingSince'
  <2>1. ASSUME NEW n \in 1..(first + 1) PROVE pushed[n].time < history_from'
    <3>1. CASE n = first + 1
      BY <1>6, <3>1, <1>5, <1>2 DEF EntryType
    <3>2. CASE n \in 1..first
      <4>1. pushed[n].time < history_from
        BY <1>0, <3>2 DEF NothingMissingSince
      <4>2. pushed[n] \in EntryType
        <5>1. n \in 1..Len(pushed)
          BY <1>2, <1>3, <1>4, <3>2
        <5> QED BY <1>2, <5>1
      <4>3. pushed[n].time \in Nat /\ history_from \in Nat
        BY <1>0, <4>2 DEF EntryType, Typed
      <4> QED BY <1>6, <4>1, <4>3
    <3> QED BY <1>2, <3>1, <3>2
  <2> QED BY <1>1, <2>1 DEF NothingMissingSince
<1> QED BY <1>7, <1>8, <1>9 DEF IInv

\* Every step keeps it.
LEMMA StepKeeps == IInv /\ [Next]_vars => IInv'
<1> SUFFICES ASSUME IInv, [Next]_vars PROVE IInv'
  OBVIOUS
<1>0. now \in Nat /\ lost \in Nat /\ batch \in Seq(Event)
  BY DEF IInv, Typed
<1>1. CASE TimePasses
  BY <1>0, <1>1, Stays DEF TimePasses, thread, history
<1>2. ASSUME NEW events \in Batches, NEW count \in 0..1, Releases(events, count) PROVE IInv'
  <2>1. batch' \in Seq(Event) /\ lost' \in Nat /\ now' \in Nat
    <3>1. events \in Seq(Event)
      BY <1>0, BatchesType
    <3> QED BY <1>0, <1>2, <3>1 DEF Releases
  <2> QED BY <1>2, <2>1, Stays DEF Releases
<1>3. CASE Held \/ Unlocks \/ Notifies \/ Closes
  <2>1. UNCHANGED kept
    BY <1>3 DEF Held, Unlocks, Notifies, Closes, history, kept
  <2> QED BY <1>0, <2>1, Stays DEF kept
<1>4. ASSUME NEW w \in Watchers, Watching(w) PROVE IInv'
  <2>1. UNCHANGED kept
    BY <1>4 DEF Watching, Hears, Reads, Decides, history, thread, kept
  <2> QED BY <1>0, <2>1, Stays DEF kept
<1>5. CASE UNCHANGED vars
  BY <1>0, <1>5, Stays DEF vars, history, thread
<1> QED
  BY <1>1, <1>2, <1>3, <1>4, <1>5, PushKeeps, EvictKeeps DEF Next, Thread, Releasing

-----------------------------------------------------------------------------
\* An index names one event for good: whatever is pushed and let go, what is
\* held is the latest of it, in its place (History::push, first).
THEOREM HeldStayLatest == Spec => []HeldAreLatest
<1>1. Spec => []IInv
  BY Initially, StepKeeps, PTL DEF Spec
<1>2. IInv => HeldAreLatest
  BY DEF IInv
<1> QED BY <1>1, <1>2, PTL

\* Nothing from history_from on was let go, though a later batch may carry an
\* earlier event (History::evict).
THEOREM NothingIsMissing == Spec => []NothingMissingSince
<1>1. Spec => []IInv
  BY Initially, StepKeeps, PTL DEF Spec
<1>2. IInv => NothingMissingSince
  BY DEF IInv
<1> QED BY <1>1, <1>2, PTL

-----------------------------------------------------------------------------
(***************************************************************************)
(* Sums over sequences, and the numbers they are proved by.                *)
(***************************************************************************)
\* What holds of nought and of each next number of those in it holds of all.
LEMMA Induction ==
  ASSUME NEW S, 0 \in S, \A n \in Nat : n \in S => n + 1 \in S
  PROVE  Nat \subseteq S
<1> DEFINE before == {pair \in Nat \X Nat : pair[1] < pair[2]}
           others == Nat \ S
<1> SUFFICES ASSUME others # {} PROVE FALSE
  OBVIOUS
<1>1. IsWellFoundedOn(before, Nat)
  BY NatLessThanWellFounded DEF OpToRel
<1>2. others \subseteq Nat
  OBVIOUS
<1> HIDE DEF before, others
<1>3. PICK least \in others : \A n \in others : <<n, least>> \notin before
  BY <1>1, <1>2, WFMin
<1>4. least \in Nat /\ least \notin S
  BY <1>3 DEF others
<1>5. least - 1 \in Nat /\ least - 1 < least /\ (least - 1) + 1 = least
  BY <1>4
<1>6. <<least - 1, least>> \in before
  BY <1>4, <1>5 DEF before
<1>7. least - 1 \in S
  BY <1>3, <1>5, <1>6 DEF others
<1> QED BY <1>4, <1>5, <1>7

\* A total is added up number by number.
LEMMA TotalStepwise ==
  ASSUME NEW s, Len(s) \in Nat
  PROVE  \E upto :
           /\ Total(s) = upto[Len(s)]
           /\ upto[0] = 0
           /\ \A n \in 1..Len(s) : upto[n] = upto[n - 1] + s[n]
<1> DEFINE At(g, n) == IF n = 0 THEN 0 ELSE g[n - 1] + s[n]
           Is(g, m) == g = [n \in 0..m |-> At(g, n)]
           there == {m \in Nat : \E g : Is(g, m)}
<1>1. 0 \in there
  <2>1. Is([n \in 0..0 |-> 0], 0)
    OBVIOUS
  <2> QED BY <2>1
<1>2. ASSUME NEW m \in Nat, m \in there PROVE m + 1 \in there
  <2>1. PICK g : Is(g, m)
    BY <1>2
  <2> DEFINE h == [n \in 0..m + 1 |-> IF n = m + 1 THEN g[m] + s[m + 1] ELSE g[n]]
  <2>2. \A n \in 0..m : h[n] = g[n] /\ g[n] = At(g, n)
    BY <2>1
  <2>3. ASSUME NEW n \in 0..m + 1 PROVE h[n] = At(h, n)
    <3>1. CASE n = m + 1
      <4>1. n # 0 /\ n - 1 = m /\ h[n] = g[m] + s[n] /\ h[m] = g[m]
        BY <2>2, <3>1
      <4> QED BY <4>1
    <3>2. CASE n # m + 1 /\ n = 0
      <4>1. n \in 0..m
        BY <3>2
      <4>2. h[n] = g[n] /\ g[n] = At(g, n)
        <5> HIDE DEF h, At
        <5> QED BY <2>2, <4>1
      <4>3. At(g, n) = 0 /\ At(h, n) = 0
        BY <3>2
      <4> QED BY <4>2, <4>3
    <3>3. CASE n # m + 1 /\ n # 0
      <4>1. n \in 0..m /\ n - 1 \in 0..m
        BY <3>3
      <4>2. h[n] = g[n] /\ h[n - 1] = g[n - 1] /\ g[n] = g[n - 1] + s[n]
        BY <2>2, <3>3, <4>1
      <4> QED BY <3>3, <4>2
    <3> QED BY <3>1, <3>2, <3>3
  <2>4. Is(h, m + 1)
    <3>1. DOMAIN h = 0..m + 1 /\ h = [n \in 0..m + 1 |-> h[n]]
      OBVIOUS
    <3> HIDE DEF h, At
    <3> QED BY <2>3, <3>1
  <2> HIDE DEF Is, h
  <2> QED BY <2>4
<1>3. Len(s) \in there
  <2> HIDE DEF there
  <2> QED BY <1>1, <1>2, Induction
<1> DEFINE upto == CHOOSE g : Is(g, Len(s))
<1>4. Is(upto, Len(s))
  <2> HIDE DEF Is
  <2> QED BY <1>3
<1>5. Total(s) = upto[Len(s)]
  BY DEF Total
<1> HIDE DEF upto
<1>6. \A n \in 0..Len(s) : upto[n] = At(upto, n)
  BY <1>4
<1> WITNESS upto
<1> QED BY <1>5, <1>6

\* Each sum on the way is a number.
LEMMA PartialTyped ==
  ASSUME NEW s \in Seq(Nat), NEW upto, upto[0] = 0,
         \A n \in 1..Len(s) : upto[n] = upto[n - 1] + s[n]
  PROVE  \A n \in 0..Len(s) : upto[n] \in Nat
<1> DEFINE fine == {n \in Nat : n <= Len(s) => upto[n] \in Nat}
<1>1. 0 \in fine
  OBVIOUS
<1>2. ASSUME NEW n \in Nat, n \in fine PROVE n + 1 \in fine
  <2> SUFFICES ASSUME n + 1 <= Len(s) PROVE upto[n + 1] \in Nat
    OBVIOUS
  <2>1. n + 1 \in 1..Len(s) /\ (n + 1) - 1 = n /\ n <= Len(s)
    OBVIOUS
  <2>2. upto[n] \in Nat /\ s[n + 1] \in Nat /\ upto[n + 1] = upto[n] + s[n + 1]
    BY <1>2, <2>1
  <2> QED BY <2>2
<1>3. Nat \subseteq fine
  <2> HIDE DEF fine
  <2> QED BY <1>1, <1>2, Induction
<1> QED BY <1>3

\* A total of numbers is a number.
LEMMA TotalTyped == ASSUME NEW s \in Seq(Nat) PROVE Total(s) \in Nat
<1>1. PICK upto : /\ Total(s) = upto[Len(s)] /\ upto[0] = 0
                  /\ \A n \in 1..Len(s) : upto[n] = upto[n - 1] + s[n]
  BY TotalStepwise
<1>2. Len(s) \in 0..Len(s)
  OBVIOUS
<1> QED BY <1>1, <1>2, PartialTyped

\* The numbers t are those of s, with those of r added after the a-th.
Adds(t, s, r, a) ==
  /\ Len(t) = Len(s) /\ a + Len(r) <= Len(s)
  /\ \A n \in 1..Len(s) : t[n] = s[n] + (IF a < n /\ n <= a + Len(r) THEN r[n - a] ELSE 0)

\* Numbers added to some of those in a row add as much to their total.
LEMMA TotalAdds ==
  ASSUME NEW s \in Seq(Nat), NEW t \in Seq(Nat), NEW r \in Seq(Nat), NEW a \in Nat,
         Adds(t, s, r, a)
  PROVE  Total(t) = Total(s) + Total(r)
<1>0. Len(s) \in Nat /\ Len(t) \in Nat /\ Len(r) \in Nat
      /\ Len(t) = Len(s) /\ a + Len(r) <= Len(s)
  BY DEF Adds
<1>1. PICK us : /\ Total(s) = us[Len(s)] /\ us[0] = 0
                /\ \A n \in 1..Len(s) : us[n] = us[n - 1] + s[n]
  BY <1>0, TotalStepwise
<1>2. PICK ut : /\ Total(t) = ut[Len(t)] /\ ut[0] = 0
                /\ \A n \in 1..Len(t) : ut[n] = ut[n - 1] + t[n]
  BY <1>0, TotalStepwise
<1>3. PICK ur : /\ Total(r) = ur[Len(r)] /\ ur[0] = 0
                /\ \A n \in 1..Len(r) : ur[n] = ur[n - 1] + r[n]
  BY <1>0, TotalStepwise
<1> DEFINE from == [n \in 0..Len(s) |-> IF n <= a THEN 0 ELSE IF n <= a + Len(r) THEN n - a ELSE Len(r)]
           fine == {n \in Nat : n <= Len(s) => ut[n] = us[n] + ur[from[n]]}
<1>4. 0 \in fine
  BY <1>1, <1>2, <1>3
<1>5. ASSUME NEW n \in Nat, n \in fine PROVE n + 1 \in fine
  <2> SUFFICES ASSUME n + 1 <= Len(s) PROVE ut[n + 1] = us[n + 1] + ur[from[n + 1]]
    OBVIOUS
  <2>1. /\ n + 1 \in 1..Len(s) /\ n + 1 \in 1..Len(t) /\ (n + 1) - 1 = n /\ n <= Len(s)
      /\ n \in 0..Len(s) /\ n + 1 \in 0..Len(s)
    BY <1>0
  <2>2. /\ us[n + 1] = us[n] + s[n + 1] /\ ut[n + 1] = ut[n] + t[n + 1]
        /\ ut[n] = us[n] + ur[from[n]]
    BY <1>1, <1>2, <1>5, <2>1
  <2>3. us[n] \in Nat /\ s[n + 1] \in Nat /\ from[n] \in 0..Len(r) /\ ur[from[n]] \in Nat
    <3>1. us[n] \in Nat
      BY <1>1, <2>1, PartialTyped
    <3>2. from[n] \in 0..Len(r)
      BY <1>0, <2>1
    <3> HIDE DEF from
    <3>3. ur[from[n]] \in Nat
      BY <1>3, <3>2, PartialTyped
    <3> QED BY <2>1, <3>1, <3>2, <3>3
  <2>4. CASE a < n + 1 /\ n + 1 <= a + Len(r)
    <3> PICK k \in Nat : k = n - a
      BY <1>0, <2>4
    <3>1. /\ k \in Nat /\ k + 1 \in 1..Len(r) /\ (k + 1) - 1 = k /\ (n + 1) - a = k + 1
      BY <1>0, <2>4
    <3>2. from[n] = k /\ from[n + 1] = k + 1
      BY <1>0, <2>1, <2>4
    <3>3. ur[k + 1] = ur[k] + r[k + 1] /\ r[k + 1] \in Nat
      <4>1. r[k + 1] \in Nat
        BY <3>1
      <4>2. ur[k + 1] = ur[(k + 1) - 1] + r[k + 1]
        BY <1>3, <3>1
      <4> QED BY <3>1, <4>1, <4>2
    <3>4. t[n + 1] = s[n + 1] + r[k + 1]
      BY <2>1, <2>4, <3>1 DEF Adds
    <3>5. ut[n] = us[n] + ur[k] /\ ur[k] \in Nat
      <4> HIDE DEF from
      <4> QED BY <2>2, <2>3, <3>2
    <3> HIDE DEF from
    <3>6. ut[n + 1] = us[n + 1] + ur[k + 1]
      <4>1. us[n + 1] = us[n] + s[n + 1] /\ ut[n + 1] = ut[n] + t[n + 1]
        BY <2>2
      <4>2. us[n] \in Nat /\ s[n + 1] \in Nat
        BY <2>3
      <4>3. ut[n + 1] = (us[n] + ur[k]) + (s[n + 1] + r[k + 1])
        BY <3>4, <3>5, <4>1
      <4>4. us[n + 1] + ur[k + 1] = (us[n] + s[n + 1]) + (ur[k] + r[k + 1])
        BY <3>3, <4>1
      <4>5. (us[n] + ur[k]) + (s[n + 1] + r[k + 1]) = (us[n] + s[n + 1]) + (ur[k] + r[k + 1])
        BY <3>3, <3>5, <4>2, SMTT(20)
      <4> QED BY <4>3, <4>4, <4>5
    <3> QED BY <3>2, <3>6
  <2>5. CASE ~(a < n + 1 /\ n + 1 <= a + Len(r))
    <3>1. from[n + 1] = from[n]
      <4>1. CASE n + 1 <= a
        BY <1>0, <2>1, <4>1
      <4>2. CASE n = a + Len(r)
        BY <1>0, <2>1, <4>2
      <4>3. CASE n > a + Len(r)
        BY <1>0, <2>1, <4>3
      <4>4. n + 1 <= a \/ n = a + Len(r) \/ n > a + Len(r)
        <5> HIDE DEF from
        <5> PICK m \in Nat : m = Len(r)
          BY <1>0
        <5>1. ~(a < n + 1 /\ n + 1 <= a + m)
          BY <2>5
        <5>2. n + 1 <= a \/ n = a + m \/ n > a + m
          BY <5>1
        <5> QED BY <5>2
      <4> QED BY <4>1, <4>2, <4>3, <4>4
    <3>2. t[n + 1] = s[n + 1] + 0
      BY <2>1, <2>5 DEF Adds
    <3> HIDE DEF from
    <3>3. ut[n + 1] = us[n + 1] + ur[from[n]]
      BY <2>2, <2>3, <3>2
    <3> QED BY <3>1, <3>3
  <2> QED BY <2>4, <2>5
<1>6. Len(s) \in fine
  <2> HIDE DEF fine
  <2> QED BY <1>0, <1>4, <1>5, Induction
<1>7. ut[Len(s)] = us[Len(s)] + ur[from[Len(s)]]
  BY <1>0, <1>6
<1>8. from[Len(s)] = Len(r)
  <2>1. Len(s) \in 0..Len(s)
    BY <1>0
  <2>2. CASE Len(s) <= a
    BY <1>0, <2>1, <2>2
  <2>3. CASE ~(Len(s) <= a) /\ Len(s) = a + Len(r)
    BY <1>0, <2>1, <2>3
  <2>4. CASE ~(Len(s) <= a) /\ Len(s) # a + Len(r)
    BY <1>0, <2>1, <2>4
  <2> QED BY <2>2, <2>3, <2>4
<1> HIDE DEF from
<1>9. Total(t) = us[Len(s)] + ur[Len(r)]
  BY <1>0, <1>2, <1>7, <1>8
<1> QED BY <1>1, <1>3, <1>9

\* Sums that step alike come out alike.
LEMMA SameSums ==
  ASSUME NEW N \in Nat, NEW f, NEW g, f[0] = g[0],
         \A n \in 1..N : f[n - 1] = g[n - 1] => f[n] = g[n]
  PROVE  f[N] = g[N]
<1> DEFINE fine == {n \in Nat : n <= N => f[n] = g[n]}
<1>1. 0 \in fine
  OBVIOUS
<1>2. ASSUME NEW n \in Nat, n \in fine PROVE n + 1 \in fine
  <2> SUFFICES ASSUME n + 1 <= N PROVE f[n + 1] = g[n + 1]
    OBVIOUS
  <2>1. n + 1 \in 1..N /\ (n + 1) - 1 = n /\ f[n] = g[n]
    BY <1>2
  <2> QED BY <2>1
<1>3. N \in fine
  <2> HIDE DEF fine
  <2> QED BY <1>1, <1>2, Induction
<1> QED BY <1>3

\* A number at the end adds to the total.
LEMMA TotalAppend ==
  ASSUME NEW s \in Seq(Nat), NEW x \in Nat
  PROVE  Total(Append(s, x)) = Total(s) + x
<1> DEFINE t == Append(s, x)
<1>0. /\ Len(s) \in Nat /\ Len(t) = Len(s) + 1 /\ Len(t) \in Nat
      /\ \A n \in 1..Len(s) : t[n] = s[n]
      /\ t[Len(s) + 1] = x
  OBVIOUS
<1> HIDE DEF t
<1>1. PICK us : /\ Total(s) = us[Len(s)] /\ us[0] = 0
                /\ \A n \in 1..Len(s) : us[n] = us[n - 1] + s[n]
  BY <1>0, TotalStepwise
<1>2. PICK ut : /\ Total(t) = ut[Len(t)] /\ ut[0] = 0
                /\ \A n \in 1..Len(t) : ut[n] = ut[n - 1] + t[n]
  <2>1. Len(t) \in Nat
    BY <1>0
  <2> QED BY <2>1, TotalStepwise
<1>3. ut[Len(s)] = us[Len(s)]
  <2>1. ASSUME NEW n \in 1..Len(s), ut[n - 1] = us[n - 1] PROVE ut[n] = us[n]
    <3>1. n \in 1..Len(t) /\ t[n] = s[n]
      BY <1>0
    <3> QED BY <1>1, <1>2, <2>1, <3>1
  <2> QED BY <1>0, <1>1, <1>2, <2>1, SameSums
<1>4. ut[Len(s) + 1] = ut[Len(s)] + x
  <2>1. Len(s) + 1 \in 1..Len(t) /\ (Len(s) + 1) - 1 = Len(s)
    BY <1>0
  <2> QED BY <1>0, <1>2, <2>1
<1>5. Total(t) = Total(s) + x
  BY <1>0, <1>1, <1>2, <1>3, <1>4
<1> QED BY <1>5 DEF t

\* Noughts come to nought.
LEMMA TotalOfNothing ==
  ASSUME NEW s \in Seq(Nat), \A n \in 1..Len(s) : s[n] = 0
  PROVE  Total(s) = 0
<1>1. Len(s) \in Nat /\ 0 + Len(s) <= Len(s) /\ 0 \in Nat
  OBVIOUS
<1>2. ASSUME NEW n \in 1..Len(s)
      PROVE  s[n] = s[n] + (IF 0 < n /\ n <= 0 + Len(s) THEN s[n - 0] ELSE 0)
  <2>1. n \in Nat /\ n - 0 = n /\ s[n] = 0
    BY <1>1
  <2> QED BY <2>1
<1>3. Adds(s, s, s, 0)
  BY <1>1, <1>2 DEF Adds
<1>4. Total(s) = Total(s) + Total(s)
  BY <1>1, <1>3, TotalAdds
<1>5. Total(s) \in Nat
  BY TotalTyped
<1> QED BY <1>4, <1>5

\* A total is the first number and the total of the others.
LEMMA TotalTail ==
  ASSUME NEW s \in Seq(Nat), s # <<>>
  PROVE  Total(s) = s[1] + Total(Tail(s))
<1> DEFINE r == Tail(s)
           t == [n \in 1..Len(s) |-> IF n = 1 THEN s[1] ELSE 0]
           o == [n \in 1..Len(s) |-> 0]
           e == <<s[1]>>
<1>0. /\ Len(s) \in Nat /\ Len(s) >= 1 /\ s[1] \in Nat
      /\ r \in Seq(Nat) /\ Len(r) = Len(s) - 1 /\ Len(r) \in Nat
      /\ \A n \in 1..Len(r) : r[n] = s[n + 1]
  OBVIOUS
<1>1. t \in Seq(Nat) /\ o \in Seq(Nat) /\ Len(t) = Len(s) /\ Len(o) = Len(s)
  BY <1>0
<1>2. e \in Seq(Nat) /\ Len(e) = 1 /\ e[1] = s[1]
  BY <1>0
<1>3. Total(e) = s[1]
  <2>1. << >> \in Seq(Nat) /\ Total(<< >>) = 0
    <3>1. << >> \in Seq(Nat) /\ \A n \in 1..Len(<< >>) : << >>[n] = 0
      OBVIOUS
    <3> QED BY <3>1, TotalOfNothing
  <2>2. e = Append(<< >>, s[1])
    BY <1>0
  <2>3. Total(Append(<< >>, s[1])) = Total(<< >>) + s[1]
    BY <1>0, <2>1, TotalAppend
  <2> QED BY <1>0, <2>1, <2>2, <2>3
<1>4. Total(o) = 0
  <2>1. \A n \in 1..Len(o) : o[n] = 0
    BY <1>1
  <2> HIDE DEF o
  <2> QED BY <1>1, <2>1, TotalOfNothing
<1>5. Adds(t, o, e, 0)
  <2>1. ASSUME NEW n \in 1..Len(o)
        PROVE  t[n] = o[n] + (IF 0 < n /\ n <= 0 + Len(e) THEN e[n - 0] ELSE 0)
    <3>1. CASE n = 1
      BY <1>0, <1>1, <1>2, <3>1
    <3>2. CASE n # 1
      BY <1>0, <1>1, <1>2, <3>2
    <3> QED BY <3>1, <3>2
  <2> HIDE DEF t, o, e
  <2> QED BY <1>0, <1>1, <1>2, <2>1 DEF Adds
<1>6. Adds(s, t, r, 1)
  <2>1. ASSUME NEW n \in 1..Len(t)
        PROVE  s[n] = t[n] + (IF 1 < n /\ n <= 1 + Len(r) THEN r[n - 1] ELSE 0)
    <3>1. CASE n = 1
      BY <1>0, <1>1, <3>1
    <3>2. CASE n # 1
      <4>1. n - 1 \in 1..Len(r) /\ (n - 1) + 1 = n /\ n <= 1 + Len(r) /\ 1 < n
        BY <1>0, <1>1, <3>2
      <4>2. r[n - 1] = s[n] /\ t[n] = 0 /\ s[n] \in Nat
        BY <1>0, <1>1, <3>2, <4>1
      <4> HIDE DEF r, t
      <4> QED BY <4>1, <4>2
    <3> QED BY <3>1, <3>2
  <2> HIDE DEF t, r
  <2> QED BY <1>0, <1>1, <2>1 DEF Adds
<1> HIDE DEF t, o, e, r
<1>7. Total(t) = Total(o) + Total(e)
  BY <1>1, <1>2, <1>5, TotalAdds
<1>8. Total(s) = Total(t) + Total(r)
  BY <1>0, <1>1, <1>6, TotalAdds
<1>9. Total(t) = s[1]
  BY <1>0, <1>3, <1>4, <1>7
<1>10. Total(s) = s[1] + Total(r)
  BY <1>8, <1>9
<1> QED BY <1>10 DEF r

-----------------------------------------------------------------------------
(***************************************************************************)
(* The account of each watcher.                                            *)
(***************************************************************************)
\* What a sequence of entries gave a watcher of the losses.
GivenOf(s, got) == [n \in 1..Len(s) |-> IF n - 1 \in got THEN s[n].lost_before ELSE 0]

\* The numbers of entries are numbers.
LEMMA EntriesType ==
  ASSUME NEW e \in EntryType
  PROVE  e.size \in Nat /\ e.lost_before \in Nat /\ e.time \in Nat
BY SizesAssumption DEF EntryType

\* So are those of a sequence of them.
LEMMA SumsType ==
  ASSUME NEW s \in Seq(EntryType)
  PROVE  /\ SizesOf(s) \in Seq(Nat) /\ Len(SizesOf(s)) = Len(s)
         /\ LossesOf(s) \in Seq(Nat) /\ Len(LossesOf(s)) = Len(s)
         /\ SizeOf(s) \in Nat /\ LossesIn(s) \in Nat
<1>1. Len(s) \in Nat /\ \A n \in 1..Len(s) : s[n].size \in Nat /\ s[n].lost_before \in Nat
  <2>1. ASSUME NEW n \in 1..Len(s) PROVE s[n].size \in Nat /\ s[n].lost_before \in Nat
    <3>1. s[n] \in EntryType
      OBVIOUS
    <3> QED BY <3>1, EntriesType
  <2> QED BY <2>1
<1>2. SizesOf(s) \in Seq(Nat) /\ Len(SizesOf(s)) = Len(s)
  BY <1>1 DEF SizesOf
<1>3. LossesOf(s) \in Seq(Nat) /\ Len(LossesOf(s)) = Len(s)
  BY <1>1 DEF LossesOf
<1>4. SizeOf(s) \in Nat
  BY <1>2, TotalTyped DEF SizeOf
<1>5. LossesIn(s) \in Nat
  BY <1>3, TotalTyped DEF LossesIn
<1> QED BY <1>2, <1>3, <1>4, <1>5

\* An entry more has its size and its losses more.
LEMMA SumsOfAppend ==
  ASSUME NEW s \in Seq(EntryType), NEW e \in EntryType
  PROVE  /\ SizeOf(Append(s, e)) = SizeOf(s) + e.size
         /\ LossesIn(Append(s, e)) = LossesIn(s) + e.lost_before
<1>1. e.size \in Nat /\ e.lost_before \in Nat
  BY EntriesType
<1>2. Len(s) \in Nat
  OBVIOUS
<1>3. SizesOf(Append(s, e)) = Append(SizesOf(s), e.size)
  BY <1>1, <1>2 DEF SizesOf
<1>4. LossesOf(Append(s, e)) = Append(LossesOf(s), e.lost_before)
  BY <1>1, <1>2 DEF LossesOf
<1>5. SizesOf(s) \in Seq(Nat) /\ LossesOf(s) \in Seq(Nat)
  BY SumsType
<1>6. /\ Total(Append(SizesOf(s), e.size)) = Total(SizesOf(s)) + e.size
      /\ Total(Append(LossesOf(s), e.lost_before)) = Total(LossesOf(s)) + e.lost_before
  BY <1>1, <1>5, TotalAppend
<1> QED BY <1>3, <1>4, <1>6 DEF SizeOf, LossesIn

\* An entry fewer has its size less.
LEMMA SizeOfTail ==
  ASSUME NEW s \in Seq(EntryType), s # << >>
  PROVE  SizeOf(s) = s[1].size + SizeOf(Tail(s))
<1>1. /\ Len(s) \in Nat /\ Len(s) >= 1 /\ Len(Tail(s)) = Len(s) - 1
      /\ \A n \in 1..Len(Tail(s)) : Tail(s)[n] = s[n + 1]
  OBVIOUS
<1>2. SizesOf(s) \in Seq(Nat) /\ Len(SizesOf(s)) = Len(s) /\ SizesOf(s) # << >>
  BY <1>1, SumsType
<1>3. SizesOf(s)[1] = s[1].size
  BY <1>1 DEF SizesOf
<1>4. SizesOf(Tail(s)) = Tail(SizesOf(s))
  BY <1>1 DEF SizesOf
<1>5. Total(SizesOf(s)) = SizesOf(s)[1] + Total(Tail(SizesOf(s)))
  BY <1>2, TotalTail
<1> QED BY <1>3, <1>4, <1>5 DEF SizeOf

\* What was given is numbers, and nothing if no entry was given.
LEMMA GivenType ==
  ASSUME NEW s \in Seq(EntryType), NEW got
  PROVE  /\ GivenOf(s, got) \in Seq(Nat) /\ Len(GivenOf(s, got)) = Len(s)
         /\ Total(GivenOf(s, got)) \in Nat
         /\ got = {} => Total(GivenOf(s, got)) = 0
<1>1. Len(s) \in Nat /\ \A n \in 1..Len(s) : s[n].lost_before \in Nat
  <2>1. ASSUME NEW n \in 1..Len(s) PROVE s[n].lost_before \in Nat
    <3>1. s[n] \in EntryType
      OBVIOUS
    <3> QED BY <3>1, EntriesType
  <2> QED BY <2>1
<1>2. GivenOf(s, got) \in Seq(Nat) /\ Len(GivenOf(s, got)) = Len(s)
  BY <1>1 DEF GivenOf
<1>3. Total(GivenOf(s, got)) \in Nat
  BY <1>2, TotalTyped
<1>4. ASSUME got = {} PROVE Total(GivenOf(s, got)) = 0
  <2>1. \A n \in 1..Len(GivenOf(s, got)) : GivenOf(s, got)[n] = 0
    BY <1>1, <1>4 DEF GivenOf
  <2> QED BY <1>2, <2>1, TotalOfNothing
<1> QED BY <1>2, <1>3, <1>4

\* An entry pushed was given to nobody yet.
LEMMA GivenOfAppend ==
  ASSUME NEW s \in Seq(EntryType), NEW e \in EntryType, NEW got, Len(s) \notin got
  PROVE  Total(GivenOf(Append(s, e), got)) = Total(GivenOf(s, got))
<1>1. /\ Len(s) \in Nat /\ Len(Append(s, e)) = Len(s) + 1
      /\ \A n \in 1..Len(s) : Append(s, e)[n] = s[n]
  OBVIOUS
<1>2. GivenOf(s, got) \in Seq(Nat) /\ Len(GivenOf(s, got)) = Len(s)
  BY GivenType
<1>3. GivenOf(Append(s, e), got) = Append(GivenOf(s, got), 0)
  BY <1>1 DEF GivenOf
<1>4. Total(Append(GivenOf(s, got), 0)) = Total(GivenOf(s, got)) + 0
  BY <1>2, TotalAppend
<1>5. Total(GivenOf(s, got)) \in Nat
  BY GivenType
<1> QED BY <1>3, <1>4, <1>5

\* A batch given is given with the losses that went with it.
LEMMA GivenOfBatch ==
  ASSUME NEW s \in Seq(EntryType), NEW r \in Seq(EntryType), NEW got,
         NEW p \in Nat, p + Len(r) <= Len(s), got \subseteq 0..(p - 1),
         \A n \in 1..Len(r) : r[n] = s[p + n]
  PROVE  Total(GivenOf(s, got \cup p..(p + Len(r) - 1))) = Total(GivenOf(s, got)) + LossesIn(r)
<1> DEFINE now_got == got \cup p..(p + Len(r) - 1)
           t == GivenOf(s, now_got)
           u == GivenOf(s, got)
           l == LossesOf(r)
<1>0. Len(s) \in Nat /\ Len(r) \in Nat
  OBVIOUS
<1>1. /\ t \in Seq(Nat) /\ u \in Seq(Nat) /\ Len(t) = Len(s) /\ Len(u) = Len(s)
      /\ l \in Seq(Nat) /\ Len(l) = Len(r)
  BY GivenType, SumsType
<1>2. ASSUME NEW n \in 1..Len(u)
      PROVE  t[n] = u[n] + (IF p < n /\ n <= p + Len(l) THEN l[n - p] ELSE 0)
  <2>0. n \in 1..Len(s) /\ n \in Nat /\ u[n] \in Nat
    BY <1>0, <1>1
  <2>1. CASE p < n /\ n <= p + Len(r)
    <3>1. n - p \in 1..Len(r) /\ p + (n - p) = n
      BY <1>0, <2>0, <2>1
    <3>2. l[n - p] = s[n].lost_before /\ l[n - p] \in Nat
      <4>1. l[n - p] \in Nat
        <5> HIDE DEF l, t, u, now_got
        <5>1. l \in [1..Len(r) -> Nat]
          BY <1>1, SMTT(20)
        <5> QED BY <5>1, <3>1, Zenon
      <4>2. l[n - p] = r[n - p].lost_before
        BY <3>1 DEF LossesOf
      <4>3. r[n - p] = s[p + (n - p)]
        BY <3>1
      <4> QED BY <3>1, <4>1, <4>2, <4>3
    <3>3. n - 1 \in now_got /\ n - 1 \notin got
      BY <1>0, <2>0, <2>1
    <3>4. t[n] = s[n].lost_before /\ u[n] = 0
      <4> HIDE DEF now_got
      <4> QED BY <2>0, <3>3 DEF GivenOf
    <3> HIDE DEF t, u, l
    <3> QED BY <1>1, <2>1, <3>2, <3>4, SMTT(20)
  <2>2. CASE ~(p < n /\ n <= p + Len(r))
    <3>1. n - 1 \in now_got <=> n - 1 \in got
      BY <1>0, <2>0, <2>2
    <3>2. t[n] = u[n]
      <4> HIDE DEF now_got
      <4> QED BY <2>0, <3>1 DEF GivenOf
    <3> HIDE DEF t, u, l
    <3> QED BY <1>1, <2>0, <2>2, <3>2
  <2> QED BY <2>1, <2>2
<1> HIDE DEF t, u, l
<1>3. Adds(t, u, l, p)
  BY <1>0, <1>1, <1>2 DEF Adds
<1>4. Total(t) = Total(u) + Total(l)
  BY <1>1, <1>3, TotalAdds
<1> QED BY <1>4 DEF t, u, l, LossesIn

\* As many entries are read as fit, and none only if there are none.
LEMMA BatchFits ==
  ASSUME entries \in Seq(EntryType), NEW place \in 0..Len(entries)
  PROVE  /\ Batch(place) \in 0..(Len(entries) - place)
         /\ Batch(place) = 0 => place = Len(entries)
<1> DEFINE m == Len(entries) - place
           Is(k) == Fits(place, k) /\ (k = m \/ ~Fits(place, k + 1))
           fine == {k \in Nat : k <= m => Fits(place, k)}
<1>0. Len(entries) \in Nat /\ m \in Nat /\ place \in Nat
  OBVIOUS
<1>1. \E k \in 0..m : Is(k)
  <2> SUFFICES ASSUME \A k \in 0..m : ~Is(k) PROVE FALSE
    OBVIOUS
  <2> HIDE DEF m
  <2>1. 0 \in fine
    BY DEF Fits
  <2>2. ASSUME NEW k \in Nat, k \in fine PROVE k + 1 \in fine
    <3> SUFFICES ASSUME k + 1 <= m PROVE Fits(place, k + 1)
      OBVIOUS
    <3>1. k \in 0..m /\ k # m /\ k <= m
      BY <1>0
    <3>2. Fits(place, k)
      BY <2>2, <3>1
    <3> QED BY <3>1, <3>2
  <2>3. m \in fine
    <3> HIDE DEF fine
    <3> QED BY <1>0, <2>1, <2>2, Induction
  <2>4. m \in 0..m /\ Is(m)
    BY <1>0, <2>3
  <2> QED BY <2>4
<1>2. Batch(place) = CHOOSE k \in 0..m : Is(k)
  BY DEF Batch
<1>3. Batch(place) \in 0..m /\ Is(Batch(place))
  <2> HIDE DEF Is, m
  <2> QED BY <1>1, <1>2
<1>4. ASSUME Batch(place) = 0, place # Len(entries) PROVE FALSE
  <2>1. ~Fits(place, 0 + 1)
    BY <1>0, <1>3, <1>4
  <2> QED BY <2>1 DEF Fits
<1> QED BY <1>3, <1>4

\* Where the thread is, and what it holds, as it goes on.
Threads ==
  /\ losses \in Nat /\ generation \in Nat /\ closed \in BOOLEAN
  /\ pc \in {"recv", "push", "last", "evict", "evict last", "tell", "tell last", "close",
             "tell closed", "ended"}
  /\ bytes = SizeOf(entries)
  /\ LossesIn(pushed) + lost = losses
  /\ closed => pc \in {"tell closed", "ended"}

CursorType ==
  [at : {"out", "read", "nothing", "await", "ended"}, heard : Nat, closed : BOOLEAN,
   started : BOOLEAN, next : Nat, start : Nat, got : SUBSET Nat, skipped : Nat, lost : Nat]

\* What a watcher at c was given of the entries s.
Account(c, s) ==
  /\ ~c.started => c.next = 0 /\ c.start = 0 /\ c.got = {} /\ c.skipped = 0
  /\ c.start <= c.next /\ c.next <= Len(s)
  /\ c.got \subseteq c.start..(c.next - 1)
  /\ Cardinality(c.got) + c.skipped = c.next - c.start
  /\ c.lost = c.skipped + Total(GivenOf(s, c.got))

\* Where the thread has news a watcher has yet to hear.
Telling == {"push", "last", "evict", "evict last", "tell", "tell last"}

\* What a watcher at c has yet to hear, with count entries pushed.
News(c, count, told, over, where) ==
  /\ c.heard <= told
  /\ c.closed => over
  /\ c.at \in {"nothing", "await"} => \/ c.next = count
                                      \/ c.heard < told
                                      \/ where \in Telling
  /\ c.at = "nothing" /\ c.closed => c.next = count
  /\ c.at = "ended" => over /\ c.next = count

Cursors ==
  /\ watch \in [Watchers -> CursorType]
  /\ \A w \in Watchers : /\ Account(watch[w], pushed)
                         /\ News(watch[w], Len(pushed), generation, closed, pc)

AInv == IInv /\ Threads /\ Cursors

-----------------------------------------------------------------------------
\* It holds at first.
LEMMA AccountedAtFirst == Init => AInv
<1> SUFFICES ASSUME Init PROVE AInv
  OBVIOUS
<1>1. << >> \in Seq(EntryType) /\ << >> \in Seq(Nat) /\ Len(<< >>) = 0
  OBVIOUS
<1>2. SizesOf(<< >>) \in Seq(Nat) /\ LossesOf(<< >>) \in Seq(Nat)
      /\ Len(SizesOf(<< >>)) = 0 /\ Len(LossesOf(<< >>)) = 0
  BY <1>1, SumsType
<1>3. SizeOf(<< >>) = 0 /\ LossesIn(<< >>) = 0
  <2>1. \A n \in 1..0 : n \notin 1..0
    OBVIOUS
  <2> QED BY <1>2, TotalOfNothing DEF SizeOf, LossesIn
<1>4. Threads
  <2>1. SizeOf(entries) = 0 /\ LossesIn(pushed) = 0
    BY <1>3 DEF Init
  <2>2. LossesIn(pushed) + lost = losses
    <3>1. lost = 0 /\ losses = 0
      BY DEF Init
    <3>2. 0 + 0 = 0
      OBVIOUS
    <3> QED BY <2>1, <3>1, <3>2
  <2>3. losses = 0 /\ generation = 0 /\ closed = FALSE /\ pc = "recv" /\ bytes = 0
    BY DEF Init
  <2>4. bytes = SizeOf(entries) /\ losses \in Nat /\ generation \in Nat /\ closed \in BOOLEAN
        /\ ~closed
    BY <2>1, <2>3
  <2> QED BY <2>2, <2>3, <2>4 DEF Threads
<1>5. Cursor \in CursorType
  BY DEF Cursor, CursorType
<1>6. Account(Cursor, << >>)
  <2>1. Total(GivenOf(<< >>, {})) = 0
    BY <1>1, GivenType
  <2>2. Cardinality({}) = 0
    BY FS_EmptySet
  <2> QED BY <1>1, <2>1, <2>2 DEF Account, Cursor
<1>7. News(Cursor, 0, 0, FALSE, "recv")
  BY DEF News, Cursor
<1>8. Cursors
  <2>1. watch = [w \in Watchers |-> Cursor]
    BY DEF Init
  <2>2. \A w \in Watchers : watch[w] = Cursor
    BY <2>1
  <2>3. watch \in [Watchers -> CursorType]
    BY <1>5, <2>1
  <2> QED BY <1>1, <1>6, <1>7, <2>2, <2>3 DEF Init, Cursors
<1> QED BY <1>4, <1>8, Initially DEF AInv

\* The thread's sums go on as it does.
LEMMA ThreadsKeep == AInv /\ [Next]_vars => Threads'
<1> SUFFICES ASSUME AInv, [Next]_vars PROVE Threads'
  OBVIOUS
<1>0. Typed /\ Threads
  BY DEF AInv, IInv
<1>1. entries \in Seq(EntryType) /\ pushed \in Seq(EntryType) /\ lost \in Nat /\ bytes \in Nat
      /\ LossesIn(pushed) \in Nat
  BY <1>0, SumsType DEF Typed, Threads
<1>2. CASE Pushes
  <2> DEFINE entry == Entry(Head(batch))
  <2>1. /\ Holding /\ batch # << >>
        /\ entries' = Append(entries, entry) /\ pushed' = Append(pushed, entry)
        /\ bytes' = bytes + entry.size /\ lost' = 0 /\ pc' \in {"evict", "evict last"}
        /\ UNCHANGED <<losses, generation, closed>>
    BY <1>2 DEF Pushes, LostTaken, shared
  <2>2. entry \in EntryType /\ entry.lost_before = lost
    <3>1. batch \in Seq(Event) /\ batch # << >>
      BY <1>0, <2>1 DEF Typed
    <3>2. Head(batch) \in Event
      BY <3>1
    <3> QED BY <1>1, <3>2 DEF Entry, Event, EntryType
  <2> HIDE DEF entry
  <2>3. /\ SizeOf(entries') = SizeOf(entries) + entry.size
        /\ LossesIn(pushed') = LossesIn(pushed) + entry.lost_before
    BY <1>1, <2>1, <2>2, SumsOfAppend
  <2>4. LossesIn(pushed') + lost' = losses'
    <3>1. LossesIn(pushed) + lost = losses
      BY <1>0 DEF Threads
    <3>2. LossesIn(pushed') = losses
      BY <2>2, <2>3, <3>1
    <3>3. LossesIn(pushed') \in Nat
      BY <1>1, <2>2, <2>3
    <3>4. LossesIn(pushed') + 0 = LossesIn(pushed')
      BY <3>3
    <3>5. lost' = 0 /\ losses' = losses
      BY <2>1
    <3> QED BY <3>2, <3>4, <3>5
  <2>5. bytes' = SizeOf(entries')
    BY <1>0, <2>1, <2>3 DEF Threads
  <2>6. ~closed
    BY <1>0, <2>1 DEF Threads, Holding
  <2>7. LossesIn(pushed)' = LossesIn(pushed') /\ SizeOf(entries)' = SizeOf(entries')
    OBVIOUS
  <2> QED BY <1>0, <2>1, <2>4, <2>5, <2>6, <2>7 DEF Threads
<1>3. CASE Evicts
  <2>1. /\ entries # << >> /\ entries' = Tail(entries) /\ bytes' = bytes - Head(entries).size
        /\ UNCHANGED <<losses, generation, closed, pc, pushed, lost>>
    BY <1>3 DEF Evicts, Overdue, thread, shared
  <2>2. SizeOf(entries) = entries[1].size + SizeOf(Tail(entries)) /\ Head(entries) = entries[1]
    BY <1>1, <2>1, SizeOfTail
  <2>3. entries[1].size \in Nat /\ SizeOf(Tail(entries)) \in Nat
    <3>1. 1 \in 1..Len(entries) /\ Tail(entries) \in Seq(EntryType)
      BY <1>1, <2>1
    <3>2. entries[1] \in EntryType
      BY <1>1, <3>1
    <3> QED BY <3>1, <3>2, EntriesType, SumsType
  <2>4. bytes' = SizeOf(entries')
    <3>1. bytes = SizeOf(entries)
      BY <1>0 DEF Threads
    <3>2. bytes' = (entries[1].size + SizeOf(Tail(entries))) - entries[1].size
      BY <2>1, <2>2, <3>1
    <3>3. bytes' = SizeOf(Tail(entries))
      BY <2>3, <3>2
    <3> QED BY <2>1, <3>3
  <2>5. LossesIn(pushed)' = LossesIn(pushed) /\ SizeOf(entries)' = SizeOf(entries')
    BY <2>1
  <2> QED BY <1>0, <2>1, <2>4, <2>5 DEF Threads
<1>4. ASSUME NEW events \in Batches, NEW count \in 0..1, Releases(events, count) PROVE Threads'
  <2>1. /\ pc = "recv" /\ lost' = lost + count /\ losses' = losses + count
        /\ pc' \in {"push", "last", "close"}
        /\ UNCHANGED <<entries, bytes, pushed, generation, closed>>
    BY <1>4 DEF Releases, shared
  <2>2. LossesIn(pushed) + (lost + count) = losses + count /\ losses + count \in Nat
    <3>1. LossesIn(pushed) + lost = losses /\ losses \in Nat
      BY <1>0 DEF Threads
    <3>2. count \in Nat
      OBVIOUS
    <3>3. LossesIn(pushed) + (lost + count) = (LossesIn(pushed) + lost) + count
      BY <1>1, <3>2
    <3> QED BY <3>1, <3>2, <3>3
  <2>3. LossesIn(pushed)' = LossesIn(pushed) /\ SizeOf(entries)' = SizeOf(entries)
    BY <2>1
  <2> QED BY <1>0, <2>1, <2>2, <2>3 DEF Threads
<1>5. ASSUME losses' = losses, lost' = lost, entries' = entries, bytes' = bytes, pushed' = pushed,
             generation' \in Nat, closed' \in BOOLEAN,
             pc' \in {"recv", "push", "last", "evict", "evict last", "tell", "tell last", "close",
                      "tell closed", "ended"},
             closed' => pc' \in {"tell closed", "ended"}
      PROVE  Threads'
  <2>1. LossesIn(pushed)' = LossesIn(pushed) /\ SizeOf(entries)' = SizeOf(entries)
    BY <1>5
  <2>2. (LossesIn(pushed) + lost = losses)'
    BY <1>0, <1>5, <2>1 DEF Threads
  <2> QED BY <1>0, <1>5, <2>1, <2>2 DEF Threads
<1>6. CASE Held \/ Unlocks \/ Notifies \/ Closes
  <2>0. generation \in Nat /\ closed \in BOOLEAN /\ (closed => pc \in {"tell closed", "ended"})
    BY <1>0 DEF Threads
  <2>1. CASE Held
    BY <1>5, <2>0, <2>1 DEF Held, history, shared
  <2>2. CASE Unlocks
    BY <1>5, <2>0, <2>2 DEF Unlocks, Holding, history, shared
  <2>3. CASE Notifies
    <3>1. /\ pc \in {"tell", "tell last", "tell closed"} /\ generation' = generation + 1
          /\ closed' = closed /\ UNCHANGED <<losses, lost, entries, bytes, pushed>>
      BY <2>3 DEF Notifies, history
    <3>2. /\ pc' \in {"recv", "close", "ended"}
          /\ pc = "tell closed" => pc' = "ended"
      BY <2>3 DEF Notifies
    <3>3. closed => pc = "tell closed"
      BY <2>0, <3>1
    <3>4. closed' => pc' = "ended"
      BY <3>1, <3>2, <3>3
    <3>5. losses' = losses /\ lost' = lost /\ entries' = entries /\ bytes' = bytes /\ pushed' = pushed
      BY <3>1
    <3>6. generation' \in Nat /\ closed' \in BOOLEAN
      <4>1. generation \in Nat /\ generation' = generation + 1
        BY <2>0, <3>1
      <4>2. generation' \in Nat
        BY <4>1
      <4>3. closed \in BOOLEAN /\ closed' = closed
        BY <2>0, <3>1
      <4> QED BY <4>2, <4>3
    <3>7. pc' \in {"recv", "push", "last", "evict", "evict last", "tell", "tell last", "close",
                  "tell closed", "ended"}
      BY <3>2
    <3>8. closed' => pc' \in {"tell closed", "ended"}
      BY <3>4
    <3> QED BY <1>5, <3>5, <3>6, <3>7, <3>8
  <2>4. CASE Closes
    BY <1>5, <2>0, <2>4 DEF Closes, history
  <2> QED BY <1>6, <2>1, <2>2, <2>3, <2>4
<1>7. CASE TimePasses
  BY <1>0, <1>5, <1>7 DEF TimePasses, Threads, history, shared, thread
<1>8. ASSUME NEW w \in Watchers, Watching(w) PROVE Threads'
  BY <1>0, <1>5, <1>8 DEF Watching, Hears, Reads, Decides, Threads, history, shared, thread
<1>9. CASE UNCHANGED vars
  BY <1>0, <1>5, <1>9 DEF vars, Threads, history, shared, thread
<1> QED BY <1>2, <1>3, <1>4, <1>6, <1>7, <1>8, <1>9 DEF Next, Thread, Releasing

\* An entry more, given to nobody, leaves an account as it is.
LEMMA AccountOfAppend ==
  ASSUME NEW s \in Seq(EntryType), NEW e \in EntryType, NEW c \in CursorType, Account(c, s)
  PROVE  Account(c, Append(s, e))
<1>1. Len(Append(s, e)) = Len(s) + 1 /\ Len(s) \in Nat
  OBVIOUS
<1>2. c.next \in Nat /\ c.start \in Nat
  BY DEF CursorType
<1>3. c.next <= Len(s) /\ c.got \subseteq c.start..(c.next - 1)
  BY DEF Account
<1>4. Len(s) \notin c.got
  BY <1>1, <1>2, <1>3
<1>5. Total(GivenOf(Append(s, e), c.got)) = Total(GivenOf(s, c.got))
  BY <1>4, GivenOfAppend
<1>6. c.next <= Len(Append(s, e))
  BY <1>1, <1>2, <1>3
<1> QED BY <1>5, <1>6 DEF Account

\* A watcher's news stays news until it is told.
LEMMA NewsGoesOn ==
  ASSUME NEW c \in CursorType, NEW count, NEW told \in Nat, NEW told2 \in Nat,
         NEW over \in BOOLEAN, NEW over2 \in BOOLEAN, NEW where, NEW where2,
         News(c, count, told, over, where), told <= told2, over => over2,
         where \in Telling => where2 \in Telling \/ told < told2
  PROVE  News(c, count, told2, over2, where2)
<1>1. c.heard \in Nat
  BY DEF CursorType
<1>2. c.heard <= told2 /\ (c.heard < told => c.heard < told2) /\ (told < told2 => c.heard < told2)
  BY <1>1 DEF News
<1>3. /\ c.closed => over
      /\ c.at \in {"nothing", "await"} => c.next = count \/ c.heard < told \/ where \in Telling
      /\ c.at = "nothing" /\ c.closed => c.next = count
      /\ c.at = "ended" => over /\ c.next = count
  BY DEF News
<1>4. c.at \in {"nothing", "await"} => c.next = count \/ c.heard < told2 \/ where2 \in Telling
  BY <1>2, <1>3
<1> QED BY <1>2, <1>3, <1>4 DEF News

\* So it does as entries come, while they do.
LEMMA NewsOfPush ==
  ASSUME NEW c, NEW count, NEW count2, NEW told, NEW where, NEW where2 \in Telling,
         News(c, count, told, FALSE, where)
  PROVE  News(c, count2, told, FALSE, where2)
BY DEF News

\* The accounts of watchers that stay where they are.
LEMMA CursorsStay ==
  ASSUME watch \in [Watchers -> CursorType], watch' = watch,
         \A w \in Watchers : /\ Account(watch[w], pushed')
                             /\ News(watch[w], Len(pushed'), generation', closed', pc')
  PROVE  Cursors'
BY DEF Cursors, Account, News

\* The account of one that goes on.
LEMMA CursorGoes ==
  ASSUME Cursors, NEW w \in Watchers, NEW c \in CursorType,
         watch' = [watch EXCEPT ![w] = c],
         pushed' = pushed, generation' = generation, closed' = closed, pc' = pc,
         Account(c, pushed), News(c, Len(pushed), generation, closed, pc)
  PROVE  Cursors'
<1>1. watch \in [Watchers -> CursorType]
  BY DEF Cursors
<1>2. watch' \in [Watchers -> CursorType]
  BY <1>1
<1>3. ASSUME NEW v \in Watchers
      PROVE  /\ Account(watch'[v], pushed)
             /\ News(watch'[v], Len(pushed), generation, closed, pc)
  <2>1. CASE v = w
    <3>1. watch'[v] = c
      BY <1>1, <2>1
    <3> QED BY <3>1
  <2>2. CASE v # w
    <3>1. watch'[v] = watch[v]
      BY <1>1, <2>2
    <3>2. Account(watch[v], pushed) /\ News(watch[v], Len(pushed), generation, closed, pc)
      BY DEF Cursors
    <3> QED BY <3>1, <3>2
  <2> QED BY <2>1, <2>2
<1>4. \A v \in Watchers : /\ Account(watch'[v], pushed')
                          /\ News(watch'[v], Len(pushed'), generation', closed', pc')
  BY <1>3
<1> QED BY <1>2, <1>4 DEF Cursors, Account, News

\* The thread's steps keep the accounts.
LEMMA ThreadKeepsCursors ==
  ASSUME AInv, Thread \/ TimePasses \/ UNCHANGED vars
  PROVE  Cursors'
<1>0. Typed /\ Threads
  BY DEF AInv, IInv
<1>1. /\ watch \in [Watchers -> CursorType]
      /\ \A w \in Watchers : /\ Account(watch[w], pushed)
                             /\ News(watch[w], Len(pushed), generation, closed, pc)
  BY DEF AInv, Cursors
<1>2. /\ pushed \in Seq(EntryType) /\ lost \in Nat /\ batch \in Seq(Event)
      /\ generation \in Nat /\ closed \in BOOLEAN
  BY <1>0 DEF Typed, Threads
<1>3. CASE Pushes
  <2> DEFINE entry == Entry(Head(batch))
  <2>1. /\ Holding /\ batch # << >> /\ pushed' = Append(pushed, entry)
        /\ pc' \in {"evict", "evict last"}
        /\ generation' = generation /\ closed' = closed /\ watch' = watch
    BY <1>3 DEF Pushes, shared
  <2>2. entry \in EntryType
    <3>1. batch \in Seq(Event) /\ batch # << >>
      BY <1>2, <2>1
    <3>2. Head(batch) \in Event
      BY <3>1
    <3> QED BY <1>2, <3>2 DEF Entry, Event, EntryType
  <2> HIDE DEF entry
  <2>3. closed = FALSE
    BY <1>0, <1>2, <2>1 DEF Threads, Holding
  <2>4. pc' \in Telling
    BY <2>1 DEF Telling
  <2>5. ASSUME NEW w \in Watchers
        PROVE  /\ Account(watch[w], pushed')
               /\ News(watch[w], Len(pushed'), generation', closed', pc')
    <3>1. watch[w] \in CursorType
      BY <1>1
    <3>2. Account(watch[w], Append(pushed, entry))
      BY <1>1, <1>2, <2>2, <3>1, AccountOfAppend
    <3>3. News(watch[w], Len(pushed), generation, FALSE, pc)
      BY <1>1, <2>3
    <3>4. News(watch[w], Len(pushed'), generation, FALSE, pc')
      BY <2>4, <3>3, NewsOfPush
    <3> QED BY <2>1, <2>3, <3>2, <3>4
  <2> QED BY <1>1, <2>1, <2>5, CursorsStay
<1>4. ASSUME watch' = watch, pushed' = pushed, generation' \in Nat, closed' \in BOOLEAN,
             generation <= generation', closed => closed',
             pc \in Telling => pc' \in Telling \/ generation < generation'
      PROVE  Cursors'
  <2>1. ASSUME NEW w \in Watchers
        PROVE  /\ Account(watch[w], pushed')
               /\ News(watch[w], Len(pushed'), generation', closed', pc')
    <3>1. watch[w] \in CursorType
      BY <1>1
    <3>2. News(watch[w], Len(pushed), generation', closed', pc')
      BY <1>1, <1>2, <1>4, <3>1, NewsGoesOn
    <3> QED BY <1>1, <1>4, <3>2
  <2> QED BY <1>1, <1>4, <2>1, CursorsStay
<1>5. ASSUME watch' = watch, pushed' = pushed, generation' = generation, closed' = closed,
             pc \in Telling => pc' \in Telling
      PROVE  Cursors'
  <2>1. generation' \in Nat /\ generation <= generation'
    BY <1>2, <1>5
  <2>2. closed' \in BOOLEAN /\ (closed => closed')
    BY <1>2, <1>5
  <2> QED BY <1>4, <1>5, <2>1, <2>2
<1>6. CASE Evicts \/ Held \/ Unlocks \/ TimePasses \/ UNCHANGED vars
  <2>1. /\ watch' = watch /\ pushed' = pushed /\ generation' = generation /\ closed' = closed
        /\ pc \in Telling => pc' \in Telling
    BY <1>6 DEF Evicts, Held, Unlocks, TimePasses, Holding, Telling, thread, history, shared, vars
  <2> QED BY <1>5, <2>1
<1>7. ASSUME NEW events \in Batches, NEW count \in 0..1, Releases(events, count) PROVE Cursors'
  <2>1. /\ watch' = watch /\ pushed' = pushed /\ generation' = generation /\ closed' = closed
        /\ pc \notin Telling
    BY <1>7 DEF Releases, Telling, shared
  <2> QED BY <1>5, <2>1
<1>8. CASE Notifies
  <2>1. /\ watch' = watch /\ pushed' = pushed /\ generation' = generation + 1 /\ closed' = closed
    BY <1>8 DEF Notifies, history
  <2>2. generation' \in Nat /\ generation <= generation' /\ generation < generation'
    BY <1>2, <2>1
  <2>3. closed' \in BOOLEAN /\ (closed => closed')
    BY <1>2, <2>1
  <2> QED BY <1>4, <2>1, <2>2, <2>3
<1>9. CASE Closes
  <2>1. /\ watch' = watch /\ pushed' = pushed /\ generation' = generation /\ closed' = TRUE
        /\ pc \notin Telling
    BY <1>9 DEF Closes, history, Telling
  <2>2. generation' \in Nat /\ generation <= generation'
    BY <1>2, <2>1
  <2>3. closed' \in BOOLEAN /\ (closed => closed')
    BY <2>1
  <2> QED BY <1>4, <2>1, <2>2, <2>3
<1> QED BY <1>3, <1>6, <1>7, <1>8, <1>9 DEF Thread, Releasing

\* A watcher that hears or decides was given nothing.
LEMMA HearingKeeps ==
  ASSUME AInv, NEW w \in Watchers, Hears(w) \/ Decides(w)
  PROVE  Cursors'
<1>1. /\ watch[w] \in CursorType /\ Account(watch[w], pushed)
      /\ News(watch[w], Len(pushed), generation, closed, pc)
      /\ Cursors /\ generation \in Nat /\ closed \in BOOLEAN
  BY DEF AInv, Cursors, Threads
<1>2. UNCHANGED <<pushed, generation, closed, pc>>
  BY DEF Hears, Decides, history, shared, thread
<1>3. CASE Hears(w)
  <2> DEFINE c == [watch[w] EXCEPT !.at = "read", !.heard = generation, !.closed = closed]
  <2>1. watch' = [watch EXCEPT ![w] = c]
    BY <1>3 DEF Hears
  <2>2. c \in CursorType
    BY <1>1 DEF CursorType
  <2>3. /\ c.at = "read" /\ c.heard = generation /\ c.closed = closed
        /\ c.started = watch[w].started /\ c.next = watch[w].next /\ c.start = watch[w].start
        /\ c.got = watch[w].got /\ c.skipped = watch[w].skipped /\ c.lost = watch[w].lost
    BY <1>1 DEF CursorType
  <2> HIDE DEF c
  <2>4. Account(c, pushed)
    BY <1>1, <2>3 DEF Account
  <2>5. News(c, Len(pushed), generation, closed, pc)
    BY <1>1, <2>3 DEF News
  <2> QED BY <1>1, <1>2, <2>1, <2>2, <2>4, <2>5, CursorGoes
<1>4. CASE Decides(w)
  <2> PICK at \in {"ended", "await"} : at = IF watch[w].closed THEN "ended" ELSE "await"
    BY <1>1
  <2> DEFINE c == [watch[w] EXCEPT !.at = at, !.heard = watch[w].heard]
  <2>1. watch' = [watch EXCEPT ![w] = c] /\ watch[w].at = "nothing"
    BY <1>4 DEF Decides, Stopped, Heard
  <2>2. c \in CursorType
    BY <1>1 DEF CursorType
  <2>3. /\ c.at = at /\ c.heard = watch[w].heard /\ c.closed = watch[w].closed
        /\ c.started = watch[w].started /\ c.next = watch[w].next /\ c.start = watch[w].start
        /\ c.got = watch[w].got /\ c.skipped = watch[w].skipped /\ c.lost = watch[w].lost
    BY <1>1 DEF CursorType
  <2> HIDE DEF c
  <2>4. Account(c, pushed)
    BY <1>1, <2>3 DEF Account
  <2>5. News(c, Len(pushed), generation, closed, pc)
    <3>1. /\ watch[w].heard <= generation /\ (watch[w].closed => closed)
          /\ watch[w].next = Len(pushed) \/ watch[w].heard < generation \/ pc \in Telling
          /\ watch[w].closed => watch[w].next = Len(pushed)
      BY <1>1, <2>1 DEF News
    <3>2. CASE watch[w].closed
      <4>1. at = "ended"
        BY <3>2
      <4> QED BY <2>3, <3>1, <3>2, <4>1 DEF News
    <3>3. CASE ~watch[w].closed
      <4>1. at = "await"
        BY <3>3
      <4> QED BY <2>3, <3>1, <3>3, <4>1 DEF News
    <3> QED BY <3>2, <3>3
  <2> QED BY <1>1, <1>2, <2>1, <2>2, <2>4, <2>5, CursorGoes
<1> QED BY <1>3, <1>4

\* The numbers from one up to before another.
LEMMA NumbersFrom ==
  ASSUME NEW a \in Nat, NEW b \in Nat
  PROVE  /\ IsFiniteSet(a..(b - 1))
         /\ a <= b => Cardinality(a..(b - 1)) = b - a
<1>1. b - 1 \in Int /\ a \in Int
  OBVIOUS
<1>2. IsFiniteSet(a..(b - 1)) /\ Cardinality(a..(b - 1)) = IF a > b - 1 THEN 0 ELSE (b - 1) - a + 1
  BY <1>1, FS_Interval
<1>3. a <= b => (IF a > b - 1 THEN 0 ELSE (b - 1) - a + 1) = b - a
  OBVIOUS
<1> QED BY <1>2, <1>3

\* What is counted in and what is skipped come to how far it went.
LEMMA Moved ==
  \A count, skipped, next, start, to \in Nat :
    count + skipped = next - start => count + (skipped + (to - next)) = to - start
OBVIOUS

\* So they do with what is counted in more.
LEMMA MovedOn ==
  \A count, skipped, gone, next, start, more \in Nat :
    count + (skipped + gone) = next - start
      => (count + more - 0) + (skipped + gone) = (next + more) - start
OBVIOUS

\* A watcher that reads is given the entries from its place on, each once, and
\* what was lost of them.
LEMMA ReadingKeeps ==
  ASSUME AInv, NEW w \in Watchers, Reads(w)
  PROVE  Cursors'
<1>1. /\ watch[w] \in CursorType /\ Account(watch[w], pushed)
      /\ News(watch[w], Len(pushed), generation, closed, pc)
      /\ Cursors /\ generation \in Nat /\ closed \in BOOLEAN
  BY DEF AInv, Cursors, Threads
<1>2. /\ entries \in Seq(EntryType) /\ pushed \in Seq(EntryType) /\ first \in Nat
      /\ first + Len(entries) = Len(pushed)
      /\ \A n \in 1..Len(entries) : entries[n] = pushed[first + n]
  BY DEF AInv, IInv, Typed, HeldAreLatest
<1>3. PICK o \in CursorType : o = watch[w]
  BY <1>1
<1>4. /\ o.heard \in Nat /\ o.next \in Nat /\ o.start \in Nat /\ o.skipped \in Nat
      /\ o.lost \in Nat
  BY DEF CursorType
<1>4b. o.closed \in BOOLEAN /\ o.started \in BOOLEAN /\ o.got \subseteq Nat
  BY DEF CursorType
<1>5. /\ ~o.started => o.next = 0 /\ o.start = 0 /\ o.got = {} /\ o.skipped = 0
      /\ o.start <= o.next /\ o.next <= Len(pushed)
      /\ o.got \subseteq o.start..(o.next - 1)
      /\ Cardinality(o.got) + o.skipped = o.next - o.start
      /\ o.lost = o.skipped + Total(GivenOf(pushed, o.got))
  BY <1>1, <1>3 DEF Account
<1>6. o.heard <= generation /\ (o.closed => closed)
  BY <1>1, <1>3 DEF News
<1>7. Len(entries) \in Nat /\ Len(pushed) \in Nat /\ first \in Nat /\ first <= Len(pushed)
  BY <1>2
<1>7c. PICK count \in Nat : count = Cardinality(o.got) /\ IsFiniteSet(o.got)
  <2>1. IsFiniteSet(o.start..(o.next - 1))
    BY <1>4, NumbersFrom
  <2>2. o.got \subseteq o.start..(o.next - 1)
    BY <1>5
  <2>3. IsFiniteSet(o.got)
    BY <2>1, <2>2, FS_Subset
  <2> QED BY <2>3, FS_CardinalityType
<1>8. PICK p \in Nat, gone \in Nat, start \in Nat :
        /\ p = Place(w) /\ gone = Skipped(w)
        /\ first <= p /\ p <= Len(pushed) /\ start <= p
        /\ start = IF o.started THEN o.start ELSE first
        /\ o.got \subseteq start..(p - 1)
        /\ Cardinality(o.got) + (o.skipped + gone) = p - start
        /\ o.started /\ gone = 0 => p = o.next
  <2>1. CASE ~o.started
    <3>1. Place(w) = first /\ Skipped(w) = 0
      BY <1>3, <2>1 DEF Place, Skipped
    <3>2. o.got = {} /\ o.skipped = 0 /\ Cardinality(o.got) = 0
      BY <1>5, <2>1, FS_EmptySet
    <3>3. first <= Len(pushed)
      BY <1>2, <1>7
    <3>4. 0 + (0 + 0) = first - first
      BY <1>2
    <3> QED BY <1>2, <2>1, <3>1, <3>2, <3>3, <3>4
  <2>2. CASE o.started /\ o.next < first
    <3>1. Place(w) = first /\ Skipped(w) = first - o.next
      BY <1>2, <1>3, <1>4, <2>2 DEF Place, Skipped, LaterOf
    <3>2. first - o.next \in Nat /\ first - o.next # 0 /\ first <= Len(pushed) /\ o.start <= first
      BY <1>2, <1>4, <1>5, <1>7, <2>2
    <3>3. o.got \subseteq o.start..(first - 1)
      BY <1>2, <1>4, <1>5, <2>2
    <3>5. Cardinality(o.got) + (o.skipped + (first - o.next)) = first - o.start
      <4>1. count + o.skipped = o.next - o.start
        BY <1>5, <1>7c
      <4>2. count + (o.skipped + (first - o.next)) = first - o.start
        <5>1. /\ o.skipped \in Nat /\ o.next \in Nat /\ o.start \in Nat /\ first \in Nat
              /\ count \in Nat
          BY <1>4, <1>7, <1>7c
        <5> QED BY <4>1, <5>1, Moved
      <4> QED BY <1>7c, <4>2
    <3> first \in Nat /\ first - o.next \in Nat /\ o.start \in Nat
      BY <1>4, <1>7, <3>2
    <3> WITNESS first \in Nat, first - o.next \in Nat, o.start \in Nat
    <3> QED BY <1>7, <2>2, <3>1, <3>2, <3>3, <3>5
  <2>3. CASE o.started /\ ~(o.next < first)
    <3>1. Place(w) = o.next /\ Skipped(w) = 0
      BY <1>2, <1>3, <1>4, <2>3 DEF Place, Skipped, LaterOf
    <3>2. o.skipped + 0 = o.skipped /\ first <= o.next
      BY <1>2, <1>4, <2>3
    <3> QED BY <1>4, <1>5, <2>3, <3>1, <3>2
  <2> QED BY <1>4, <2>1, <2>2, <2>3

<1>9. PICK k \in 0..(Len(entries) - (p - first)) :
        k = Batch(p - first) /\ (k = 0 => p - first = Len(entries))
  <2>1. p - first \in 0..Len(entries)
    BY <1>2, <1>7, <1>8
  <2> QED BY <1>2, <2>1, BatchFits
<1>10. k \in Nat /\ p + k \in Nat /\ p + k <= Len(pushed) /\ (k = 0 => p = Len(pushed))
  BY <1>2, <1>7, <1>8, <1>9, SMTT(20)
<1>11. PICK r \in Seq(EntryType) :
         /\ r = SubSeq(entries, p - first + 1, p - first + k)
         /\ Len(r) = k /\ \A n \in 1..k : r[n] = pushed[p + n]
  <2> DEFINE r == SubSeq(entries, p - first + 1, p - first + k)
             at == p - first
  <2>1. at \in Nat /\ at + k <= Len(entries) /\ first + at = p
    BY <1>2, <1>7, <1>8, <1>9, SMTT(20)
  <2>2. \A n \in (at + 1)..(at + k) : n \in 1..Len(entries)
    BY <1>7, <1>10, <2>1
  <2>3. /\ r \in Seq(EntryType) /\ Len(r) = k
        /\ \A n \in 1..k : r[n] = entries[at + n]
    <3> HIDE DEF at
    <3>1. r = SubSeq(entries, at + 1, at + k)
      BY DEF at
    <3> HIDE DEF r
    <3>2. at + 1 \in Int /\ at + k \in Int
      BY <1>10, <2>1
    <3>3. \A n \in (at + 1)..(at + k) : entries[n] \in EntryType
      BY <1>2, <2>2
    <3>4. /\ r \in Seq(EntryType)
          /\ Len(r) = IF at + 1 <= at + k THEN (at + k) - (at + 1) + 1 ELSE 0
          /\ \A n \in 1..(at + k) - (at + 1) + 1 : r[n] = entries[(at + 1) + n - 1]
      BY <3>1, <3>2, <3>3, SubSeqProperties
    <3>5. (at + k) - (at + 1) + 1 = k /\ \A n \in 1..k : (at + 1) + n - 1 = at + n
      BY <1>10, <2>1
    <3>6. (IF at + 1 <= at + k THEN k ELSE 0) = k
      BY <1>10, <2>1
    <3> QED BY <3>4, <3>5, <3>6
  <2>4. ASSUME NEW n \in 1..k PROVE r[n] = pushed[p + n]
    <3>1. at + n \in 1..Len(entries) /\ first + (at + n) = p + n
      BY <1>2, <1>7, <1>10, <2>1
    <3> HIDE DEF r, at
    <3> QED BY <1>2, <2>3, <3>1
  <2> QED BY <2>3, <2>4
<1>12. PICK got \in SUBSET Nat : got = o.got \cup p..(p + k - 1)
  <2>1. p..(p + k - 1) \subseteq Nat
    BY <1>10
  <2> QED BY <1>4b, <2>1
<1>13. Total(GivenOf(pushed, got)) = Total(GivenOf(pushed, o.got)) + LossesIn(r)
  <2>1. o.got \subseteq 0..(p - 1)
    BY <1>8, SMTT(20)
  <2>2. p + Len(r) <= Len(pushed) /\ \A n \in 1..Len(r) : r[n] = pushed[p + n]
    BY <1>10, <1>11
  <2>3. got = o.got \cup p..(p + Len(r) - 1)
    BY <1>11, <1>12
  <2> QED BY <1>2, <2>1, <2>2, <2>3, GivenOfBatch
<1>14. PICK told \in Nat : told = gone + LossesIn(r) /\ LossesIn(r) \in Nat
  BY <1>8, SumsType
<1>15. Cardinality(got) + (o.skipped + gone) = (p + k) - start
  <2>1. IsFiniteSet(p..(p + k - 1)) /\ Cardinality(p..(p + k - 1)) = k
    <3>1. p <= p + k /\ (p + k) - p = k /\ p + k - 1 = (p + k) - 1
      BY <1>10
    <3> QED BY <1>10, <3>1, NumbersFrom
  <2>2. IsFiniteSet(o.got) /\ count = Cardinality(o.got)
    BY <1>7c
  <2>3. o.got \cap p..(p + k - 1) = {}
    BY <1>8, <1>10, SMTT(20)
  <2>4. Cardinality(got) = Cardinality(o.got) + Cardinality(p..(p + k - 1))
                             - Cardinality(o.got \cap p..(p + k - 1))
    BY <1>12, <2>1, <2>2, FS_Union
  <2>5. Cardinality({}) = 0
    BY FS_EmptySet
  <2>6. Cardinality(got) = count + k - 0
    BY <2>1, <2>2, <2>3, <2>4, <2>5
  <2>7. count + (o.skipped + gone) = p - start
    BY <1>8, <1>7c
  <2>8. (count + k - 0) + (o.skipped + gone) = (p + k) - start
    <3>1. /\ o.skipped \in Nat /\ k \in Nat /\ count \in Nat
          /\ gone \in Nat /\ p \in Nat /\ start \in Nat
      BY <1>4, <1>8, <1>10, <1>7c
    <3> QED BY <2>7, <3>1, MovedOn, SMTT(20)
  <2> QED BY <2>6, <2>8
<1>16. PICK at \in {"nothing", "out"} :
         at = IF k = 0 /\ told = 0 /\ o.started THEN "nothing" ELSE "out"
  OBVIOUS
<1> DEFINE c == [o EXCEPT !.started = TRUE, !.next = p + k, !.start = start, !.got = got,
                          !.skipped = o.skipped + gone, !.lost = o.lost + told, !.at = at]
<1>17. watch' = [watch EXCEPT ![w] = c]
  <2>1. PICK d : /\ watch' = [watch EXCEPT ![w] = d]
                 /\ d = [[o EXCEPT !.started = TRUE, !.next = p + k, !.start = start, !.got = got,
                           !.skipped = o.skipped + gone, !.lost = o.lost + told] EXCEPT !.at = at]
    BY <1>3, <1>8, <1>9, <1>11, <1>12, <1>14, <1>16 DEF Reads
  <2>2. d = c
    <3> DEFINE e == [o EXCEPT !.started = TRUE, !.next = p + k, !.start = start, !.got = got,
                              !.skipped = o.skipped + gone, !.lost = o.lost + told]
    <3>1. d = [e EXCEPT !.at = at]
      BY <2>1
    <3>2. c = [e EXCEPT !.at = at]
      BY DEF CursorType
    <3> HIDE DEF e, c
    <3> QED BY <3>1, <3>2
  <2> HIDE DEF c
  <2> QED BY <2>1, <2>2
<1>18. c \in CursorType
  <2>1. /\ p + k \in Nat /\ start \in Nat /\ got \in SUBSET Nat /\ o.skipped + gone \in Nat
        /\ o.lost + told \in Nat /\ at \in {"out", "read", "nothing", "await", "ended"}
    <3>1. o.skipped + gone \in Nat
      BY <1>4, <1>8, SMTT(20)
    <3>2. o.lost + told \in Nat
      BY <1>4, <1>14, SMTT(20)
    <3>3. at \in {"out", "read", "nothing", "await", "ended"}
      BY <1>16
    <3>4. start \in Nat
      BY <1>8
    <3> QED BY <1>10, <1>12, <3>1, <3>2, <3>3, <3>4
  <2>2. o \in CursorType /\ TRUE \in BOOLEAN
    BY <1>3
  <2> QED BY <2>1, <2>2 DEF CursorType
<1>19. /\ c.at = at /\ c.heard = o.heard /\ c.closed = o.closed /\ c.started = TRUE
       /\ c.next = p + k /\ c.start = start /\ c.got = got
       /\ c.skipped = o.skipped + gone /\ c.lost = o.lost + told
  BY DEF CursorType
<1> HIDE DEF c
<1>20. Account(c, pushed)
  <2>1. c.start <= c.next /\ c.next <= Len(pushed)
    BY <1>8, <1>10, <1>19
  <2>2. c.got \subseteq c.start..(c.next - 1)
    <3>1. got \subseteq start..((p + k) - 1)
      BY <1>8, <1>10, <1>12, SMTT(20)
    <3> QED BY <1>19, <3>1
  <2>3. Cardinality(c.got) + c.skipped = c.next - c.start
    BY <1>15, <1>19
  <2>4. c.lost = c.skipped + Total(GivenOf(pushed, c.got))
    <3>1. PICK a \in Nat, b \in Nat : a = Total(GivenOf(pushed, o.got)) /\ b = LossesIn(r)
      <4>1. Total(GivenOf(pushed, o.got)) \in Nat
        BY <1>2, GivenType
      <4> QED BY <1>14, <4>1
    <3>2. o.lost = o.skipped + a /\ told = gone + b
      BY <1>5, <1>14, <3>1
    <3>3. o.lost + told = (o.skipped + gone) + (a + b)
      BY <1>4, <3>2
    <3>4. Total(GivenOf(pushed, got)) = a + b
      BY <1>13, <3>1
    <3> QED BY <1>19, <3>3, <3>4
  <2> QED BY <1>19, <2>1, <2>2, <2>3, <2>4 DEF Account
<1>21. News(c, Len(pushed), generation, closed, pc)
  <2>1. at = "nothing" => p + k = Len(pushed)
    BY <1>7, <1>8, <1>10, <1>16
  <2> QED BY <1>6, <1>16, <1>19, <2>1 DEF News
<1>22. UNCHANGED <<pushed, generation, closed, pc>>
  BY DEF Reads, history, shared, thread
<1> QED BY <1>1, <1>17, <1>18, <1>20, <1>21, <1>22, CursorGoes

-----------------------------------------------------------------------------
\* Each step keeps the accounts.
LEMMA AccountsKept == AInv /\ [Next]_vars => AInv'
<1> SUFFICES ASSUME AInv, [Next]_vars PROVE AInv'
  OBVIOUS
<1>1. IInv' /\ Threads'
  BY StepKeeps, ThreadsKeep DEF AInv
<1>2. Cursors'
  <2>1. CASE Thread \/ TimePasses \/ UNCHANGED vars
    BY <2>1, ThreadKeepsCursors
  <2>2. ASSUME NEW w \in Watchers, Watching(w) PROVE Cursors'
    BY <2>2, HearingKeeps, ReadingKeeps DEF Watching
  <2> QED BY <2>1, <2>2 DEF Next
<1> QED BY <1>1, <1>2 DEF AInv

\* A watcher is given each event once but for those it is told it missed, and
\* is told as lost those and what goes with the events it was given, nothing
\* twice; it ends only once the events stopped and it read them all, and waits
\* only with all read or news to hear (process_events,
\* ProcessEventsWatch::next, History::read).
THEOREM WatchersAreAccounted == Spec => []WatchersAccounted
<1>1. Spec => []AInv
  BY AccountedAtFirst, AccountsKept, PTL DEF Spec
<1>2. AInv => WatchersAccounted
  <2> SUFFICES ASSUME AInv PROVE WatchersAccounted
    OBVIOUS
  <2>1. /\ Typed /\ HeldAreLatest /\ Threads /\ watch \in [Watchers -> CursorType]
        /\ \A w \in Watchers : /\ Account(watch[w], pushed)
                               /\ News(watch[w], Len(pushed), generation, closed, pc)
    BY DEF AInv, IInv, Cursors
  <2>2. /\ bytes \in Nat /\ Len(pushed) \in Nat /\ first + Len(entries) = Len(pushed)
    <3>1. pushed \in Seq(EntryType) /\ entries \in Seq(EntryType) /\ bytes = SizeOf(entries)
          /\ first + Len(entries) = Len(pushed)
      BY <2>1 DEF Typed, Threads, HeldAreLatest
    <3>2. SizeOf(entries) \in Nat
      BY <3>1, SumsType
    <3>3. Len(pushed) \in Nat
      BY <3>1
    <3> QED BY <3>1, <3>2, <3>3
  <2>3. TypeOK
    BY <2>1, <2>2 DEF TypeOK, Typed, Threads, CursorType
  <2>4. EachOnce
    BY <2>1, <2>2 DEF EachOnce, Account
  <2>5. NoLossTwice
    <3>1. \A got : Given(got) = GivenOf(pushed, got)
      BY DEF Given, GivenOf
    <3> QED BY <2>1, <3>1 DEF NoLossTwice, Account, Threads
  <2>6. EndsAfterAll
    BY <2>1 DEF EndsAfterAll, News
  <2>7. WaitsForNews
    <3> SUFFICES ASSUME NEW w \in Watchers, watch[w].at = "await",
                        generation = watch[w].heard, pc = "recv"
                 PROVE  watch[w].next = Len(pushed)
      BY DEF WaitsForNews
    <3>1. watch[w].heard \in Nat /\ pc \notin Telling
      BY <2>1 DEF CursorType, Telling
    <3>2. ~(watch[w].heard < generation)
      BY <3>1
    <3> QED BY <2>1, <3>1, <3>2 DEF News
  <2> QED BY <2>3, <2>4, <2>5, <2>6, <2>7 DEF WatchersAccounted
<1> QED BY <1>1, <1>2, PTL
=============================================================================

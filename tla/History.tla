------------------------------ MODULE History ------------------------------
(***************************************************************************)
(* The process events held for watchers                                    *)
(* (crates/core/src/process_events/history.rs), the thread that fills the  *)
(* history from what ETW hands over, and the watchers that read on from    *)
(* where they were (process_events/mod.rs).                                *)
(*                                                                         *)
(* The thread lets out batches of events with the losses counted since the *)
(* last one; how an event is put together before that (assemble.rs) is     *)
(* left out.  An event here is its time and its size.  A batch is in order *)
(* of time, but a later batch may carry an earlier event.                  *)
(***************************************************************************)
EXTENDS Integers, Sequences, FiniteSets, Sums

CONSTANTS
  Watchers,     \* the watches open
  Sizes,        \* sizes of events
  MaxAge,       \* KEPT_FOR
  MaxBytes,     \* KEPT_BYTES
  BatchBytes,   \* BATCH_BYTES
  MaxTime,      \* bound: the clock
  MaxEvents,    \* bound: events
  MaxLost       \* bound: losses

ASSUME SizesAssumption == Sizes \subseteq Nat \ {0}
ASSUME LimitsAssumption ==
  /\ MaxAge \in Nat /\ MaxBytes \in Nat /\ BatchBytes \in Nat
  /\ MaxTime \in Nat /\ MaxEvents \in Nat /\ MaxLost \in Nat

VARIABLES
  now,          \* the clock
  losses,       \* losses told so far, for the bound
  pc,           \* where the thread is
  batch,        \* release: the events let out and not held yet
  entries,      \* History.entries
  first,        \* History.first
  bytes,        \* History.bytes
  history_from, \* History.history_from
  lost,         \* History.lost
  pushed,       \* history: every event held so far
  generation,   \* Shared.told
  closed,       \* Shared.closed
  watch         \* each watcher: its place, and what it was told

history == <<entries, first, bytes, history_from, lost, pushed>>
shared == <<generation, closed>>
thread == <<losses, pc, batch>>
vars == <<now, thread, history, shared, watch>>

Cursor == [at |-> "out", heard |-> 0, closed |-> FALSE, started |-> FALSE, next |-> 0,
           start |-> 0, got |-> {}, skipped |-> 0, lost |-> 0]

Init ==
  /\ now = 0 /\ losses = 0
  /\ pc = "recv" /\ batch = <<>>
  /\ entries = <<>> /\ first = 0 /\ bytes = 0 /\ history_from = 0 /\ lost = 0
  /\ pushed = <<>>
  /\ generation = 0 /\ closed = FALSE
  /\ watch = [w \in Watchers |-> Cursor]

-----------------------------------------------------------------------------
\* `now` is read before the lock is taken: it stands still while events go in.
TimePasses ==
  /\ pc = "recv" /\ now < MaxTime
  /\ now' = now + 1
  /\ UNCHANGED <<thread, history, shared, watch>>

\* `release`: the losses first, then the events, under one lock.  The last
\* time is once the provider and the sessions are gone.
Events == [time : 0..now, size : Sizes]
Batches == {<<>>} \cup {<<e>> : e \in Events} \cup {<<e, f>> : e, f \in Events}
InOrder(events) == \A n \in 1..(Len(events) - 1) : events[n].time <= events[n + 1].time

Releases(events, count) ==
  /\ pc = "recv"
  /\ InOrder(events) /\ Len(pushed) + Len(events) <= MaxEvents
  /\ losses + count <= MaxLost
  /\ batch' = events
  /\ lost' = lost + count /\ losses' = losses + count
  /\ \/ pc' = "push" /\ (events # <<>> \/ count # 0)
     \/ pc' = "last" /\ (events # <<>> \/ count # 0)
     \/ pc' = "close" /\ events = <<>> /\ count = 0
  /\ UNCHANGED <<now, entries, first, bytes, history_from, pushed, shared, watch>>

Holding == pc \in {"push", "last"}

\* History::push: the event first, then what is too old or too much.
TooOld(entry) == entry.time < now - MaxAge
TooMuch == bytes > MaxBytes /\ Len(entries) > 1
Overdue == entries # <<>> /\ (TooOld(Head(entries)) \/ TooMuch)

Entry(event) == [time |-> event.time, size |-> event.size, lost_before |-> lost]

\* The losses go with the event, once.
LostKept == lost
LostTaken == 0

Pushes ==
  /\ Holding /\ batch # <<>>
  /\ batch' = Tail(batch)
  /\ LET entry == Entry(Head(batch)) IN
     /\ entries' = Append(entries, entry)
     /\ pushed' = Append(pushed, entry)
     /\ bytes' = bytes + entry.size
  /\ lost' = LostTaken
  /\ pc' = IF pc = "push" THEN "evict" ELSE "evict last"
  /\ UNCHANGED <<now, losses, first, history_from, shared, watch>>

LaterOf(a, b) == IF a < b THEN b ELSE a

FirstKept == first
NextFirst == first + 1
FromGone(gone) == gone.time + 1
From(gone) == LaterOf(history_from, gone.time + 1)

Evicts ==
  /\ pc \in {"evict", "evict last"} /\ Overdue
  /\ LET gone == Head(entries) IN
     /\ entries' = Tail(entries)
     /\ bytes' = bytes - gone.size
     /\ first' = NextFirst
     /\ history_from' = From(gone)
  /\ UNCHANGED <<now, thread, lost, pushed, shared, watch>>

Held ==
  /\ pc \in {"evict", "evict last"} /\ ~Overdue
  /\ pc' = IF pc = "evict" THEN "push" ELSE "last"
  /\ UNCHANGED <<now, losses, batch, history, shared, watch>>

\* The lock is let go, then the watchers hear of it; at the end they hear
\* once more, that nothing comes any more.
Unlocks ==
  /\ Holding /\ batch = <<>>
  /\ pc' = IF pc = "push" THEN "tell" ELSE "tell last"
  /\ UNCHANGED <<now, losses, batch, history, shared, watch>>

Notifies ==
  /\ pc \in {"tell", "tell last", "tell closed"}
  /\ generation' = generation + 1
  /\ pc' = CASE pc = "tell" -> "recv" [] pc = "tell last" -> "close" [] OTHER -> "ended"
  /\ UNCHANGED <<now, losses, batch, history, closed, watch>>

Closes ==
  /\ pc = "close"
  /\ closed' = TRUE
  /\ pc' = "tell closed"
  /\ UNCHANGED <<now, losses, batch, history, generation, watch>>

-----------------------------------------------------------------------------
\* A watcher: ProcessEventsWatch::next.  It hears the generation and whether
\* the events stopped, reads, and waits for another generation or ends.
Hears(w) ==
  /\ \/ watch[w].at = "out"
     \/ watch[w].at = "await" /\ generation # watch[w].heard
  /\ watch' = [watch EXCEPT ![w].at = "read", ![w].heard = generation, ![w].closed = closed]
  /\ UNCHANGED <<now, thread, history, shared>>

Unlocked == pc \notin {"push", "last", "evict", "evict last"}

\* History::read, from `place` on: as many as fit, one at least.
SizesOf(s) == [n \in 1..Len(s) |-> s[n].size]
LossesOf(s) == [n \in 1..Len(s) |-> s[n].lost_before]
SizeOf(s) == Total(SizesOf(s))
LossesIn(s) == Total(LossesOf(s))
Fits(place, k) == k <= 1 \/ SizeOf(SubSeq(entries, place + 1, place + k)) <= BatchBytes
Batch(place) ==
  CHOOSE k \in 0..(Len(entries) - place) :
    /\ Fits(place, k)
    /\ k = Len(entries) - place \/ ~Fits(place, k + 1)

\* Where a watcher reads on: from the oldest, when it is new or fell behind.
Place(w) == IF watch[w].started THEN LaterOf(watch[w].next, first) ELSE first
Skipped(w) == IF watch[w].started /\ watch[w].next < first THEN first - watch[w].next ELSE 0

Reads(w) ==
  /\ watch[w].at = "read" /\ Unlocked
  /\ LET next == Place(w)
         k == Batch(next - first)
         told == Skipped(w) + LossesIn(SubSeq(entries, next - first + 1, next - first + k))
         cursor == [watch[w] EXCEPT
                      !.started = TRUE,
                      !.next = next + k,
                      !.start = IF watch[w].started THEN @ ELSE first,
                      !.got = @ \cup next..(next + k - 1),
                      !.skipped = @ + Skipped(w),
                      !.lost = @ + told]
         nothing == k = 0 /\ told = 0 /\ watch[w].started
     IN watch' = [watch EXCEPT ![w] =
          [cursor EXCEPT !.at = IF nothing THEN "nothing" ELSE "out"]]
  /\ UNCHANGED <<now, thread, history, shared>>

\* Nothing to read: it ends if the events had stopped before it read, and
\* waits for a generation other than the one it heard before.
Stopped(w) == watch[w].closed
HeardNow(w) == generation
Heard(w) == watch[w].heard

Decides(w) ==
  /\ watch[w].at = "nothing"
  /\ watch' = [watch EXCEPT ![w].at = IF Stopped(w) THEN "ended" ELSE "await",
                            ![w].heard = Heard(w)]
  /\ UNCHANGED <<now, thread, history, shared>>

-----------------------------------------------------------------------------
Releasing == \E events \in Batches, count \in 0..1 : Releases(events, count)
Thread == Releasing \/ Pushes \/ Evicts \/ Held \/ Unlocks \/ Notifies \/ Closes
Watching(w) == Hears(w) \/ Reads(w) \/ Decides(w)

Next == TimePasses \/ Thread \/ \E w \in Watchers : Watching(w)
Spec == Init /\ [][Next]_vars

\* Once it let events out, the thread goes on until they are told;
\* a watcher that is polled goes on.
Goes == Pushes \/ Evicts \/ Held \/ Unlocks \/ Notifies \/ Closes
Fairness == WF_vars(Goes) /\ \A w \in Watchers : WF_vars(Watching(w))
FairSpec == Spec /\ Fairness

-----------------------------------------------------------------------------
Event == [time : Nat, size : Sizes]
EntryType == [time : Nat, size : Sizes, lost_before : Nat]

\* Each part of the state holds what its type in the code allows.
TypeOK ==
  /\ now \in Nat /\ losses \in Nat
  /\ pc \in {"recv", "push", "last", "evict", "evict last", "tell", "tell last", "close",
             "tell closed", "ended"}
  /\ batch \in Seq(Event)
  /\ entries \in Seq(EntryType) /\ pushed \in Seq(EntryType)
  /\ first \in Nat /\ bytes \in Nat /\ history_from \in Nat /\ lost \in Nat
  /\ generation \in Nat /\ closed \in BOOLEAN
  /\ \A w \in Watchers : /\ watch[w].at \in {"out", "read", "nothing", "await", "ended"}
                         /\ watch[w].next \in Nat /\ watch[w].lost \in Nat

\* What is held is the latest of what was ever held, each under its own
\* index: an index names one event for good (`first`).
HeldAreLatest ==
  /\ first + Len(entries) = Len(pushed)
  /\ \A n \in 1..Len(entries) : entries[n] = pushed[first + n]

\* Nothing from `history_from` on has been let go, in whatever order of time
\* the events came (the doc of ProcessEventBatch.history_from).
NothingMissingSince == \A n \in 1..first : pushed[n].time < history_from

\* A watcher was given every event from where it began up to its place, each
\* once, but for those it was told it missed.
EachOnce ==
  \A w \in Watchers :
    watch[w].started =>
      /\ watch[w].got \subseteq watch[w].start..(watch[w].next - 1)
      /\ Cardinality(watch[w].got) + watch[w].skipped = watch[w].next - watch[w].start
      /\ watch[w].next <= first + Len(entries)

\* A loss goes with one event, and what a watcher is told as lost is what it
\* skipped and the losses that go with the events it was given: no loss twice.
\* Not that each is told: a loss that goes with an event the watcher skipped is
\* told it by nothing (History::read counts what is gone, not what went with it).
Given(got) == [n \in 1..Len(pushed) |-> IF n - 1 \in got THEN pushed[n].lost_before ELSE 0]
NoLossTwice ==
  /\ LossesIn(pushed) + lost = losses
  /\ \A w \in Watchers : watch[w].lost = watch[w].skipped + Total(Given(watch[w].got))

\* A watch ends only once the events stopped and it read every one of them:
\* the last ones, let out as the thread ends, are not missed (next).
EndsAfterAll ==
  \A w \in Watchers : watch[w].at = "ended" => closed /\ watch[w].next = Len(pushed)

\* A watcher that waits has read everything, or there is news it will hear.
WaitsForNews ==
  \A w \in Watchers :
    watch[w].at = "await" /\ generation = watch[w].heard /\ pc = "recv"
      => watch[w].next = Len(pushed)

\* A watcher's account: each event once, given or counted as missed; a loss
\* at most once, with the event it goes with; and no event left unread as the
\* watcher rests or ends.
WatchersAccounted == TypeOK /\ EachOnce /\ NoLossTwice /\ EndsAfterAll /\ WaitsForNews

\* A watch ends once the events stopped, whatever it was doing as they did.
EndsInTheEnd == \A w \in Watchers : closed ~> watch[w].at = "ended"
=============================================================================

----------------------------- MODULE Assembler -----------------------------
(***************************************************************************)
(* How a start is put together from the events that tell it in different   *)
(* sessions, and how starts and exits are let out                          *)
(* (crates/core/src/process_events/assemble.rs), as operators over the     *)
(* state of an Assembler.                                                  *)
(*                                                                         *)
(* Of what an event tells, its pid, its sequence number and its times are  *)
(* kept.  A half carries no sequence number in the code: `of`, which names *)
(* the process it tells about, stands for the command line or the task,    *)
(* and nothing here compares it.  The services that the parent hosts do    *)
(* not change while a start is pending: `scheduled_by` is whether one of   *)
(* them is the Task Scheduler.                                             *)
(***************************************************************************)
EXTENDS Integers, FiniteSets

CONSTANTS
  None,
  PairedWithin,  \* PAIRED_WITHIN
  WaitsAtMost    \* WAITS_AT_MOST

ASSUME TimesAssumption == PairedWithin \in Nat /\ WaitsAtMost \in Nat

Created(pid, seq, time, scheduled_by) ==
  [kind |-> "created", pid |-> pid, seq |-> seq, time |-> time, scheduled_by |-> scheduled_by]
Launched(pid, time, of) == [kind |-> "launched", pid |-> pid, time |-> time, of |-> of]
Scheduled(pid, time, of) == [kind |-> "scheduled", pid |-> pid, time |-> time, of |-> of]
\* `since` is the start_time of ProcessExited: 0 when the event does not tell it.
Ended(pid, seq, time, since) ==
  [kind |-> "ended", pid |-> pid, seq |-> seq, time |-> time, since |-> since]

Empty == [starts |-> {}, exits |-> {}, launched |-> {}, scheduled |-> {}, went |-> {}]

Start(created, launched, task) ==
  [pid |-> created.pid, seq |-> created.seq, time |-> created.time,
   scheduled_by |-> created.scheduled_by, launched |-> launched, task |-> task]

Apart(a, b) == IF a < b THEN b - a ELSE a - b
Near(a, b) == Apart(a, b) <= PairedWithin

(***************************************************************************)
(* take_nearest and nearest_start: of the ones of this pid that are near,  *)
(* one that is nearest.  Two of them may be as near; the one that comes    *)
(* first in the vector, whose order is left out, is taken.                 *)
(***************************************************************************)
AnyOf(those, pid, time) == {e \in those : e.pid = pid /\ Near(e.time, time)}
NearestOf(those, pid, time) ==
  {e \in AnyOf(those, pid, time) :
     \A f \in AnyOf(those, pid, time) : Apart(e.time, time) <= Apart(f.time, time)}
OrNone(those) == IF those = {} THEN {None} ELSE those

\* Assembler::add: what the assembler may become.
WithStart(a, raw, l, t) ==
  [a EXCEPT !.starts = @ \cup {Start(raw, l, t)}, !.launched = @ \ {l}, !.scheduled = @ \ {t}]
AddCreated(a, raw) ==
  {WithStart(a, raw, l, t) :
     l \in OrNone(NearestOf(a.launched, raw.pid, raw.time)),
     t \in OrNone(NearestOf(a.scheduled, raw.pid, raw.time))}
AddLaunched(a, raw) ==
  LET open == NearestOf({s \in a.starts : s.launched = None}, raw.pid, raw.time)
  IN  IF open = {} THEN {[a EXCEPT !.launched = @ \cup {raw}]}
      ELSE {[a EXCEPT !.starts = (@ \ {s}) \cup {[s EXCEPT !.launched = raw]}] : s \in open}
AddScheduled(a, raw) ==
  LET open == NearestOf({s \in a.starts : s.task = None}, raw.pid, raw.time)
  IN  IF open = {} THEN {[a EXCEPT !.scheduled = @ \cup {raw}]}
      ELSE {[a EXCEPT !.starts = (@ \ {s}) \cup {[s EXCEPT !.task = raw]}] : s \in open}

Added(a, raw) ==
  CASE raw.kind = "created" -> AddCreated(a, raw)
    [] raw.kind = "launched" -> AddLaunched(a, raw)
    [] raw.kind = "scheduled" -> AddScheduled(a, raw)
    [] raw.kind = "ended" -> {[a EXCEPT !.exits = @ \cup {raw}]}

(***************************************************************************)
(* Assembler::release at `now`: one pass over what is pending in order of  *)
(* time, a start before an exit of the same time.                          *)
(***************************************************************************)
Waited(time, now) == time + WaitsAtMost <= now

Complete(start) == start.launched # None /\ (start.task # None \/ ~start.scheduled_by)
DueComplete(a, now) == {s \in a.starts : Complete(s)}
DueStarts(a, now) == {s \in a.starts : Waited(s.time, now) \/ Complete(s)}

IsOf(s, exit) == s.pid = exit.pid /\ s.seq = exit.seq
Before(s, exit) == s.time <= exit.time
HeldNever(a, exit, now) == FALSE
HeldBack(a, exit, now) ==
  \E s \in a.starts \ DueStarts(a, now) : IsOf(s, exit) /\ Before(s, exit)
Went(a, exit, now) ==
  \/ \E s \in a.went : IsOf(s, exit)
  \/ \E s \in DueStarts(a, now) : IsOf(s, exit) /\ Before(s, exit)
DueExits(a, now) ==
  {e \in a.exits : ~HeldBack(a, e, now) /\ (Waited(e.since, now) \/ Went(a, e, now))}

Instance(s) == [pid |-> s.pid, seq |-> s.seq, time |-> s.time]
StillWent(went, now) == {s \in went : ~Waited(s.time, now)}
StillOpen(halves, now) == {h \in halves : h.time + PairedWithin + WaitsAtMost > now}

LeftWithoutExits(a, now) ==
  [a EXCEPT !.starts = @ \ DueStarts(a, now), !.exits = {},
            !.went = StillWent(@ \cup {Instance(s) : s \in DueStarts(a, now)}, now),
            !.launched = StillOpen(@, now), !.scheduled = StillOpen(@, now)]
Left(a, now) ==
  [starts |-> a.starts \ DueStarts(a, now),
   exits |-> a.exits \ DueExits(a, now),
   went |-> StillWent(a.went \cup {Instance(s) : s \in DueStarts(a, now)}, now),
   launched |-> StillOpen(a.launched, now),
   scheduled |-> StillOpen(a.scheduled, now)]
=============================================================================

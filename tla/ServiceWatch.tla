---------------------------- MODULE ServiceWatch ----------------------------
(***************************************************************************)
(* How a service's status reaches the picture (src/scm): a scan of all     *)
(* services every few seconds (inventory.rs) and, while someone follows    *)
(* the service, the SCM's notifications of its changes (watch.rs), each on *)
(* a thread of its own and both into the painter's channel.                *)
(*                                                                         *)
(* One service; services do not touch each other.  The SCM's side is       *)
(* external: a notification is one-shot, is armed for a set of states, and *)
(* fires at once when the service is in one of them.  The board between    *)
(* the watcher and whoever follows is the kit's.                           *)
(***************************************************************************)
EXTENDS Integers, Sequences

CONSTANTS
  Absent,         \* no status, no request, nothing armed
  MaxChanges,   \* bound: changes of the service
  MaxFollows,   \* bound: times somebody starts to follow it
  MaxLags,      \* bound: notifications the SCM could not keep up with
  MaxInbox      \* bound: events on their way when a scan begins

ASSUME BoundsAssumption == MaxChanges \in Nat /\ MaxFollows \in Nat /\ MaxLags \in Nat
                            /\ MaxInbox \in Nat

States == {"stopped", "pending", "running"}
\* ServiceStatus: the run of the service stands for its pid, 0 while stopped.
Status == [state : States, run : Nat]
\* The notification's codes, and the state left out when nothing was told.
Codes == {"changed", "deleted", "lagging"}
Nothing == "nothing"

\* Absent is no state, no record.
ASSUME AbsentAssumption ==
  /\ Absent \notin States \cup {Nothing} /\ Absent \notin Status
  /\ Absent \notin [status : Status \cup {Absent}]
  /\ Absent \notin [code : Codes, status : Status \cup {Absent}]

VARIABLES
  actual,    \* the service, as the SCM knows it; Absent once deleted
  changes,   \* changes so far, for the bound
  runs,      \* runs of the service so far
  armed,     \* the state the notification is not armed for; Absent when unarmed
  fired,     \* the notification delivered, and what it says; Absent when not
  lags,      \* lags so far, for the bound
  wanted,    \* the board: somebody follows the service
  follows,   \* follows so far, for the bound
  pc,        \* where the watcher's thread is
  watched,   \* `watched` has the service
  service,   \* Watched.service is Some
  last,      \* the board: the status published last
  scanning,  \* what the inventory's thread read and has not sent
  inbox,     \* the painter's channel
  followed,  \* Picture.followed
  shown      \* the service among Picture.services

scm == <<actual, changes, runs, armed, fired, lags>>
watcher == <<pc, watched, service, last>>
picture == <<followed, shown>>
watch_vars == <<scm, wanted, follows, watcher, scanning, inbox, picture>>

Stopped == [state |-> "stopped", run |-> 0]

WatchInit ==
  /\ actual = Stopped /\ changes = 0 /\ runs = 0
  /\ armed = Absent /\ fired = Absent /\ lags = 0
  /\ wanted = FALSE /\ follows = 0
  /\ pc = "wait" /\ watched = FALSE /\ service = FALSE /\ last = Absent
  /\ scanning = Absent
  /\ inbox = <<[kind |-> "scan", status |-> actual]>>   \* Inventory::start
  /\ followed = Absent /\ shown = Absent

-----------------------------------------------------------------------------
\* The SCM.

Notice(code, status) == [code |-> code, status |-> status]
Legal(from, to) ==
  CASE from = "stopped" -> to = "pending"
    [] from = "pending" -> to \in {"running", "stopped"}
    [] from = "running" -> to \in {"pending", "stopped"}

Changes(state) ==
  /\ actual # Absent /\ changes < MaxChanges
  /\ Legal(actual.state, state)
  /\ changes' = changes + 1
  /\ runs' = IF actual.state = "stopped" THEN runs + 1 ELSE runs
  /\ actual' = [state |-> state, run |-> IF state = "stopped" THEN 0 ELSE runs']
  /\ IF armed \notin {Absent, state}
     THEN armed' = Absent /\ fired' = Notice("changed", actual')
     ELSE UNCHANGED <<armed, fired>>
  /\ UNCHANGED <<lags, wanted, follows, watcher, scanning, inbox, picture>>

Deleted ==
  /\ actual # Absent /\ actual.state = "stopped"
  /\ actual' = Absent
  /\ IF armed # Absent THEN armed' = Absent /\ fired' = Notice("deleted", Absent)
                     ELSE UNCHANGED <<armed, fired>>
  /\ UNCHANGED <<changes, runs, lags, wanted, follows, watcher, scanning, inbox, picture>>

Lags ==
  /\ armed # Absent /\ lags < MaxLags
  /\ lags' = lags + 1
  /\ armed' = Absent /\ fired' = Notice("lagging", Absent)
  /\ UNCHANGED <<actual, changes, runs, wanted, follows, watcher, scanning, inbox, picture>>

-----------------------------------------------------------------------------
\* Whoever follows: a watch, or a command's hold.
Follows ==
  /\ ~wanted /\ follows < MaxFollows
  /\ wanted' = TRUE /\ follows' = follows + 1
  /\ UNCHANGED <<scm, watcher, scanning, inbox, picture>>

Unfollows ==
  /\ wanted
  /\ wanted' = FALSE
  /\ UNCHANGED <<scm, follows, watcher, scanning, inbox, picture>>

-----------------------------------------------------------------------------
\* The watcher's thread.

\* Watched::arm: for every state but the one told last.  A service that is
\* gone cannot be armed, and is let go.
Excluded(status) == IF status = Absent THEN Nothing ELSE status.state
Arms(status) ==
  IF actual = Absent
  THEN service' = FALSE /\ armed' = Absent /\ fired' = Absent
  ELSE /\ service' = TRUE
       /\ IF actual.state # Excluded(status)
          THEN armed' = Absent /\ fired' = Notice("changed", actual)
          ELSE armed' = Excluded(status) /\ fired' = Absent

Wakes ==
  /\ pc = "wait"
  /\ pc' = "take"
  /\ UNCHANGED <<scm, wanted, follows, watched, service, last, scanning, inbox, picture>>

\* Watched::connect: nothing was told yet, so the state it is in is news.
KnownAlready == actual
KnownAtFirst == Absent

\* take_requests: a service that cannot be opened is not followed.
TakesRequests ==
  /\ pc = "take"
  /\ pc' = "notified"
  /\ IF wanted /\ ~watched
     THEN /\ Arms(KnownAtFirst)
          /\ watched' = (actual # Absent)
          /\ wanted' = (actual # Absent)
     ELSE UNCHANGED <<armed, fired, service, watched, wanted>>
  /\ UNCHANGED <<actual, changes, runs, lags, follows, last, scanning, inbox, picture>>

\* dispatch: a status not told yet.
Same(a, b) == a # Absent /\ b # Absent /\ a.state = b.state /\ a.run = b.run
Dispatches(status) ==
  IF Same(last, status) THEN UNCHANGED <<last, inbox>>
  ELSE /\ last' = status
       /\ inbox' = Append(inbox, [kind |-> "status", status |-> status])

\* Watched::notified.  Between what the notification says and the next time
\* it is armed the service may have gone on.
Lagging == fired.code = "lagging"

Forgets ==
  /\ pc = "notified" /\ fired # Absent /\ Lagging
  /\ last' = Absent
  /\ Arms(Absent)
  /\ pc' = "poll"
  /\ UNCHANGED <<actual, changes, runs, lags, wanted, follows, watched, scanning, inbox, picture>>

LetsGo ==
  /\ pc = "notified" /\ fired # Absent /\ fired.code = "deleted"
  /\ service' = FALSE /\ fired' = Absent
  /\ pc' = "poll"
  /\ UNCHANGED <<actual, changes, runs, armed, lags, wanted, follows, watched, last, scanning, inbox, picture>>

Hears ==
  /\ pc = "notified" /\ fired # Absent /\ fired.code = "changed"
  /\ Dispatches(fired.status)
  /\ pc' = "arm"
  /\ UNCHANGED <<scm, wanted, follows, watched, service, scanning, picture>>

ArmsAgain ==
  /\ pc = "arm"
  /\ Arms(last)
  /\ pc' = "poll"
  /\ UNCHANGED <<actual, changes, runs, lags, wanted, follows, watched, last, scanning, inbox, picture>>

NoNotice ==
  /\ pc = "notified" /\ fired = Absent
  /\ pc' = "poll"
  /\ UNCHANGED <<scm, wanted, follows, watched, service, last, scanning, inbox, picture>>

\* A pending service is asked now and then, as the SCM tells no progress.
Pending == watched /\ last # Absent /\ last.state = "pending"

Polls ==
  /\ pc = "poll"
  /\ pc' = "sweep"
  /\ \/ /\ Pending /\ service /\ actual # Absent
        /\ Dispatches(actual)
     \/ UNCHANGED <<last, inbox>>
  /\ UNCHANGED <<scm, wanted, follows, watched, service, scanning, picture>>

\* What is gone ends, what nobody follows is swept; both are told, and the
\* handle is closed with the notification in it.
Over == ~service \/ ~wanted
HandleClosed == service' = FALSE /\ armed' = Absent /\ fired' = Absent
UnfollowedSilently == inbox
Unfollowed == Append(inbox, [kind |-> "status", status |-> Absent])

Sweeps ==
  /\ pc = "sweep"
  /\ pc' = "wait"
  /\ IF watched /\ Over
     THEN /\ watched' = FALSE /\ wanted' = FALSE /\ last' = Absent
          /\ HandleClosed
          /\ inbox' = Unfollowed
     ELSE UNCHANGED <<watched, service, wanted, last, armed, fired, inbox>>
  /\ UNCHANGED <<actual, changes, runs, lags, follows, scanning, picture>>

-----------------------------------------------------------------------------
\* The inventory's thread: enumerates, describes, hands over.
Scans ==
  /\ scanning = Absent /\ Len(inbox) < MaxInbox
  /\ scanning' = [status |-> actual]
  /\ UNCHANGED <<scm, wanted, follows, watcher, inbox, picture>>

HandsOver ==
  /\ scanning # Absent
  /\ inbox' = Append(inbox, [kind |-> "scan", status |-> scanning.status])
  /\ scanning' = Absent
  /\ UNCHANGED <<scm, wanted, follows, watcher, picture>>

\* The painter (Picture::service_status, Picture::services); Feed.tla has it
\* whole.
StatusShown(scan, status) == IF scan = Absent \/ status = Absent THEN scan ELSE status

Paints ==
  /\ inbox # <<>>
  /\ inbox' = Tail(inbox)
  /\ LET event == Head(inbox) IN
     IF event.kind = "scan"
     THEN shown' = StatusShown(event.status, followed) /\ UNCHANGED followed
     ELSE /\ followed' = event.status
          /\ shown' = StatusShown(shown, event.status)
  /\ UNCHANGED <<scm, wanted, follows, watcher, scanning>>

-----------------------------------------------------------------------------
Scm == (\E state \in States : Changes(state)) \/ Deleted \/ Lags
Watcher == \/ Wakes \/ TakesRequests \/ Forgets \/ LetsGo \/ Hears \/ ArmsAgain \/ NoNotice
           \/ Polls \/ Sweeps
Inventory == Scans \/ HandsOver

WatchNext == Scm \/ Follows \/ Unfollows \/ Watcher \/ Inventory \/ Paints
WatchSpec == WatchInit /\ [][WatchNext]_watch_vars

\* The watcher's thread is woken by a notification, by a request and, while a
\* service is pending, by its timeout; whoever stops following owes it no
\* wake.  The inventory scans every five seconds, the painter applies; the
\* service and those who follow it owe nothing.
Called == fired # Absent \/ (wanted /\ ~watched) \/ Pending
WatchFairness == /\ WF_watch_vars(Watcher /\ (pc = "wait" => Called))
                 /\ WF_watch_vars(Scans) /\ WF_watch_vars(HandsOver) /\ WF_watch_vars(Paints)
WatchFairSpec == WatchSpec /\ WatchFairness

-----------------------------------------------------------------------------
\* Each part of the state holds what its type in the code allows, and a
\* notification belongs to a service that is watched.
WatchTypeOK ==
  /\ actual \in Status \cup {Absent} /\ changes \in Nat /\ runs \in Nat /\ lags \in Nat /\ follows \in Nat
  /\ armed \in States \cup {Absent, Nothing}
  /\ fired \in [code : Codes, status : Status \cup {Absent}] \cup {Absent}
  /\ armed # Absent \/ fired # Absent => watched
  /\ wanted \in BOOLEAN /\ watched \in BOOLEAN /\ service \in BOOLEAN
  /\ pc \in {"wait", "take", "notified", "arm", "poll", "sweep"}
  /\ last \in Status \cup {Absent} /\ followed \in Status \cup {Absent}
  /\ shown \in Status \cup {Absent}

\* While the notification is armed, the state told last is the state the
\* service is in: a state it came to between the notification before and the
\* arming, and is still in, fired it again (arm leaves out the state told, and
\* no other).  One it left again by then is told to nobody.
ArmedIsCurrent ==
  watched /\ armed # Absent => last # Absent /\ actual # Absent /\ last.state = actual.state

\* A service nobody watches any more is one the picture takes from scans
\* again, once it was told: no status outlives the watch (sweep and end).
UnwatchedIsScanned ==
  ~watched /\ (\A n \in 1..Len(inbox) : inbox[n].kind = "scan") => followed = Absent

\* The state a service stays in is told while it is watched, and none sticks to
\* it afterwards (run).
StayingStateTold == WatchTypeOK /\ ArmedIsCurrent /\ UnwatchedIsScanned

\* Once the service changes no more, the state shown is the state it is in.
SettlesOnState ==
  <>[](IF actual = Absent THEN shown = Absent ELSE shown # Absent /\ shown.state = actual.state)

=============================================================================

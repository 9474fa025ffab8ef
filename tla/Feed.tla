-------------------------------- MODULE Feed --------------------------------
(***************************************************************************)
(* What the agent shows at one moment (src/feed.rs): the sources send      *)
(* changes on an unbounded channel, the painter's thread applies them to   *)
(* the picture and publishes it whole to readers on other threads.         *)
(*                                                                         *)
(* The core's side is what src/sources.rs sends each tick; that its        *)
(* differences are right is ProcessTable's matter, so here the core just   *)
(* keeps a listing and hands on how it moved.                              *)
(***************************************************************************)
EXTENDS Integers, Sequences

CONSTANTS
  Pids,          \* process ids; 0 is not one of them
  Names,         \* services
  None,          \* no entry for the key
  MaxTicks,      \* bound: ticks of the core
  MaxServices,   \* bound: events of the service sources
  MaxPending     \* bound: changes in the painter's channel at once

Flips == {0, 1}   \* two verdicts, two states: enough to tell a change
Proc == [seq : Nat, verdict : Flips, state : Flips]
InfoRec == [seq : Nat, verdict : Flips, is_service : BOOLEAN]
PassportRec == [seq : Nat, verdict : Flips]
StateRec == [seq : Nat, state : Flips]
Sample == [number : Nat, rows : SUBSET (Pids \X Nat)]
Scan == [Names -> Pids \cup {0}]

ASSUME PidsAssumption == 0 \notin Pids
ASSUME NoneAssumption ==
  /\ None \notin Proc \cup InfoRec \cup PassportRec \cup StateRec
  /\ None \notin Sample /\ None \notin Scan
  /\ None \notin BOOLEAN /\ None \notin Pids \cup {0}
ASSUME BoundsAssumption == MaxTicks \in Nat /\ MaxServices \in Nat /\ MaxPending \in Nat

Kinds == {"none", "full", "machine", "failed"}
Moves == {"same", "judged", "moved", "left", "joined"}

VARIABLES
  listing,    \* the core: the process on each pid
  samples,    \* the core: Reader.snapshots, samples taken so far
  error,      \* the core: Supervisor.snapshot_error is Some
  ticks,      \* ticks so far, for the bound
  events,     \* service events so far, for the bound
  inbox,      \* the painter's channel
  picture,    \* Picture
  news,       \* paint: told something that is not published yet
  painting,   \* the painter is inside a batch
  latest,     \* Feed.latest
  gone,       \* Gone.images: processes that left the list
  applied,    \* history: the core's listing when the last change applied was sent
  known       \* history: the processes published so far

core == <<listing, samples, error, ticks>>
painter == <<picture, news, painting, latest, gone, applied, known>>
vars == <<core, events, inbox, painter>>

-----------------------------------------------------------------------------
\* The picture.

Empty == [p \in Pids |-> None]

\* Versioned::replace and Versioned::set of the kit: a new value gets a new
\* etag; `set` keeps both when the value is the same.
Replace(versioned, value) == [etag |-> versioned.etag + 1, value |-> value]
Put(versioned, value) ==
  IF versioned.value = value THEN versioned ELSE Replace(versioned, value)

\* Picture::new; 0 is the etag of a list never stamped.
NewPicture ==
  [ passports |-> Empty,
    process_states |-> Empty,
    taken |-> [number |-> 0, rows |-> {}],
    health |-> None,
    service_pids |-> {},
    processes |-> [etag |-> 1, value |-> Empty],
    states |-> [etag |-> 1, value |-> [passport_etag |-> 0, states |-> Empty]],
    sample |-> [passport_etag |-> 0, number |-> 0, rows |-> {}],
    services |-> [etag |-> 1, value |-> None],
    followed |-> [n \in Names |-> None] ]

\* Picture::stamp: the sample and the states name the list they go with.
Stamp(pic) ==
  LET etag == pic.processes.etag IN
  [pic EXCEPT
     !.sample = [passport_etag |-> etag, number |-> pic.taken.number, rows |-> pic.taken.rows],
     !.states = Put(pic.states, [passport_etag |-> etag, states |-> pic.process_states])]

ListUnstamped(pic) == [pic EXCEPT !.processes = Replace(@, pic.passports)]
ListProcesses(pic) == Stamp([pic EXCEPT !.processes = Replace(@, pic.passports)])

\* Picture::update: those gone leave if they are the ones held, then the
\* passports and states that came are put in.
Removed(pic, diff) ==
  {p \in Pids : pic.passports[p] # None /\ <<p, pic.passports[p].seq>> \in diff.gone}
Info(pic, diff, p) ==
  [seq |-> diff.passports[p].seq, verdict |-> diff.passports[p].verdict,
   is_service |-> p \in pic.service_pids]
Passports(pic, diff) ==
  [p \in Pids |-> IF diff.passports[p] # None THEN Info(pic, diff, p)
                  ELSE IF p \in Removed(pic, diff) THEN None ELSE pic.passports[p]]
StatesLeft(pic, diff) ==
  [p \in Pids |-> IF diff.states[p] # None THEN diff.states[p] ELSE pic.process_states[p]]
States(pic, diff) ==
  [p \in Pids |-> IF diff.states[p] # None THEN diff.states[p]
                  ELSE IF p \in Removed(pic, diff) THEN None ELSE pic.process_states[p]]

Relisted(pic, diff) ==
  Removed(pic, diff) # {} \/ \E p \in Pids : Passports(pic, diff)[p] # pic.passports[p]
Restated(diff) == diff.sample # None \/ \E p \in Pids : diff.states[p] # None

Update(pic, diff, health) ==
  LET updated == [pic EXCEPT !.passports = Passports(pic, diff),
                             !.process_states = States(pic, diff),
                             !.taken = IF diff.sample = None THEN @ ELSE diff.sample,
                             !.health = health]
  IN  IF Relisted(pic, diff) THEN ListProcesses(updated)
      ELSE IF Restated(diff) THEN Stamp(updated) ELSE updated

\* Gone::remember: those that leave are kept for readers that still ask for
\* their image.  GONE_KEPT is longer than anything here lasts.
RememberedUnlessBack(pic, diff) ==   \* a mutant: not when the pid came back
  {<<p, pic.passports[p].seq>> : p \in {q \in Removed(pic, diff) : diff.passports[q] = None}}
Remembered(pic, diff) == {<<p, pic.passports[p].seq>> : p \in Removed(pic, diff)}

\* Picture::services: a followed service shows the status followed; a pid
\* that came to host a service, or no longer does, is listed anew.
Follow(pic, scan) ==
  [n \in Names |-> IF pic.followed[n] # None THEN pic.followed[n] ELSE scan[n]]
Hosts(services) == {services[n] : n \in Names} \ {0}
Flagged(passports, hosts) ==
  [p \in Pids |-> IF passports[p] = None THEN None
                  ELSE [passports[p] EXCEPT !.is_service = p \in hosts]]
Services(pic, scan) ==
  LET services == Put(pic.services, Follow(pic, scan))
      hosts == Hosts(services.value)
  IN  IF hosts = pic.service_pids THEN [pic EXCEPT !.services = services]
      ELSE ListProcesses([pic EXCEPT !.services = services,
                                     !.service_pids = hosts,
                                     !.passports = Flagged(@, hosts)])

\* Picture::service_status: a service followed no longer keeps what it shows
\* until a scan says otherwise; nothing is shown before the first scan.
ServiceStatus(pic, name, status) ==
  LET followed == [pic EXCEPT !.followed[name] = status] IN
  IF status = None \/ pic.services.value = None THEN followed
  ELSE Services(followed, pic.services.value)

Apply(pic, change) ==
  CASE change.kind = "core"   -> Update(pic, change.diff, change.health)
    [] change.kind = "scan"   -> Services(pic, change.services)
    [] change.kind = "status" -> ServiceStatus(pic, change.name, change.status)

\* Whether the change told anything new: a list that moved, or the core's
\* health (`news`).
TellsLists(pic, change) ==
  IF change.kind = "core" THEN Relisted(pic, change.diff) \/ Restated(change.diff)
  ELSE Apply(pic, change).services # pic.services
Tells(pic, change) ==
  IF change.kind = "core"
  THEN Relisted(pic, change.diff) \/ Restated(change.diff) \/ pic.health # change.health
  ELSE LET after == Apply(pic, change) IN
       after.services # pic.services \/ after.service_pids # pic.service_pids

\* Picture::publish.
Publish(pic) ==
  [ services |-> pic.services, processes |-> pic.processes, states |-> pic.states,
    sample |-> pic.sample, error |-> pic.health = TRUE, reported |-> pic.health # None ]

-----------------------------------------------------------------------------
Init ==
  /\ listing = Empty
  /\ samples = 0 /\ ticks = 0 /\ events = 0
  /\ error = FALSE
  /\ inbox = <<>>
  /\ picture = NewPicture
  /\ news = FALSE /\ painting = FALSE
  /\ latest = Publish(NewPicture)
  /\ gone = {} /\ applied = Empty /\ known = {}

(***************************************************************************)
(* A tick of the core: with no interval due, with a sample that reads the  *)
(* processes, with one that reads the machine alone, or with one that      *)
(* failed.  The first hands on the first sample.  Only a sample of the     *)
(* processes changes who is listed and how they are; a verdict comes at    *)
(* any tick.                                                               *)
(***************************************************************************)
Moved(p, move) ==
  CASE move = "left"   -> None
    [] move = "joined" -> [seq |-> samples + 1, verdict |-> 0, state |-> 0]
    [] move = "judged" -> [listing[p] EXCEPT !.verdict = 1 - @]
    [] move = "moved"  -> [listing[p] EXCEPT !.state = 1 - @]
    [] OTHER           -> listing[p]

Possible(p, move, kind) ==
  /\ move \in {"judged", "moved", "left"} => listing[p] # None
  /\ move \in {"moved", "left", "joined"} => kind = "full"

Rows(list) == {<<p, list[p].seq>> : p \in {q \in Pids : list[q] # None}}

\* What changed between two listings.
Difference(before, after, sample) ==
  [ gone |-> Rows(before) \ Rows(after),
    passports |-> [p \in Pids |->
      IF after[p] = None THEN None
      ELSE LET now == [seq |-> after[p].seq, verdict |-> after[p].verdict] IN
           IF before[p] # None /\ now = [seq |-> before[p].seq, verdict |-> before[p].verdict]
           THEN None ELSE now],
    states |-> [p \in Pids |->
      IF after[p] = None THEN None
      ELSE LET now == [seq |-> after[p].seq, state |-> after[p].state] IN
           IF before[p] # None /\ now = [seq |-> before[p].seq, state |-> before[p].state]
           THEN None ELSE now],
    sample |-> sample ]

\* A sample that succeeded clears the error, whatever it read.
ErrorAfter(kind) == kind = "failed" \/ (kind = "none" /\ error)

\* Each change takes along, as history, what the core had by then.
CoreTicks(kind, moves) ==
  /\ ticks < MaxTicks /\ Len(inbox) < MaxPending
  /\ ticks = 0 => kind = "full"
  /\ \A p \in Pids : Possible(p, moves[p], kind)
  /\ ticks' = ticks + 1
  /\ listing' = [p \in Pids |-> Moved(p, moves[p])]
  /\ samples' = IF kind \in {"full", "machine"} THEN samples + 1 ELSE samples
  /\ error' = ErrorAfter(kind)
  /\ LET sample == IF kind \in {"none", "failed"} THEN None
                   ELSE [number |-> samples',
                         rows |-> IF kind = "full" THEN Rows(listing') ELSE {}]
     IN  inbox' = Append(inbox, [kind |-> "core", health |-> error',
                                 diff |-> Difference(listing, listing', sample),
                                 listing |-> listing', samples |-> samples'])
  /\ UNCHANGED <<events, painter>>

\* The service scanner and the watcher of followed services; what they send
\* is ServiceWatch's matter.
Scans(services) ==
  /\ events < MaxServices /\ Len(inbox) < MaxPending
  /\ events' = events + 1
  /\ inbox' = Append(inbox, [kind |-> "scan", services |-> services,
                             listing |-> listing, samples |-> samples])
  /\ UNCHANGED <<core, painter>>

Reports(name, status) ==
  /\ events < MaxServices /\ Len(inbox) < MaxPending
  /\ events' = events + 1
  /\ inbox' = Append(inbox, [kind |-> "status", name |-> name, status |-> status,
                             listing |-> listing, samples |-> samples])
  /\ UNCHANGED <<core, painter>>

(***************************************************************************)
(* The painter: a batch is what is in the channel, as it goes on filling.  *)
(* It publishes at once after each change that brought a sample, and once  *)
(* at the end for the rest.                                                *)
(***************************************************************************)
SampledNever(before, after) == FALSE
Sampled(before, after) == before.taken # after.taken

Publishes(pic) ==
  /\ latest' = Publish(pic)
  /\ known' = known \cup Rows(pic.processes.value)

Paints ==
  /\ inbox # <<>>
  /\ inbox' = Tail(inbox)
  /\ painting' = TRUE
  /\ LET change == Head(inbox)
         after == Apply(picture, change)
         told == news \/ Tells(picture, change)
     IN  /\ picture' = after
         /\ IF told /\ Sampled(picture, after)
            THEN Publishes(after) /\ news' = FALSE
            ELSE UNCHANGED <<latest, known>> /\ news' = told
         /\ gone' = IF change.kind = "core" THEN gone \cup Remembered(picture, change.diff) ELSE gone
         /\ applied' = change.listing
  /\ UNCHANGED <<core, events>>

EndsBatch ==
  /\ painting /\ inbox = <<>>
  /\ painting' = FALSE
  /\ news' = FALSE
  /\ IF news THEN Publishes(picture) ELSE UNCHANGED <<latest, known>>
  /\ UNCHANGED <<core, events, inbox, picture, gone, applied>>

Sources == \/ \E kind \in Kinds, moves \in [Pids -> Moves] : CoreTicks(kind, moves)
           \/ \E services \in Scan : Scans(services)
           \/ \E name \in Names, status \in Pids \cup {0, None} : Reports(name, status)
Painter == Paints \/ EndsBatch

Next == Sources \/ Painter
Spec == Init /\ [][Next]_vars

-----------------------------------------------------------------------------
Etag == Nat \ {0}
Listing == [Pids -> Proc \cup {None}]
Listed == [Pids -> InfoRec \cup {None}]
Stated == [Pids -> StateRec \cup {None}]
IsSample(s) == s.number \in Nat /\ s.rows \subseteq Pids \X Nat
IsStates(s) == /\ s.etag \in Etag /\ s.value.passport_etag \in Nat
               /\ s.value.states \in Stated
IsShown(shown) ==
  /\ shown.processes.etag \in Etag /\ shown.processes.value \in Listed
  /\ IsStates(shown.states)
  /\ IsSample(shown.sample) /\ shown.sample.passport_etag \in Nat
  /\ shown.services.etag \in Etag
  /\ shown.services.value \in Scan \cup {None}

\* Each part of the state holds what its type in the code allows, and what
\* is published has always told its news.
TypeOK ==
  /\ listing \in Listing /\ applied \in Listing
  /\ samples \in Nat /\ error \in BOOLEAN
  /\ picture.passports \in Listed /\ picture.process_states \in Stated
  /\ IsSample(picture.taken)
  /\ picture.health \in BOOLEAN \cup {None}
  /\ picture.service_pids \subseteq Pids
  /\ picture.followed \in [Names -> Pids \cup {0, None}]
  /\ IsShown(picture) /\ IsShown(latest)
  /\ gone \subseteq Pids \X Nat /\ known \subseteq Pids \X Nat
  /\ painting \in BOOLEAN /\ news \in BOOLEAN
  /\ news => painting

SamePids(a, b) == \A p \in Pids : IF a[p] = None THEN b[p] = None
                                  ELSE b[p] # None /\ b[p].seq = a[p].seq

\* A published process is marked a service exactly when a service published
\* with it runs on its pid, whichever of the two was told first.
ServicesFlagged ==
  \A p \in Pids :
    LET shown == latest.processes.value[p] IN
    shown # None =>
      (shown.is_service <=> latest.services.value # None /\ p \in Hosts(latest.services.value))

\* From the first report on, the lists of what is published go together: the
\* states and the sample name the process list they came with, the states
\* are those of its processes, and a sample with rows has a row for each of
\* them, and the processes are marked as the services published with them have
\* it -- whatever a scan or a status relisted between two samples (stamp).
PublishedCoherent ==
  /\ TypeOK
  /\ latest.reported =>
       /\ latest.states.value.passport_etag = latest.processes.etag
       /\ latest.sample.passport_etag = latest.processes.etag
       /\ SamePids(latest.processes.value, latest.states.value.states)
       /\ latest.sample.rows \in {{}, Rows(latest.processes.value)}
       /\ ServicesFlagged

\* A reader that looks for the image of a process in the list published and
\* then, not finding it, among those gone, finds it in one of them, once it
\* was ever published: it is among the gone before the list is published
\* without it, and stays there (image_of).
ImageKnown == known \subseteq Rows(latest.processes.value) \cup gone

\* The picture holds exactly what the core listed when it sent the last
\* difference applied, however services came and went in between.
PictureIsCore ==
  \A p \in Pids :
    IF applied[p] = None
    THEN picture.passports[p] = None /\ picture.process_states[p] = None
    ELSE /\ picture.passports[p] # None /\ picture.process_states[p] # None
         /\ picture.passports[p].seq = applied[p].seq
         /\ picture.passports[p].verdict = applied[p].verdict
         /\ picture.process_states[p] = [seq |-> applied[p].seq, state |-> applied[p].state]

\* Each sample the core took is published, in order and none passed over, so
\* each is offered to the subscribers (the comment on paint).
SamplesInOrder ==
  [][latest'.sample.number \in {latest.sample.number, latest.sample.number + 1}]_vars

\* Between two batches nothing the picture holds is withheld from readers,
\* but for services followed no longer.
NothingWithheld == ~painting => latest = Publish(picture)
=============================================================================

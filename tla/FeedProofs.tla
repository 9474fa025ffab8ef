----------------------------- MODULE FeedProofs -----------------------------
(***************************************************************************)
(* Proof that what the feed (Feed) publishes is coherent, complete and in  *)
(* order, whatever piles up in the painter's channel, for any set of pids  *)
(* and services and any number of ticks, scans and statuses.               *)
(***************************************************************************)
EXTENDS Feed, TLAPS

Versions(V) == [etag : Etag, value : V]
Stamps == [passport_etag : Nat, states : Stated]
Picture ==
  [ passports : Listed, process_states : Stated, taken : Sample,
    health : BOOLEAN \cup {None}, service_pids : SUBSET Pids,
    processes : Versions(Listed), states : Versions(Stamps),
    sample : [passport_etag : Nat, number : Nat, rows : SUBSET (Pids \X Nat)],
    services : Versions(Scan \cup {None}),
    followed : [Names -> Pids \cup {0, None}] ]

Diff ==
  [ gone : SUBSET (Pids \X Nat), passports : [Pids -> PassportRec \cup {None}],
    states : Stated, sample : Sample \cup {None} ]
CoreChange ==
  [kind : {"core"}, health : BOOLEAN, diff : Diff, listing : Listing, samples : Nat]
ScanChange == [kind : {"scan"}, services : Scan, listing : Listing, samples : Nat]
StatusChange ==
  [kind : {"status"}, name : Names, status : Pids \cup {0, None},
   listing : Listing, samples : Nat]
Change == CoreChange \cup ScanChange \cup StatusChange

\* A picture holds what `list` lists.
Holds(pic, list) ==
  \A p \in Pids :
    IF list[p] = None
    THEN pic.passports[p] = None /\ pic.process_states[p] = None
    ELSE /\ pic.passports[p] # None /\ pic.process_states[p] # None
         /\ pic.passports[p].seq = list[p].seq
         /\ pic.passports[p].verdict = list[p].verdict
         /\ pic.process_states[p] = [seq |-> list[p].seq, state |-> list[p].state]

\* The process list, the states and the sample are those held, and after the
\* first sample they name each other.
Shows(pic) ==
  /\ pic.processes.value = pic.passports
  /\ pic.states.value.states = pic.process_states
  /\ pic.sample.number = pic.taken.number /\ pic.sample.rows = pic.taken.rows
  /\ pic.taken.number > 0 =>
       /\ pic.states.value.passport_etag = pic.processes.etag
       /\ pic.sample.passport_etag = pic.processes.etag
  /\ pic.health # None => pic.taken.number > 0
  /\ pic.taken.rows \in {{}, Rows(pic.passports)}

\* The pids that host a service are those of the services shown, and the
\* processes are marked so.
Flags(pic) ==
  /\ \A p \in Pids : p \in pic.service_pids <=>
                       pic.services.value # None /\ p \in Hosts(pic.services.value)
  /\ \A p \in Pids : pic.passports[p] # None =>
                       (pic.passports[p].is_service <=> p \in pic.service_pids)

\* A picture that holds a listing and shows what it holds.
Good(pic, list) == pic \in Picture /\ Holds(pic, list) /\ Shows(pic) /\ Flags(pic)

\* What the core had when change n was sent; before the first, what it had
\* when the last one applied was.
At(n) == IF n = 0 THEN applied ELSE inbox[n].listing
Count(n) == IF n = 0 THEN picture.taken.number ELSE inbox[n].samples

\* What a change tells after `list` and `count` samples.
Follows(list, count, change) ==
  IF change.kind = "core"
  THEN /\ change.diff = Difference(list, change.listing, change.diff.sample)
       /\ IF change.diff.sample = None
          THEN /\ count > 0 /\ change.samples = count
               /\ Rows(change.listing) = Rows(list)
          ELSE /\ change.samples = count + 1
               /\ change.diff.sample.number = count + 1
               /\ change.diff.sample.rows \in {{}, Rows(change.listing)}
  ELSE change.listing = list /\ change.samples = count

Channel ==
  /\ \A n \in 1..Len(inbox) : Follows(At(n - 1), Count(n - 1), inbox[n])
  /\ At(Len(inbox)) = listing /\ Count(Len(inbox)) = samples
  /\ ticks > 0 => samples > 0

\* A later version of a list has a later etag, or is the same.
Later(old, new) ==
  /\ new.etag >= old.etag
  /\ new.etag = old.etag => new.value = old.value

\* What is published is an earlier picture's, with each sample taken.
Behind ==
  /\ Later(latest.processes, picture.processes)
  /\ Later(latest.states, picture.states)
  /\ Later(latest.services, picture.services)
  /\ latest.sample.number = picture.taken.number
  /\ ~news => latest = Publish(picture)
  /\ news => painting

Recalled ==
  /\ known \subseteq Rows(picture.passports) \cup gone
  /\ known \subseteq Rows(latest.processes.value) \cup gone

Typed ==
  /\ listing \in Listing /\ applied \in Listing
  /\ samples \in Nat /\ ticks \in Nat /\ error \in BOOLEAN
  /\ inbox \in Seq(Change)
  /\ picture \in Picture
  /\ news \in BOOLEAN /\ painting \in BOOLEAN
  /\ gone \subseteq Pids \X Nat /\ known \subseteq Pids \X Nat

\* What a reader finds is typed and goes together; PublishedCoherent says so
\* of what is published.
Coherent(shown) ==
  /\ IsShown(shown)
  /\ shown.reported =>
       /\ shown.states.value.passport_etag = shown.processes.etag
       /\ shown.sample.passport_etag = shown.processes.etag
       /\ SamePids(shown.processes.value, shown.states.value.states)
       /\ shown.sample.rows \in {{}, Rows(shown.processes.value)}
       /\ \A p \in Pids :
            shown.processes.value[p] # None =>
              (shown.processes.value[p].is_service <=>
                 shown.services.value # None /\ p \in Hosts(shown.services.value))

IInv ==
  /\ Typed /\ Channel
  /\ Good(picture, applied)
  /\ Coherent(latest) /\ Behind /\ Recalled

-----------------------------------------------------------------------------
\* A list set gets a later version with the value given.
LEMMA Versioned ==
  ASSUME NEW V, NEW versioned \in Versions(V), NEW value \in V
  PROVE  /\ Replace(versioned, value) \in Versions(V)
         /\ Replace(versioned, value).value = value
         /\ Later(versioned, Replace(versioned, value))
         /\ Put(versioned, value) \in Versions(V)
         /\ Put(versioned, value).value = value
         /\ Later(versioned, Put(versioned, value))
BY DEF Versions, Etag, Replace, Put, Later

\* The sample and the states name the list.
Stamped(pic) ==
  /\ pic.sample = [passport_etag |-> pic.processes.etag,
                   number |-> pic.taken.number, rows |-> pic.taken.rows]
  /\ pic.states.value = [passport_etag |-> pic.processes.etag, states |-> pic.process_states]

\* Stamping touches the sample and the states alone (Picture::stamp).
LEMMA StampStamps ==
  ASSUME NEW pic \in Picture
  PROVE  /\ Stamp(pic) \in Picture
         /\ Stamped(Stamp(pic))
         /\ Later(pic.states, Stamp(pic).states)
         /\ Stamp(pic).passports = pic.passports
         /\ Stamp(pic).process_states = pic.process_states
         /\ Stamp(pic).taken = pic.taken
         /\ Stamp(pic).health = pic.health
         /\ Stamp(pic).service_pids = pic.service_pids
         /\ Stamp(pic).processes = pic.processes
         /\ Stamp(pic).services = pic.services
<1> DEFINE etag == pic.processes.etag
           sample == [passport_etag |-> etag, number |-> pic.taken.number, rows |-> pic.taken.rows]
           value == [passport_etag |-> etag, states |-> pic.process_states]
           states == Put(pic.states, value)
<1>1. Stamp(pic) = [pic EXCEPT !.sample = sample, !.states = states]
  BY DEF Stamp
<1>2. value \in Stamps /\ pic.states \in Versions(Stamps)
  BY DEF Picture, Versions, Stamps, Etag
<1>3. sample \in [passport_etag : Nat, number : Nat, rows : SUBSET (Pids \X Nat)]
  BY DEF Picture, Versions, Etag, Sample
<1> HIDE DEF sample, value, states
<1>4. states \in Versions(Stamps) /\ states.value = value /\ Later(pic.states, states)
  BY <1>2, Versioned DEF states
<1>5. /\ Stamp(pic) \in Picture
      /\ Stamp(pic).sample = sample /\ Stamp(pic).states = states
  BY <1>1, <1>3, <1>4 DEF Picture
<1>6. /\ Stamp(pic).passports = pic.passports
      /\ Stamp(pic).process_states = pic.process_states
      /\ Stamp(pic).taken = pic.taken
      /\ Stamp(pic).health = pic.health
      /\ Stamp(pic).service_pids = pic.service_pids
      /\ Stamp(pic).processes = pic.processes
      /\ Stamp(pic).services = pic.services
  BY <1>1 DEF Picture
<1>7. Stamped(Stamp(pic))
  BY <1>4, <1>5, <1>6 DEF Stamped, sample, value
<1> QED BY <1>4, <1>5, <1>6, <1>7

\* The list is replaced by the one held, and stamped (Picture::list_processes).
LEMMA ListProcessesLists ==
  ASSUME NEW pic \in Picture
  PROVE  /\ ListProcesses(pic) \in Picture
         /\ Stamped(ListProcesses(pic))
         /\ ListProcesses(pic).processes.value = pic.passports
         /\ Later(pic.processes, ListProcesses(pic).processes)
         /\ Later(pic.states, ListProcesses(pic).states)
         /\ ListProcesses(pic).passports = pic.passports
         /\ ListProcesses(pic).process_states = pic.process_states
         /\ ListProcesses(pic).taken = pic.taken
         /\ ListProcesses(pic).health = pic.health
         /\ ListProcesses(pic).service_pids = pic.service_pids
         /\ ListProcesses(pic).services = pic.services
<1> DEFINE list == Replace(pic.processes, pic.passports)
           relisted == [pic EXCEPT !.processes = list]
<1>1. ListProcesses(pic) = Stamp(relisted)
  BY DEF ListProcesses
<1>2. pic.processes \in Versions(Listed) /\ pic.passports \in Listed
  BY DEF Picture
<1> HIDE DEF list
<1>3. list \in Versions(Listed) /\ list.value = pic.passports /\ Later(pic.processes, list)
  BY <1>2, Versioned DEF list
<1>4. relisted \in Picture /\ relisted.processes = list
  BY <1>3 DEF Picture
<1>5. /\ relisted.passports = pic.passports
      /\ relisted.process_states = pic.process_states
      /\ relisted.taken = pic.taken
      /\ relisted.health = pic.health
      /\ relisted.service_pids = pic.service_pids
      /\ relisted.states = pic.states
      /\ relisted.services = pic.services
  BY DEF Picture
<1> HIDE DEF relisted
<1> QED BY <1>1, <1>3, <1>4, <1>5, StampStamps

\* Which rows a list has.
LEMMA RowOf ==
  ASSUME NEW list, NEW p, NEW seq
  PROVE  <<p, seq>> \in Rows(list) <=> p \in Pids /\ list[p] # None /\ seq = list[p].seq
BY DEF Rows

\* Two lists that agree on who is on each pid have the same rows.
LEMMA SameRows ==
  ASSUME NEW a, NEW b,
         \A p \in Pids : /\ a[p] = None <=> b[p] = None
                         /\ a[p] # None => a[p].seq = b[p].seq
  PROVE  Rows(a) = Rows(b)
<1>1. ASSUME NEW row \in Rows(a) PROVE row \in Rows(b)
  <2>1. PICK p \in Pids : a[p] # None /\ row = <<p, a[p].seq>>
    BY DEF Rows
  <2>2. b[p] # None /\ b[p].seq = a[p].seq
    BY <2>1
  <2>3. <<p, b[p].seq>> \in Rows(b)
    BY <2>2, RowOf
  <2> QED BY <2>1, <2>2, <2>3
<1>2. ASSUME NEW row \in Rows(b) PROVE row \in Rows(a)
  <2>1. PICK p \in Pids : b[p] # None /\ row = <<p, b[p].seq>>
    BY DEF Rows
  <2>2. a[p] # None /\ a[p].seq = b[p].seq
    BY <2>1
  <2>3. <<p, a[p].seq>> \in Rows(a)
    BY <2>2, RowOf
  <2> QED BY <2>1, <2>2, <2>3
<1> QED BY <1>1, <1>2

\* What an update puts in is well typed.
LEMMA UpdateType ==
  ASSUME NEW pic \in Picture, NEW diff \in Diff
  PROVE  Passports(pic, diff) \in Listed /\ States(pic, diff) \in Stated
<1>1. ASSUME NEW p \in Pids PROVE Passports(pic, diff)[p] \in InfoRec \cup {None}
  <2>1. pic.passports[p] \in InfoRec \cup {None}
    BY DEF Picture, Listed
  <2>2. diff.passports[p] # None => Info(pic, diff, p) \in InfoRec
    BY DEF Info, InfoRec, Diff, PassportRec
  <2> QED BY <2>1, <2>2 DEF Passports
<1>2. ASSUME NEW p \in Pids PROVE States(pic, diff)[p] \in StateRec \cup {None}
  <2>1. pic.process_states[p] \in StateRec \cup {None}
    BY DEF Picture, Stated
  <2>2. diff.states[p] \in StateRec \cup {None}
    BY DEF Diff, Stated
  <2> QED BY <2>1, <2>2 DEF States
<1>3. Passports(pic, diff) = [p \in Pids |-> Passports(pic, diff)[p]]
  BY DEF Passports
<1>4. States(pic, diff) = [p \in Pids |-> States(pic, diff)[p]]
  BY DEF States
<1> QED BY <1>1, <1>2, <1>3, <1>4 DEF Listed, Stated

\* The picture with a difference put in, before any list is set anew.
Updated(pic, diff, health) ==
  [pic EXCEPT !.passports = Passports(pic, diff), !.process_states = States(pic, diff),
              !.taken = IF diff.sample = None THEN pic.taken ELSE diff.sample,
              !.health = health]

\* What an update does to each part (Picture::update).
LEMMA UpdateUpdates ==
  ASSUME NEW pic \in Picture, NEW diff \in Diff, NEW health \in BOOLEAN,
         NEW after, after = Update(pic, diff, health)
  PROVE  /\ after \in Picture
         /\ after.passports = Passports(pic, diff)
         /\ after.process_states = States(pic, diff)
         /\ after.taken = IF diff.sample = None THEN pic.taken ELSE diff.sample
         /\ after.health = health
         /\ after.service_pids = pic.service_pids
         /\ after.services = pic.services
         /\ IF Relisted(pic, diff) THEN after.processes.value = after.passports
            ELSE after.processes = pic.processes
         /\ IF Relisted(pic, diff) \/ Restated(diff) THEN Stamped(after)
            ELSE after.sample = pic.sample /\ after.states = pic.states
         /\ Later(pic.processes, after.processes)
         /\ Later(pic.states, after.states)
<1> DEFINE updated == Updated(pic, diff, health)
           taken == IF diff.sample = None THEN pic.taken ELSE diff.sample
<1>1. after = IF Relisted(pic, diff) THEN ListProcesses(updated)
              ELSE IF Restated(diff) THEN Stamp(updated) ELSE updated
  BY DEF Update, Updated
<1>2. taken \in Sample
  BY DEF Picture, Diff
<1>3. updated = [pic EXCEPT !.passports = Passports(pic, diff),
                            !.process_states = States(pic, diff),
                            !.taken = taken, !.health = health]
  BY DEF Updated
<1> HIDE DEF taken, updated
<1>4. /\ updated \in Picture
      /\ updated.passports = Passports(pic, diff)
      /\ updated.process_states = States(pic, diff)
      /\ updated.taken = taken
      /\ updated.health = health
  BY <1>2, <1>3, UpdateType DEF Picture
<1>5. /\ updated.service_pids = pic.service_pids
      /\ updated.services = pic.services
      /\ updated.processes = pic.processes
      /\ updated.states = pic.states
      /\ updated.sample = pic.sample
  BY <1>3 DEF Picture
<1>6. Later(pic.processes, pic.processes) /\ Later(pic.states, pic.states)
  BY DEF Later, Picture, Versions, Etag
<1>7. CASE Relisted(pic, diff)
  <2>1. after = ListProcesses(updated)
    BY <1>1, <1>7
  <2> QED BY <2>1, <1>4, <1>5, <1>7, ListProcessesLists DEF taken
<1>8. CASE ~Relisted(pic, diff) /\ Restated(diff)
  <2>1. after = Stamp(updated)
    BY <1>1, <1>8
  <2> QED BY <2>1, <1>4, <1>5, <1>6, <1>8, StampStamps DEF taken
<1>9. CASE ~Relisted(pic, diff) /\ ~Restated(diff)
  <2>1. after = updated
    BY <1>1, <1>9
  <2> QED BY <2>1, <1>4, <1>5, <1>6, <1>9 DEF taken
<1> QED BY <1>7, <1>8, <1>9

\* A difference of two listings applied to a picture that holds the first
\* makes it hold the second.
LEMMA DifferenceApplied ==
  ASSUME NEW pic \in Picture, NEW before \in Listing, NEW after \in Listing,
         NEW sample \in Sample \cup {None},
         NEW diff \in Diff, diff = Difference(before, after, sample),
         NEW new, new.passports = Passports(pic, diff), new.process_states = States(pic, diff),
         Holds(pic, before)
  PROVE  Holds(new, after)
<1> SUFFICES ASSUME NEW p \in Pids
             PROVE  IF after[p] = None
                    THEN new.passports[p] = None /\ new.process_states[p] = None
                    ELSE /\ new.passports[p] # None /\ new.process_states[p] # None
                         /\ new.passports[p].seq = after[p].seq
                         /\ new.passports[p].verdict = after[p].verdict
                         /\ new.process_states[p] = [seq |-> after[p].seq, state |-> after[p].state]
  BY DEF Holds
<1> DEFINE now == [seq |-> after[p].seq, verdict |-> after[p].verdict]
           state == [seq |-> after[p].seq, state |-> after[p].state]
<1>1. /\ before[p] = None => pic.passports[p] = None /\ pic.process_states[p] = None
      /\ before[p] # None =>
           /\ pic.passports[p] # None /\ pic.process_states[p] # None
           /\ pic.passports[p].seq = before[p].seq
           /\ pic.passports[p].verdict = before[p].verdict
           /\ pic.process_states[p] = [seq |-> before[p].seq, state |-> before[p].state]
  BY DEF Holds
<1>2. p \in Removed(pic, diff) <=> pic.passports[p] # None /\ <<p, pic.passports[p].seq>> \in diff.gone
  BY DEF Removed
<1>3. diff.gone = Rows(before) \ Rows(after)
  BY DEF Difference
<1>4. /\ after[p] = None => diff.passports[p] = None
      /\ after[p] # None =>
           diff.passports[p] = IF /\ before[p] # None
                                  /\ now = [seq |-> before[p].seq, verdict |-> before[p].verdict]
                               THEN None ELSE now
  BY DEF Difference
<1>5. /\ after[p] = None => diff.states[p] = None
      /\ after[p] # None =>
           diff.states[p] = IF /\ before[p] # None
                               /\ state = [seq |-> before[p].seq, state |-> before[p].state]
                            THEN None ELSE state
  BY DEF Difference
<1>6. new.passports[p] = IF diff.passports[p] # None THEN Info(pic, diff, p)
                         ELSE IF p \in Removed(pic, diff) THEN None ELSE pic.passports[p]
  BY DEF Passports
<1>7. new.process_states[p] = IF diff.states[p] # None THEN diff.states[p]
                              ELSE IF p \in Removed(pic, diff) THEN None ELSE pic.process_states[p]
  BY DEF States
<1>8. CASE after[p] = None
  <2>1. before[p] # None => p \in Removed(pic, diff)
    BY <1>1, <1>2, <1>3, <1>8, RowOf
  <2> QED BY <1>1, <1>4, <1>5, <1>6, <1>7, <1>8, <2>1
<1>9. CASE after[p] # None
  <2>1. after[p] \in Proc
    BY <1>9 DEF Listing
  <2>2. now \in PassportRec /\ state \in StateRec
    BY <2>1 DEF Proc, PassportRec, StateRec
  <2>3. now # None /\ state # None
    BY <2>2, NoneAssumption
  <2>4. /\ Info(pic, diff, p).seq = diff.passports[p].seq
        /\ Info(pic, diff, p).verdict = diff.passports[p].verdict
    BY DEF Info
  <2>5. diff.passports[p] # None => Info(pic, diff, p) # None
    <3>1. diff.passports[p] # None => Info(pic, diff, p) \in InfoRec
      BY DEF Info, InfoRec, Diff, PassportRec
    <3> QED BY <3>1, NoneAssumption
  <2>6. /\ now.seq = after[p].seq /\ now.verdict = after[p].verdict
    OBVIOUS
  <2>7. before[p] # None /\ before[p].seq = after[p].seq => p \notin Removed(pic, diff)
    BY <1>1, <1>2, <1>3, <1>9, RowOf
  <2>8. /\ new.passports[p] # None
        /\ new.passports[p].seq = after[p].seq
        /\ new.passports[p].verdict = after[p].verdict
    <3>1. CASE diff.passports[p] # None
      BY <1>4, <1>6, <1>9, <2>4, <2>5, <2>6, <3>1
    <3>2. CASE diff.passports[p] = None
      <4>1. before[p] # None /\ now = [seq |-> before[p].seq, verdict |-> before[p].verdict]
        BY <1>4, <1>9, <2>3, <3>2
      <4>2. before[p].seq = after[p].seq /\ before[p].verdict = after[p].verdict
        BY <4>1
      <4> QED BY <1>1, <1>6, <2>7, <3>2, <4>1, <4>2
    <3> QED BY <3>1, <3>2
  <2>9. new.process_states[p] = state
    <3>1. CASE diff.states[p] # None
      BY <1>5, <1>7, <1>9, <3>1
    <3>2. CASE diff.states[p] = None
      <4>1. before[p] # None /\ state = [seq |-> before[p].seq, state |-> before[p].state]
        BY <1>5, <1>9, <2>3, <3>2
      <4>2. before[p].seq = after[p].seq
        BY <4>1
      <4> QED BY <1>1, <1>7, <2>7, <3>2, <4>1, <4>2
    <3> QED BY <3>1, <3>2
  <2> QED BY <1>9, <2>3, <2>8, <2>9
<1> QED BY <1>8, <1>9

\* No list of the picture goes back.
Grown(pic, after) ==
  /\ Later(pic.processes, after.processes)
  /\ Later(pic.states, after.states)
  /\ Later(pic.services, after.services)

\* A picture has a row for each process it holds.
LEMMA RowsHeld ==
  ASSUME NEW pic, NEW list, Holds(pic, list)
  PROVE  Rows(pic.passports) = Rows(list)
<1>1. \A p \in Pids : /\ pic.passports[p] = None <=> list[p] = None
                      /\ pic.passports[p] # None => pic.passports[p].seq = list[p].seq
  BY DEF Holds
<1> QED BY <1>1, SameRows

\* An update that moved no list left the lists as they were.
LEMMA NotRelisted ==
  ASSUME NEW pic \in Picture, NEW diff \in Diff, ~Relisted(pic, diff)
  PROVE  /\ Passports(pic, diff) = pic.passports
         /\ ~Restated(diff) => States(pic, diff) = pic.process_states
<1>1. pic.passports = [p \in Pids |-> pic.passports[p]]
  BY DEF Picture, Listed
<1>2. pic.process_states = [p \in Pids |-> pic.process_states[p]]
  BY DEF Picture, Stated
<1>3. Passports(pic, diff) = [p \in Pids |-> Passports(pic, diff)[p]]
  BY DEF Passports
<1>4. \A p \in Pids : Passports(pic, diff)[p] = pic.passports[p]
  BY DEF Relisted
<1>5. Removed(pic, diff) = {}
  BY DEF Relisted
<1>6. ~Restated(diff) => \A p \in Pids : diff.states[p] = None
  BY DEF Restated
<1>7. ~Restated(diff) => \A p \in Pids : States(pic, diff)[p] = pic.process_states[p]
  BY <1>5, <1>6 DEF States
<1>8. States(pic, diff) = [p \in Pids |-> States(pic, diff)[p]]
  BY DEF States
<1>9. Passports(pic, diff) = pic.passports
  BY <1>1, <1>3, <1>4
<1> QED BY <1>2, <1>7, <1>8, <1>9

\* The picture stays good, and its lists grow, when the core's change goes in.
LEMMA UpdateKeeps ==
  ASSUME NEW pic, NEW list \in Listing, NEW change \in CoreChange, Good(pic, list),
         Follows(list, pic.taken.number, change),
         NEW after, after = Update(pic, change.diff, change.health)
  PROVE  /\ Good(after, change.listing)
         /\ Grown(pic, after)
         /\ after.taken.number = change.samples
<1> DEFINE diff == change.diff
<1>0. pic \in Picture /\ Holds(pic, list) /\ Shows(pic) /\ Flags(pic)
  BY DEF Good
<1>1. /\ diff \in Diff /\ change.health \in BOOLEAN /\ change.listing \in Listing
      /\ change.kind = "core"
  BY DEF CoreChange
<1>2. diff.sample \in Sample \cup {None}
  BY <1>1 DEF Diff
<1>3. /\ diff = Difference(list, change.listing, diff.sample)
      /\ diff.sample = None => /\ pic.taken.number > 0 /\ change.samples = pic.taken.number
                               /\ Rows(change.listing) = Rows(list)
      /\ diff.sample # None => /\ change.samples = pic.taken.number + 1
                               /\ diff.sample.number = pic.taken.number + 1
                               /\ diff.sample.rows \in {{}, Rows(change.listing)}
  BY <1>1 DEF Follows
<1> HIDE DEF diff
<1>4. after = Update(pic, diff, change.health)
  BY DEF diff
<1>5. /\ after \in Picture
      /\ after.passports = Passports(pic, diff)
      /\ after.process_states = States(pic, diff)
      /\ after.taken = IF diff.sample = None THEN pic.taken ELSE diff.sample
      /\ after.health = change.health
      /\ after.service_pids = pic.service_pids
      /\ after.services = pic.services
  BY <1>0, <1>1, <1>4, UpdateUpdates
<1>6. /\ Relisted(pic, diff) => after.processes.value = after.passports
      /\ ~Relisted(pic, diff) => after.processes = pic.processes
      /\ Relisted(pic, diff) \/ Restated(diff) => Stamped(after)
      /\ ~(Relisted(pic, diff) \/ Restated(diff)) =>
           after.sample = pic.sample /\ after.states = pic.states
      /\ Later(pic.processes, after.processes)
      /\ Later(pic.states, after.states)
  BY <1>0, <1>1, <1>4, UpdateUpdates
<1>7. Holds(after, change.listing)
  BY <1>0, <1>1, <1>2, <1>3, <1>5, DifferenceApplied
<1>8. after.taken.number = change.samples /\ pic.taken.number \in Nat /\ change.samples > 0
  BY <1>0, <1>3, <1>5 DEF Picture, Sample
<1>9. Later(pic.services, after.services)
  BY <1>0, <1>5 DEF Later, Picture, Versions, Etag
<1>10. Shows(after)
  <2>1. after.processes.value = after.passports
    BY <1>0, <1>1, <1>5, <1>6, NotRelisted DEF Shows
  <2>2. after.taken.rows \in {{}, Rows(after.passports)}
    <3>1. Rows(after.passports) = Rows(change.listing) /\ Rows(pic.passports) = Rows(list)
      BY <1>0, <1>7, RowsHeld
    <3>2. pic.taken.rows \in {{}, Rows(pic.passports)}
      BY <1>0 DEF Shows
    <3>3. CASE diff.sample = None
      BY <1>3, <1>5, <3>1, <3>2, <3>3
    <3>4. CASE diff.sample # None
      BY <1>3, <1>5, <3>1, <3>4
    <3> QED BY <3>3, <3>4
  <2>3. after.taken.number > 0
    BY <1>8
  <2>4. CASE Relisted(pic, diff) \/ Restated(diff)
    <3>1. Stamped(after)
      BY <1>6, <2>4
    <3>2. /\ after.states.value.states = after.process_states
          /\ after.sample.number = after.taken.number /\ after.sample.rows = after.taken.rows
          /\ after.states.value.passport_etag = after.processes.etag
          /\ after.sample.passport_etag = after.processes.etag
      BY <3>1 DEF Stamped
    <3> QED BY <2>1, <2>2, <2>3, <3>2 DEF Shows
  <2>5. CASE ~(Relisted(pic, diff) \/ Restated(diff))
    <3>1. diff.sample = None
      BY <2>5 DEF Restated
    <3>2. after.process_states = pic.process_states
      BY <1>0, <1>1, <1>5, <2>5, NotRelisted
    <3>3. after.taken = pic.taken /\ after.sample = pic.sample /\ after.states = pic.states
          /\ after.processes = pic.processes
      BY <1>5, <1>6, <2>5, <3>1
    <3>4. /\ after.states.value.states = after.process_states
          /\ after.sample.number = after.taken.number /\ after.sample.rows = after.taken.rows
      BY <1>0, <3>2, <3>3 DEF Shows
    <3>5. /\ after.states.value.passport_etag = after.processes.etag
          /\ after.sample.passport_etag = after.processes.etag
      BY <1>0, <1>3, <3>1, <3>3 DEF Shows
    <3> QED BY <2>1, <2>2, <2>3, <3>4, <3>5 DEF Shows
  <2> QED BY <2>4, <2>5
<1>11. Flags(after)
  <2>1. ASSUME NEW p \in Pids, after.passports[p] # None
        PROVE  after.passports[p].is_service <=> p \in after.service_pids
    <3>1. Info(pic, diff, p).is_service = (p \in pic.service_pids)
      BY DEF Info
    <3>2. \/ after.passports[p] = Info(pic, diff, p)
          \/ after.passports[p] = pic.passports[p]
      BY <1>5, <2>1 DEF Passports
    <3>3. pic.passports[p] # None => (pic.passports[p].is_service <=> p \in pic.service_pids)
      BY <1>0 DEF Flags
    <3>4. CASE after.passports[p] = Info(pic, diff, p)
      BY <1>5, <3>1, <3>4
    <3>5. CASE after.passports[p] = pic.passports[p]
      BY <1>5, <2>1, <3>3, <3>5
    <3> QED BY <3>2, <3>4, <3>5
  <2>2. \A p \in Pids : p \in after.service_pids <=>
                          after.services.value # None /\ p \in Hosts(after.services.value)
    BY <1>0, <1>5 DEF Flags
  <2> QED BY <2>1, <2>2 DEF Flags
<1>12. Good(after, change.listing)
  BY <1>5, <1>7, <1>10, <1>11 DEF Good
<1> QED BY <1>6, <1>8, <1>9, <1>12 DEF Grown

\* A change of the core that tells nothing leaves what there is to publish.
LEMMA UntoldUpdate ==
  ASSUME NEW pic \in Picture, NEW diff \in Diff, NEW health \in BOOLEAN,
         ~Relisted(pic, diff), ~Restated(diff), pic.health = health
  PROVE  Publish(Update(pic, diff, health)) = Publish(pic)
<1> DEFINE after == Update(pic, diff, health)
<1>1. /\ after.health = health /\ after.services = pic.services
      /\ after.processes = pic.processes
      /\ after.sample = pic.sample /\ after.states = pic.states
  BY UpdateUpdates
<1> HIDE DEF after
<1>2. Publish(after) = Publish(pic)
  BY <1>1 DEF Publish
<1> QED BY <1>2 DEF after

\* A process is listed still, or kept among the gone.
LEMMA UpdateRemembers ==
  ASSUME NEW pic, NEW list \in Listing, NEW change \in CoreChange, Good(pic, list),
         Follows(list, pic.taken.number, change),
         NEW after, after = Update(pic, change.diff, change.health)
  PROVE  Rows(pic.passports) \subseteq Rows(after.passports) \cup Remembered(pic, change.diff)
<1>1. Good(after, change.listing)
  BY UpdateKeeps
<1>2. Rows(pic.passports) = Rows(list) /\ Rows(after.passports) = Rows(change.listing)
  BY <1>1, RowsHeld DEF Good
<1>3. change.diff.gone = Rows(list) \ Rows(change.listing)
  <2>1. change.diff = Difference(list, change.listing, change.diff.sample)
    BY DEF Follows, CoreChange
  <2>2. Difference(list, change.listing, change.diff.sample).gone = Rows(list) \ Rows(change.listing)
    BY DEF Difference
  <2> QED BY <2>1, <2>2
<1> SUFFICES ASSUME NEW row \in Rows(pic.passports), row \notin Rows(after.passports)
             PROVE  row \in Remembered(pic, change.diff)
  OBVIOUS
<1>4. row \in change.diff.gone
  BY <1>2, <1>3
<1>5. PICK p \in Pids : pic.passports[p] # None /\ row = <<p, pic.passports[p].seq>>
  BY DEF Rows
<1>6. p \in Removed(pic, change.diff)
  BY <1>4, <1>5 DEF Removed
<1> QED BY <1>5, <1>6 DEF Remembered

-----------------------------------------------------------------------------
\* A picture shows services of its names, on its pids.
LEMMA ScanType ==
  ASSUME NEW pic \in Picture, NEW scan \in Scan
  PROVE  Follow(pic, scan) \in Scan /\ Hosts(scan) \in SUBSET Pids
<1>1. ASSUME NEW n \in Names
      PROVE  (IF pic.followed[n] # None THEN pic.followed[n] ELSE scan[n]) \in Pids \cup {0}
  BY DEF Picture, Scan
<1>2. Follow(pic, scan) \in Scan
  BY <1>1 DEF Follow, Scan
<1>3. Hosts(scan) \subseteq Pids
  BY DEF Hosts, Scan
<1> QED BY <1>2, <1>3

\* Marking a process a service changes nothing else of it.
MarkedBy(info, is_service) == [info EXCEPT !.is_service = is_service]
LEMMA FlaggedFlags ==
  ASSUME NEW passports \in Listed, NEW hosts \in SUBSET Pids
  PROVE  /\ Flagged(passports, hosts) \in Listed
         /\ \A p \in Pids :
              /\ Flagged(passports, hosts)[p] = None <=> passports[p] = None
              /\ passports[p] # None =>
                   /\ Flagged(passports, hosts)[p].seq = passports[p].seq
                   /\ Flagged(passports, hosts)[p].verdict = passports[p].verdict
                   /\ Flagged(passports, hosts)[p].is_service <=> p \in hosts
<1> DEFINE flagged == Flagged(passports, hosts)
<1>1. flagged = [p \in Pids |-> IF passports[p] = None THEN None
                                ELSE MarkedBy(passports[p], p \in hosts)]
  BY DEF Flagged, MarkedBy
<1>2. ASSUME NEW info \in InfoRec, NEW flag \in BOOLEAN
      PROVE  /\ MarkedBy(info, flag) \in InfoRec
             /\ MarkedBy(info, flag).seq = info.seq
             /\ MarkedBy(info, flag).verdict = info.verdict
             /\ MarkedBy(info, flag).is_service = flag
  BY <1>2 DEF MarkedBy, InfoRec
<1> HIDE DEF flagged
<1>3. ASSUME NEW p \in Pids
      PROVE  /\ flagged[p] \in InfoRec \cup {None}
             /\ flagged[p] = None <=> passports[p] = None
             /\ passports[p] # None =>
                  /\ flagged[p].seq = passports[p].seq
                  /\ flagged[p].verdict = passports[p].verdict
                  /\ flagged[p].is_service <=> p \in hosts
  <2>1. passports[p] # None => passports[p] \in InfoRec
    BY DEF Listed
  <2>2. (p \in hosts) \in BOOLEAN
    OBVIOUS
  <2>3. None \notin InfoRec
    BY NoneAssumption
  <2>4. CASE passports[p] = None
    <3>1. flagged[p] = None
      BY <1>1, <2>4
    <3> QED BY <2>4, <3>1
  <2>5. CASE passports[p] # None
    <3>1. flagged[p] = MarkedBy(passports[p], p \in hosts)
      BY <1>1, <2>5
    <3>2. /\ MarkedBy(passports[p], p \in hosts) \in InfoRec
          /\ MarkedBy(passports[p], p \in hosts).seq = passports[p].seq
          /\ MarkedBy(passports[p], p \in hosts).verdict = passports[p].verdict
          /\ MarkedBy(passports[p], p \in hosts).is_service = (p \in hosts)
      BY <1>2, <2>1, <2>2, <2>5
    <3> QED BY <2>3, <2>5, <3>1, <3>2
  <2> QED BY <2>4, <2>5
<1>4. flagged \in Listed
  BY <1>1, <1>3 DEF Listed
<1> QED BY <1>3, <1>4 DEF flagged

\* A picture that changes no more than the marks holds what it held.
LEMMA HoldsStill ==
  ASSUME NEW pic, NEW list, Holds(pic, list),
         NEW after, after.process_states = pic.process_states,
         \A p \in Pids : /\ after.passports[p] = None <=> pic.passports[p] = None
                         /\ pic.passports[p] # None =>
                              /\ after.passports[p].seq = pic.passports[p].seq
                              /\ after.passports[p].verdict = pic.passports[p].verdict
  PROVE  Holds(after, list)
<1> SUFFICES ASSUME NEW p \in Pids
             PROVE  IF list[p] = None
                    THEN after.passports[p] = None /\ after.process_states[p] = None
                    ELSE /\ after.passports[p] # None /\ after.process_states[p] # None
                         /\ after.passports[p].seq = list[p].seq
                         /\ after.passports[p].verdict = list[p].verdict
                         /\ after.process_states[p] = [seq |-> list[p].seq, state |-> list[p].state]
  BY DEF Holds
<1>1. IF list[p] = None
      THEN pic.passports[p] = None /\ pic.process_states[p] = None
      ELSE /\ pic.passports[p] # None /\ pic.process_states[p] # None
           /\ pic.passports[p].seq = list[p].seq
           /\ pic.passports[p].verdict = list[p].verdict
           /\ pic.process_states[p] = [seq |-> list[p].seq, state |-> list[p].state]
  BY DEF Holds
<1> QED BY <1>1

\* What a scan does to each part (Picture::services).
LEMMA ServicesServe ==
  ASSUME NEW pic \in Picture, NEW scan \in Scan,
         NEW after, after = Services(pic, scan),
         NEW hosts, hosts = Hosts(Follow(pic, scan))
  PROVE  /\ after \in Picture
         /\ after.services.value = Follow(pic, scan)
         /\ after.taken = pic.taken /\ after.health = pic.health
         /\ after.process_states = pic.process_states
         /\ after.service_pids = hosts
         /\ IF hosts = pic.service_pids
            THEN /\ after.passports = pic.passports /\ after.processes = pic.processes
                 /\ after.states = pic.states /\ after.sample = pic.sample
            ELSE /\ after.passports = Flagged(pic.passports, hosts)
                 /\ after.processes.value = after.passports
                 /\ Stamped(after)
         /\ Grown(pic, after)
<1> DEFINE follow == Follow(pic, scan)
           services == Put(pic.services, follow)
           flagged == Flagged(pic.passports, hosts)
<1>0. follow \in Scan /\ hosts \in SUBSET Pids
  BY ScanType
<1>1. pic.services \in Versions(Scan \cup {None}) /\ pic.passports \in Listed
  BY DEF Picture
<1>2. after = IF hosts = pic.service_pids THEN [pic EXCEPT !.services = services]
              ELSE ListProcesses([pic EXCEPT !.services = services, !.service_pids = hosts,
                                             !.passports = flagged])
  <2>1. services.value = follow
    BY <1>0, <1>1, Versioned
  <2> HIDE DEF services, follow
  <2>2. Hosts(services.value) = hosts
    BY <2>1 DEF follow
  <2> QED BY <2>2 DEF Services, services, follow
<1> HIDE DEF follow, services, flagged
<1>3. /\ services \in Versions(Scan \cup {None}) /\ services.value = follow
      /\ Later(pic.services, services)
  BY <1>0, <1>1, Versioned DEF services
<1>4. flagged \in Listed
  BY <1>0, <1>1, FlaggedFlags DEF flagged
<1>5. Later(pic.processes, pic.processes) /\ Later(pic.states, pic.states)
  BY DEF Later, Picture, Versions, Etag
<1>6. CASE hosts = pic.service_pids
  <2>1. after = [pic EXCEPT !.services = services]
    BY <1>2, <1>6
  <2>2. /\ after \in Picture /\ after.services = services
        /\ after.taken = pic.taken /\ after.health = pic.health
        /\ after.process_states = pic.process_states
        /\ after.service_pids = pic.service_pids
        /\ after.passports = pic.passports /\ after.processes = pic.processes
        /\ after.states = pic.states /\ after.sample = pic.sample
    BY <1>3, <2>1 DEF Picture
  <2> QED BY <1>3, <1>5, <1>6, <2>2 DEF Grown, follow
<1>7. CASE hosts # pic.service_pids
  <2> DEFINE served == [pic EXCEPT !.services = services, !.service_pids = hosts,
                                   !.passports = flagged]
  <2>1. after = ListProcesses(served)
    BY <1>2, <1>7
  <2>2. /\ served \in Picture /\ served.services = services
        /\ served.service_pids = hosts /\ served.passports = flagged
        /\ served.taken = pic.taken /\ served.health = pic.health
        /\ served.process_states = pic.process_states
        /\ served.processes = pic.processes /\ served.states = pic.states
    BY <1>0, <1>3, <1>4 DEF Picture
  <2> HIDE DEF served
  <2>3. /\ after \in Picture /\ Stamped(after)
        /\ after.processes.value = served.passports
        /\ Later(served.processes, after.processes) /\ Later(served.states, after.states)
        /\ after.passports = served.passports /\ after.process_states = served.process_states
        /\ after.taken = served.taken /\ after.health = served.health
        /\ after.service_pids = served.service_pids /\ after.services = served.services
    BY <2>1, <2>2, ListProcessesLists
  <2> QED BY <1>3, <1>7, <2>2, <2>3 DEF Grown, follow, flagged
<1> QED BY <1>6, <1>7

\* The picture stays good when services go in; what it lists is as it was.
LEMMA ServicesKeep ==
  ASSUME NEW pic, NEW list \in Listing, NEW scan \in Scan, Good(pic, list),
         NEW after, after = Services(pic, scan)
  PROVE  /\ Good(after, list)
         /\ Grown(pic, after)
         /\ after.taken = pic.taken
         /\ after.services = pic.services /\ after.service_pids = pic.service_pids =>
              Publish(after) = Publish(pic)
<1> DEFINE hosts == Hosts(Follow(pic, scan))
<1>0. pic \in Picture /\ Holds(pic, list) /\ Shows(pic) /\ Flags(pic)
  BY DEF Good
<1>1. /\ after \in Picture
      /\ after.services.value = Follow(pic, scan)
      /\ after.taken = pic.taken /\ after.health = pic.health
      /\ after.process_states = pic.process_states
      /\ after.service_pids = hosts
      /\ Grown(pic, after)
  BY <1>0, ServicesServe
<1>2. /\ hosts = pic.service_pids =>
           /\ after.passports = pic.passports /\ after.processes = pic.processes
           /\ after.states = pic.states /\ after.sample = pic.sample
      /\ hosts # pic.service_pids =>
           /\ after.passports = Flagged(pic.passports, hosts)
           /\ after.processes.value = after.passports
           /\ Stamped(after)
  BY <1>0, ServicesServe
<1>3. hosts \in SUBSET Pids /\ Follow(pic, scan) # None
  <2>1. Follow(pic, scan) \in Scan
    BY <1>0, ScanType
  <2> QED BY <2>1, <1>0, ScanType, NoneAssumption
<1>4. pic.passports \in Listed
  BY <1>0 DEF Picture
<1> HIDE DEF hosts
<1>5. \A p \in Pids :
        /\ after.passports[p] = None <=> pic.passports[p] = None
        /\ pic.passports[p] # None =>
             /\ after.passports[p].seq = pic.passports[p].seq
             /\ after.passports[p].verdict = pic.passports[p].verdict
             /\ after.passports[p].is_service <=> p \in hosts
  <2>1. CASE hosts = pic.service_pids
    BY <1>0, <1>2, <2>1 DEF Flags
  <2>2. CASE hosts # pic.service_pids
    BY <1>2, <1>3, <1>4, <2>2, FlaggedFlags
  <2> QED BY <2>1, <2>2
<1>6. Holds(after, list)
  BY <1>0, <1>1, <1>5, HoldsStill
<1>7. Rows(after.passports) = Rows(pic.passports)
  BY <1>5, SameRows
<1>8. Shows(after)
  <2>1. CASE hosts = pic.service_pids
    BY <1>0, <1>1, <1>2, <2>1 DEF Shows
  <2>2. CASE hosts # pic.service_pids
    <3>1. after.processes.value = after.passports /\ Stamped(after)
      BY <1>2, <2>2
    <3>2. /\ after.states.value.states = after.process_states
          /\ after.sample.number = after.taken.number /\ after.sample.rows = after.taken.rows
          /\ after.states.value.passport_etag = after.processes.etag
          /\ after.sample.passport_etag = after.processes.etag
      BY <3>1 DEF Stamped
    <3>3. /\ after.health # None => after.taken.number > 0
          /\ after.taken.rows \in {{}, Rows(after.passports)}
      BY <1>0, <1>1, <1>7 DEF Shows
    <3> QED BY <3>1, <3>2, <3>3 DEF Shows
  <2> QED BY <2>1, <2>2
<1>9. Flags(after)
  <2>1. \A p \in Pids : p \in after.service_pids <=>
                          after.services.value # None /\ p \in Hosts(after.services.value)
    BY <1>1, <1>3 DEF hosts
  <2>2. \A p \in Pids : after.passports[p] # None =>
                          (after.passports[p].is_service <=> p \in after.service_pids)
    BY <1>1, <1>5
  <2> QED BY <2>1, <2>2 DEF Flags
<1>10. ASSUME after.services = pic.services, after.service_pids = pic.service_pids
       PROVE  Publish(after) = Publish(pic)
  <2>1. /\ after.processes = pic.processes
        /\ after.states = pic.states /\ after.sample = pic.sample
    BY <1>1, <1>2, <1>10
  <2> QED BY <1>1, <1>10, <2>1 DEF Publish
<1> QED BY <1>1, <1>6, <1>8, <1>9, <1>10 DEF Good

\* So it does when a status goes in (Picture::service_status).
LEMMA StatusKeeps ==
  ASSUME NEW pic, NEW list \in Listing, NEW name \in Names, NEW status \in Pids \cup {0, None},
         Good(pic, list), NEW after, after = ServiceStatus(pic, name, status)
  PROVE  /\ Good(after, list)
         /\ Grown(pic, after)
         /\ after.taken = pic.taken
         /\ after.services = pic.services /\ after.service_pids = pic.service_pids =>
              Publish(after) = Publish(pic)
<1> DEFINE follows == [pic.followed EXCEPT ![name] = status]
           followed == [pic EXCEPT !.followed = follows]
<1>0. pic \in Picture /\ Holds(pic, list) /\ Shows(pic) /\ Flags(pic)
  BY DEF Good
<1>1. pic.followed \in [Names -> Pids \cup {0, None}]
  BY <1>0 DEF Picture
<1>2. follows \in [Names -> Pids \cup {0, None}]
  BY <1>1
<1>3. after = IF status = None \/ pic.services.value = None THEN followed
              ELSE Services(followed, pic.services.value)
  BY DEF ServiceStatus
<1> HIDE DEF follows
<1>4. /\ followed \in Picture
      /\ followed.passports = pic.passports /\ followed.process_states = pic.process_states
      /\ followed.taken = pic.taken /\ followed.health = pic.health
      /\ followed.service_pids = pic.service_pids /\ followed.processes = pic.processes
      /\ followed.states = pic.states /\ followed.sample = pic.sample
      /\ followed.services = pic.services
  BY <1>0, <1>2 DEF Picture
<1> HIDE DEF followed
<1>5. Good(followed, list)
  <2>1. Holds(followed, list)
    BY <1>0, <1>4, HoldsStill
  <2>2. Shows(followed)
    BY <1>0, <1>4 DEF Shows
  <2>3. Flags(followed)
    BY <1>0, <1>4 DEF Flags
  <2> QED BY <1>4, <2>1, <2>2, <2>3 DEF Good
<1>6. Publish(followed) = Publish(pic)
  BY <1>4 DEF Publish
<1>7. Grown(pic, pic)
  BY <1>0 DEF Grown, Later, Picture, Versions, Etag
<1>8. CASE status = None \/ pic.services.value = None
  <2>1. after = followed
    BY <1>3, <1>8
  <2>2. Grown(pic, followed)
    BY <1>4, <1>7 DEF Grown
  <2> QED BY <1>4, <1>5, <1>6, <2>1, <2>2
<1>9. CASE ~(status = None \/ pic.services.value = None)
  <2>1. after = Services(followed, pic.services.value)
    BY <1>3, <1>9
  <2>2. pic.services.value \in Scan
    BY <1>0, <1>9 DEF Picture, Versions
  <2>3. /\ Good(after, list) /\ Grown(followed, after) /\ after.taken = followed.taken
        /\ after.services = followed.services /\ after.service_pids = followed.service_pids =>
             Publish(after) = Publish(followed)
    BY <1>5, <2>1, <2>2, ServicesKeep
  <2> QED BY <1>4, <1>6, <2>3 DEF Grown
<1> QED BY <1>8, <1>9

-----------------------------------------------------------------------------
\* What a change does to the picture that holds what the core had before it
\* (Picture::apply).
LEMMA ApplyKeeps ==
  ASSUME NEW pic, NEW list \in Listing, NEW change \in Change, Good(pic, list),
         Follows(list, pic.taken.number, change),
         NEW after, after = Apply(pic, change)
  PROVE  /\ Good(after, change.listing)
         /\ Grown(pic, after)
         /\ after.taken.number = change.samples
         /\ change.samples \in {pic.taken.number, pic.taken.number + 1}
         /\ ~Tells(pic, change) => Publish(after) = Publish(pic)
         /\ ~Tells(pic, change) => after.taken = pic.taken
<1>0. pic \in Picture
  BY DEF Good
<1>1. CASE change \in CoreChange
  <2>1. change.kind = "core" /\ change.diff \in Diff /\ change.health \in BOOLEAN
    BY <1>1 DEF CoreChange
  <2>2. after = Update(pic, change.diff, change.health)
    BY <2>1 DEF Apply
  <2>3. /\ Good(after, change.listing) /\ Grown(pic, after)
        /\ after.taken.number = change.samples
    BY <1>1, <2>2, UpdateKeeps
  <2>4. change.samples \in {pic.taken.number, pic.taken.number + 1}
    BY <2>1 DEF Follows
  <2>5. ASSUME ~Tells(pic, change)
        PROVE  Publish(after) = Publish(pic) /\ after.taken = pic.taken
    <3>1. /\ ~Relisted(pic, change.diff) /\ ~Restated(change.diff)
          /\ pic.health = change.health
      BY <2>1, <2>5 DEF Tells
    <3>2. Publish(after) = Publish(pic)
      BY <1>0, <2>1, <2>2, <3>1, UntoldUpdate
    <3>3. change.diff.sample = None
      BY <3>1 DEF Restated
    <3>4. after.taken = IF change.diff.sample = None THEN pic.taken ELSE change.diff.sample
      BY <1>0, <2>1, <2>2, UpdateUpdates
    <3> QED BY <3>2, <3>3, <3>4
  <2> QED BY <2>3, <2>4, <2>5
<1>2. ASSUME change \notin CoreChange,
             /\ Good(after, list) /\ Grown(pic, after) /\ after.taken = pic.taken
             /\ after.services = pic.services /\ after.service_pids = pic.service_pids =>
                  Publish(after) = Publish(pic)
      PROVE  /\ Good(after, change.listing)
             /\ Grown(pic, after)
             /\ after.taken.number = change.samples
             /\ change.samples \in {pic.taken.number, pic.taken.number + 1}
             /\ ~Tells(pic, change) => Publish(after) = Publish(pic)
             /\ ~Tells(pic, change) => after.taken = pic.taken
  <2>1. change.kind # "core"
    BY <1>2 DEF Change, ScanChange, StatusChange
  <2>2. change.listing = list /\ change.samples = pic.taken.number
    BY <2>1 DEF Follows
  <2>3. ~Tells(pic, change) => after.services = pic.services /\ after.service_pids = pic.service_pids
    BY <2>1 DEF Tells
  <2> QED BY <1>2, <2>2, <2>3
<1>3. CASE change \in ScanChange
  <2>1. change.kind = "scan" /\ change.services \in Scan /\ change \notin CoreChange
    BY <1>3 DEF ScanChange, CoreChange
  <2>2. after = Services(pic, change.services)
    BY <2>1 DEF Apply
  <2> QED BY <1>2, <2>1, <2>2, ServicesKeep
<1>4. CASE change \in StatusChange
  <2>1. /\ change.kind = "status" /\ change.name \in Names
        /\ change.status \in Pids \cup {0, None} /\ change \notin CoreChange
    BY <1>4 DEF StatusChange, CoreChange
  <2>2. after = ServiceStatus(pic, change.name, change.status)
    BY <2>1 DEF Apply
  <2> QED BY <1>2, <2>1, <2>2, StatusKeeps
<1> QED BY <1>1, <1>3, <1>4 DEF Change

\* A process the picture lists is listed after a change, or kept as gone.
LEMMA ApplyRemembers ==
  ASSUME NEW pic, NEW list \in Listing, NEW change \in Change, Good(pic, list),
         Follows(list, pic.taken.number, change),
         NEW after, after = Apply(pic, change)
  PROVE  Rows(pic.passports) \subseteq Rows(after.passports) \cup
           (IF change.kind = "core" THEN Remembered(pic, change.diff) ELSE {})
<1>1. CASE change \in CoreChange
  <2>1. change.kind = "core"
    BY <1>1 DEF CoreChange
  <2>2. after = Update(pic, change.diff, change.health)
    BY <2>1 DEF Apply
  <2> QED BY <1>1, <2>1, <2>2, UpdateRemembers
<1>2. CASE change \notin CoreChange
  <2>1. change.kind # "core"
    BY <1>2 DEF Change, ScanChange, StatusChange
  <2>2. change.listing = list
    BY <2>1 DEF Follows
  <2>3. Good(after, list)
    BY <2>2, ApplyKeeps
  <2>4. Rows(after.passports) = Rows(list) /\ Rows(pic.passports) = Rows(list)
    BY <2>3, RowsHeld DEF Good
  <2> QED BY <2>1, <2>4
<1> QED BY <1>1, <1>2

\* What a good picture publishes is coherent (Picture::publish).
LEMMA PublishCoherent ==
  ASSUME NEW pic, NEW list, Good(pic, list)
  PROVE  Coherent(Publish(pic))
<1> DEFINE shown == Publish(pic)
<1>0. pic \in Picture /\ Holds(pic, list) /\ Shows(pic) /\ Flags(pic)
  BY DEF Good
<1>1. /\ shown.services = pic.services /\ shown.processes = pic.processes
      /\ shown.states = pic.states /\ shown.sample = pic.sample
      /\ shown.reported = (pic.health # None)
  BY DEF Publish
<1> HIDE DEF shown
<1>2. IsShown(shown)
  BY <1>0, <1>1 DEF IsShown, IsStates, IsSample, Picture, Versions, Stamps
<1>3. ASSUME shown.reported
      PROVE  /\ shown.states.value.passport_etag = shown.processes.etag
             /\ shown.sample.passport_etag = shown.processes.etag
             /\ shown.sample.rows \in {{}, Rows(shown.processes.value)}
  BY <1>0, <1>1, <1>3 DEF Shows
<1>4. SamePids(shown.processes.value, shown.states.value.states)
  <2>1. shown.processes.value = pic.passports /\ shown.states.value.states = pic.process_states
    BY <1>0, <1>1 DEF Shows
  <2>2. ASSUME NEW p \in Pids
        PROVE  IF pic.passports[p] = None THEN pic.process_states[p] = None
               ELSE pic.process_states[p] # None /\ pic.process_states[p].seq = pic.passports[p].seq
    <3>1. CASE list[p] = None
      BY <1>0, <3>1 DEF Holds
    <3>2. CASE list[p] # None
      <4>1. /\ pic.passports[p] # None /\ pic.process_states[p] # None
            /\ pic.passports[p].seq = list[p].seq
            /\ pic.process_states[p] = [seq |-> list[p].seq, state |-> list[p].state]
        BY <1>0, <3>2 DEF Holds
      <4>2. pic.process_states[p].seq = list[p].seq
        BY <4>1
      <4> QED BY <4>1, <4>2
    <3> QED BY <3>1, <3>2
  <2> QED BY <2>1, <2>2 DEF SamePids
<1>5. \A p \in Pids :
        shown.processes.value[p] # None =>
          (shown.processes.value[p].is_service <=>
             shown.services.value # None /\ p \in Hosts(shown.services.value))
  <2>1. shown.processes.value = pic.passports /\ shown.services.value = pic.services.value
    BY <1>0, <1>1 DEF Shows
  <2> QED BY <1>0, <2>1 DEF Flags
<1>6. Coherent(shown)
  BY <1>2, <1>3, <1>4, <1>5 DEF Coherent
<1> QED BY <1>6 DEF shown

\* The rows of a list are typed.
LEMMA RowsType ==
  ASSUME NEW list, list \in Listing \/ list \in Listed
  PROVE  Rows(list) \subseteq Pids \X Nat
<1>1. ASSUME NEW p \in Pids, list[p] # None PROVE list[p].seq \in Nat
  BY <1>1 DEF Listing, Listed, Proc, InfoRec
<1> QED BY <1>1 DEF Rows

-----------------------------------------------------------------------------
\* A change is sent behind the others.
LEMMA Sends ==
  ASSUME IInv, NEW change \in Change,
         inbox' = Append(inbox, change),
         Follows(listing, samples, change),
         listing' = change.listing, samples' = change.samples,
         ticks' > 0 => change.samples > 0,
         ticks' \in Nat, error' \in BOOLEAN, UNCHANGED painter
  PROVE  IInv'
<1>0. Typed /\ Channel
  BY DEF IInv
<1>1. inbox \in Seq(Change)
  BY <1>0 DEF Typed
<1>2. /\ inbox' \in Seq(Change) /\ Len(inbox') = Len(inbox) + 1 /\ Len(inbox) \in Nat
      /\ \A n \in 1..Len(inbox) : inbox'[n] = inbox[n]
      /\ inbox'[Len(inbox) + 1] = change
  BY <1>1
<1>3. Typed'
  <2>1. change.listing \in Listing /\ change.samples \in Nat
    BY DEF Change, CoreChange, ScanChange, StatusChange
  <2> QED BY <1>0, <1>2, <2>1 DEF Typed, painter
<1>4. \A n \in 0..Len(inbox) : At(n)' = At(n) /\ Count(n)' = Count(n)
  BY <1>2 DEF At, Count, painter
<1>5. At(Len(inbox)) = listing /\ Count(Len(inbox)) = samples
  BY <1>0 DEF Channel
<1>6. Channel'
  <2>1. ASSUME NEW n \in 1..Len(inbox')
        PROVE  Follows(At(n - 1)', Count(n - 1)', inbox'[n])
    <3>1. CASE n \in 1..Len(inbox)
      <4>1. n - 1 \in 0..Len(inbox)
        BY <1>2, <3>1
      <4> QED BY <1>0, <1>2, <1>4, <3>1, <4>1 DEF Channel
    <3>2. CASE n = Len(inbox) + 1
      <4>1. n - 1 = Len(inbox) /\ Len(inbox) \in 0..Len(inbox)
        BY <1>2, <3>2
      <4>2. At(n - 1)' = listing /\ Count(n - 1)' = samples
        BY <1>4, <1>5, <4>1
      <4> QED BY <1>2, <3>2, <4>2
    <3> QED BY <1>2, <2>1, <3>1, <3>2
  <2>2. (At(Len(inbox)) = listing /\ Count(Len(inbox)) = samples)'
    BY <1>2 DEF At, Count
  <2>3. ticks' > 0 => samples' > 0
    OBVIOUS
  <2> QED BY <2>1, <2>2, <2>3 DEF Channel
<1>7. (Good(picture, applied) /\ Coherent(latest) /\ Behind /\ Recalled)'
  BY DEF IInv, Behind, Recalled, painter, Good, Coherent, Holds, Shows, Flags
<1> QED BY <1>3, <1>6, <1>7 DEF IInv

\* A process of the core's list moves within its type, and only a sample of
\* the processes makes one come or go.
LEMMA MovedType ==
  ASSUME listing \in Listing, samples \in Nat,
         NEW kind, NEW p \in Pids, NEW move \in Moves, Possible(p, move, kind)
  PROVE  /\ Moved(p, move) \in Proc \cup {None}
         /\ kind # "full" => /\ Moved(p, move) = None <=> listing[p] = None
                             /\ listing[p] # None => Moved(p, move).seq = listing[p].seq
<1>0. listing[p] \in Proc \cup {None} /\ None \notin Proc
  BY NoneAssumption DEF Listing
<1>1. CASE move = "left"
  BY <1>1 DEF Moved, Possible
<1>2. CASE move = "joined"
  BY <1>2 DEF Moved, Possible, Proc, Flips
<1>3. CASE move = "judged"
  <2>1. listing[p] \in Proc /\ Moved(p, move) = [listing[p] EXCEPT !.verdict = 1 - @]
    BY <1>0, <1>3 DEF Moved, Possible
  <2>2. Moved(p, move) \in Proc /\ Moved(p, move).seq = listing[p].seq
    BY <2>1 DEF Proc, Flips
  <2> QED BY <1>0, <2>1, <2>2
<1>4. CASE move = "moved"
  <2>1. listing[p] \in Proc /\ Moved(p, move) = [listing[p] EXCEPT !.state = 1 - @]
    BY <1>0, <1>4 DEF Moved, Possible
  <2>2. Moved(p, move) \in Proc /\ Moved(p, move).seq = listing[p].seq
    BY <2>1 DEF Proc, Flips
  <2> QED BY <1>0, <2>1, <2>2
<1>5. CASE move = "same"
  <2>1. Moved(p, move) = listing[p]
    BY <1>5 DEF Moved
  <2> QED BY <1>0, <2>1
<1> QED BY <1>1, <1>2, <1>3, <1>4, <1>5 DEF Moves

\* The difference of two listings is typed.
LEMMA DifferenceType ==
  ASSUME NEW before \in Listing, NEW after \in Listing, NEW sample \in Sample \cup {None}
  PROVE  Difference(before, after, sample) \in Diff
<1> DEFINE diff == Difference(before, after, sample)
           passports == [p \in Pids |->
             IF after[p] = None THEN None
             ELSE LET now == [seq |-> after[p].seq, verdict |-> after[p].verdict] IN
                  IF before[p] # None /\ now = [seq |-> before[p].seq, verdict |-> before[p].verdict]
                  THEN None ELSE now]
           states == [p \in Pids |->
             IF after[p] = None THEN None
             ELSE LET now == [seq |-> after[p].seq, state |-> after[p].state] IN
                  IF before[p] # None /\ now = [seq |-> before[p].seq, state |-> before[p].state]
                  THEN None ELSE now]
<1>1. diff = [gone |-> Rows(before) \ Rows(after), passports |-> passports,
              states |-> states, sample |-> sample]
  BY DEF Difference
<1>2. Rows(before) \ Rows(after) \in SUBSET (Pids \X Nat)
  BY RowsType
<1>3. \A p \in Pids : after[p] # None =>
        /\ [seq |-> after[p].seq, verdict |-> after[p].verdict] \in PassportRec
        /\ [seq |-> after[p].seq, state |-> after[p].state] \in StateRec
  BY DEF Listing, Proc, PassportRec, StateRec
<1>4. passports \in [Pids -> PassportRec \cup {None}]
  BY <1>3
<1>5. states \in Stated
  BY <1>3 DEF Stated
<1> HIDE DEF passports, states, diff
<1>6. diff \in Diff
  BY <1>1, <1>2, <1>4, <1>5 DEF Diff
<1> QED BY <1>6 DEF diff

\* The core hands on a change that follows what it handed on before.
LEMMA TickKeeps ==
  ASSUME IInv, NEW kind \in Kinds, NEW moves \in [Pids -> Moves], CoreTicks(kind, moves)
  PROVE  IInv'
<1> DEFINE sample == IF kind \in {"none", "failed"} THEN None
                     ELSE [number |-> samples',
                           rows |-> IF kind = "full" THEN Rows(listing') ELSE {}]
           diff == Difference(listing, listing', sample)
           change == [kind |-> "core", health |-> error', diff |-> diff,
                      listing |-> listing', samples |-> samples']
<1>0. Typed /\ Channel
  BY DEF IInv
<1>1. /\ listing \in Listing /\ samples \in Nat /\ ticks \in Nat /\ error \in BOOLEAN
  BY <1>0 DEF Typed
<1>2. /\ ticks = 0 => kind = "full"
      /\ \A p \in Pids : Possible(p, moves[p], kind)
      /\ ticks' = ticks + 1
      /\ listing' = [p \in Pids |-> Moved(p, moves[p])]
      /\ samples' = IF kind \in {"full", "machine"} THEN samples + 1 ELSE samples
      /\ error' = ErrorAfter(kind)
      /\ inbox' = Append(inbox, change)
      /\ UNCHANGED painter
  BY DEF CoreTicks
<1>3. \A p \in Pids :
        /\ Moved(p, moves[p]) \in Proc \cup {None}
        /\ kind # "full" => /\ Moved(p, moves[p]) = None <=> listing[p] = None
                            /\ listing[p] # None => Moved(p, moves[p]).seq = listing[p].seq
  BY <1>1, <1>2, MovedType
<1>4. listing' \in Listing /\ \A p \in Pids : listing'[p] = Moved(p, moves[p])
  BY <1>2, <1>3 DEF Listing
<1>5. kind # "full" => Rows(listing') = Rows(listing)
  <2>1. SUFFICES ASSUME kind # "full" PROVE Rows(listing') = Rows(listing)
    OBVIOUS
  <2> DEFINE new == listing'
  <2>2. \A p \in Pids : /\ new[p] = None <=> listing[p] = None
                        /\ new[p] # None => new[p].seq = listing[p].seq
    BY <1>3, <1>4, <2>1
  <2> HIDE DEF new
  <2>3. Rows(new) = Rows(listing)
    BY <2>2, SameRows
  <2> QED BY <2>3 DEF new
<1>6. samples' \in Nat /\ error' \in BOOLEAN
  BY <1>1, <1>2 DEF ErrorAfter
<1>7. Rows(listing') \subseteq Pids \X Nat
  BY <1>4, RowsType
<1>8. sample \in Sample \cup {None} /\ (sample = None <=> kind \in {"none", "failed"})
  <2>1. None \notin Sample
    BY NoneAssumption
  <2>2. kind \notin {"none", "failed"} => sample \in Sample
    BY <1>6, <1>7 DEF Sample
  <2> QED BY <2>1, <2>2
<1> HIDE DEF sample
<1>9. diff \in Diff /\ diff.sample = sample
  <2>1. diff \in Diff
    BY <1>1, <1>4, <1>8, DifferenceType
  <2> QED BY <2>1 DEF Difference
<1>10. change \in Change
  BY <1>4, <1>6, <1>9 DEF Change, CoreChange
<1>11. /\ change.kind = "core" /\ change.diff = diff
       /\ change.listing = listing' /\ change.samples = samples'
  OBVIOUS
<1>12. ticks > 0 => samples > 0
  BY <1>0 DEF Channel
<1>13. samples' > 0
  BY <1>1, <1>2, <1>12 DEF Kinds
<1> HIDE DEF change
<1>14. Follows(listing, samples, change)
  <2>1. diff = Difference(listing, change.listing, diff.sample)
    BY <1>9, <1>11
  <2>2. CASE kind \in {"none", "failed"}
    <3>1. sample = None /\ samples' = samples /\ Rows(listing') = Rows(listing)
      BY <1>2, <1>5, <1>8, <2>2
    <3>2. samples > 0
      BY <1>13, <3>1
    <3> QED BY <1>9, <1>11, <2>1, <3>1, <3>2 DEF Follows
  <2>3. CASE kind \in {"full", "machine"}
    <3>1. sample # None /\ samples' = samples + 1
      BY <1>2, <1>8, <2>3
    <3>2. sample.number = samples' /\ sample.rows \in {{}, Rows(listing')}
      BY <2>3 DEF sample
    <3> QED BY <1>9, <1>11, <2>1, <3>1, <3>2 DEF Follows
  <2> QED BY <2>2, <2>3 DEF Kinds
<1>15. ticks' \in Nat
  BY <1>1, <1>2
<1> HIDE DEF diff
<1> QED BY <1>2, <1>6, <1>10, <1>11, <1>13, <1>14, <1>15, Sends

\* Scans and statuses say nothing of the processes.
LEMMA ServicesSend ==
  ASSUME IInv, NEW change \in ScanChange \cup StatusChange,
         change.listing = listing, change.samples = samples,
         inbox' = Append(inbox, change), UNCHANGED <<core, painter>>
  PROVE  IInv'
<1>1. Typed /\ Channel
  BY DEF IInv
<1>2. change \in Change /\ change.kind # "core"
  BY DEF Change, ScanChange, StatusChange
<1>3. Follows(listing, samples, change)
  BY <1>2 DEF Follows
<1>4. /\ listing' = change.listing /\ samples' = change.samples
      /\ ticks' = ticks /\ error' = error /\ UNCHANGED painter
  BY DEF core
<1>5. ticks' > 0 => change.samples > 0
  BY <1>1, <1>4 DEF Channel
<1>6. ticks' \in Nat /\ error' \in BOOLEAN
  BY <1>1, <1>4 DEF Typed
<1> QED BY <1>2, <1>3, <1>4, <1>5, <1>6, Sends

\* A list that grew twice grew.
LEMMA LaterThanLater ==
  ASSUME NEW a, NEW b, NEW c, a.etag \in Etag, b.etag \in Etag, c.etag \in Etag,
         Later(a, b), Later(b, c)
  PROVE  Later(a, c)
BY DEF Later, Etag

\* What is published stays behind a picture that grows.
LEMMA StaysBehind ==
  ASSUME IInv, NEW after \in Picture, Grown(picture, after)
  PROVE  /\ Later(latest.processes, after.processes)
         /\ Later(latest.states, after.states)
         /\ Later(latest.services, after.services)
<1>1. /\ latest.processes.etag \in Etag /\ latest.states.etag \in Etag
      /\ latest.services.etag \in Etag
  BY DEF IInv, Coherent, IsShown, IsStates
<1>2. picture \in Picture
  BY DEF IInv, Good
<1>3. \A pic \in Picture :
        pic.processes.etag \in Etag /\ pic.states.etag \in Etag /\ pic.services.etag \in Etag
  BY DEF Picture, Versions
<1>4. /\ Later(latest.processes, picture.processes)
      /\ Later(latest.states, picture.states)
      /\ Later(latest.services, picture.services)
  BY DEF IInv, Behind
<1>5. Later(latest.processes, after.processes)
  BY <1>1, <1>2, <1>3, <1>4, LaterThanLater DEF Grown
<1>6. Later(latest.states, after.states)
  BY <1>1, <1>2, <1>3, <1>4, LaterThanLater DEF Grown
<1>7. Later(latest.services, after.services)
  BY <1>1, <1>2, <1>3, <1>4, LaterThanLater DEF Grown
<1> QED BY <1>5, <1>6, <1>7

\* The painter takes a change: what it does to the picture, and what it then
\* publishes or leaves for the end of the batch.
LEMMA PaintFacts ==
  ASSUME IInv, Paints, NEW change, change = Head(inbox)
  PROVE  /\ change \in Change
         /\ Follows(applied, picture.taken.number, change)
         /\ applied' = change.listing
         /\ Good(picture', applied') /\ Grown(picture, picture')
         /\ picture'.taken.number = change.samples
         /\ change.samples \in {picture.taken.number, picture.taken.number + 1}
         /\ Rows(picture.passports) \subseteq Rows(picture'.passports) \cup gone'
         /\ gone \subseteq gone' /\ gone' \subseteq Pids \X Nat
         /\ \/ /\ latest' = Publish(picture') /\ ~news' /\ news' \in BOOLEAN
               /\ known' = known \cup Rows(picture'.processes.value)
            \/ /\ UNCHANGED <<latest, known>> /\ news' \in BOOLEAN
               /\ picture'.taken = picture.taken
               /\ ~news' => ~news /\ Publish(picture') = Publish(picture)
<1>0. Typed /\ Channel /\ Good(picture, applied)
  BY DEF IInv
<1>1. inbox \in Seq(Change) /\ inbox # <<>> /\ applied \in Listing
  BY <1>0 DEF Typed, Paints
<1>2. change \in Change /\ change = inbox[1] /\ 1 \in 1..Len(inbox)
  BY <1>1
<1>3. Follows(applied, picture.taken.number, change)
  <2>1. Follows(At(1 - 1), Count(1 - 1), inbox[1])
    BY <1>0, <1>2 DEF Channel
  <2>2. At(1 - 1) = applied /\ Count(1 - 1) = picture.taken.number
    BY DEF At, Count
  <2> QED BY <1>2, <2>1, <2>2
<1> DEFINE after == Apply(picture, change)
           told == news \/ Tells(picture, change)
<1>4. /\ picture' = after /\ applied' = change.listing
      /\ IF told /\ Sampled(picture, after) THEN Publishes(after) /\ news' = FALSE
         ELSE UNCHANGED <<latest, known>> /\ news' = told
      /\ gone' = IF change.kind = "core" THEN gone \cup Remembered(picture, change.diff) ELSE gone
  BY DEF Paints
<1>5. /\ Good(after, change.listing) /\ Grown(picture, after)
      /\ after.taken.number = change.samples
      /\ change.samples \in {picture.taken.number, picture.taken.number + 1}
      /\ ~Tells(picture, change) => Publish(after) = Publish(picture)
      /\ ~Tells(picture, change) => after.taken = picture.taken
  BY <1>0, <1>1, <1>2, <1>3, ApplyKeeps
<1>6. Rows(picture.passports) \subseteq Rows(after.passports) \cup
        (IF change.kind = "core" THEN Remembered(picture, change.diff) ELSE {})
  BY <1>0, <1>1, <1>2, <1>3, ApplyRemembers
<1>7. gone \subseteq gone' /\ gone' \subseteq Pids \X Nat
  <2>1. Remembered(picture, change.diff) \subseteq Pids \X Nat
    <3>1. Remembered(picture, change.diff) \subseteq Rows(picture.passports)
      BY DEF Remembered, Removed, Rows
    <3>2. picture.passports \in Listed
      BY <1>0 DEF Good, Picture
    <3> QED BY <3>1, <3>2, RowsType
  <2>2. gone \subseteq Pids \X Nat
    BY <1>0 DEF Typed
  <2> QED BY <1>4, <2>1, <2>2
<1> HIDE DEF after
<1>8. Rows(picture.passports) \subseteq Rows(after.passports) \cup gone'
  BY <1>4, <1>6
<1>9. news \in BOOLEAN
  BY <1>0 DEF Typed
<1>10. CASE told /\ Sampled(picture, after)
  <2>1. Publishes(after) /\ news' = FALSE
    BY <1>4, <1>10
  <2>2. latest' = Publish(after) /\ known' = known \cup Rows(after.processes.value)
    BY <2>1 DEF Publishes
  <2> QED BY <1>2, <1>3, <1>4, <1>5, <1>7, <1>8, <2>1, <2>2
<1>11. CASE ~(told /\ Sampled(picture, after))
  <2>1. UNCHANGED <<latest, known>> /\ news' = told
    BY <1>4, <1>11
  <2>2. after.taken = picture.taken
    BY <1>5, <1>11 DEF Sampled
  <2>3. told \in BOOLEAN
    OBVIOUS
  <2>4. ~told => ~news /\ Publish(after) = Publish(picture)
    BY <1>5
  <2> HIDE DEF told
  <2> QED BY <1>2, <1>3, <1>4, <1>5, <1>7, <1>8, <2>1, <2>2, <2>3, <2>4
<1> QED BY <1>10, <1>11

\* The change taken was the first in the channel: the rest follows on it.
LEMMA ChannelTaken ==
  ASSUME IInv, Paints
  PROVE  Channel'
<1> DEFINE change == Head(inbox)
<1>0. Typed /\ Channel
  BY DEF IInv
<1>1. /\ inbox \in Seq(Change) /\ inbox # <<>> /\ inbox' = Tail(inbox)
      /\ UNCHANGED core
  BY <1>0 DEF Typed, Paints
<1>2. /\ Len(inbox) \in Nat /\ Len(inbox') = Len(inbox) - 1
      /\ \A n \in 1..Len(inbox') : inbox'[n] = inbox[n + 1]
      /\ change = inbox[1] /\ Len(inbox) >= 1
  BY <1>1
<1>3. applied' = change.listing /\ picture'.taken.number = change.samples
  BY PaintFacts
<1> HIDE DEF change
<1>4. ASSUME NEW n \in 0..Len(inbox')
      PROVE  At(n)' = At(n + 1) /\ Count(n)' = Count(n + 1)
  <2>1. CASE n = 0
    BY <1>2, <1>3, <2>1 DEF At, Count
  <2>2. CASE n # 0
    <3>1. n \in 1..Len(inbox') /\ n + 1 # 0
      BY <1>2, <2>2
    <3>2. inbox'[n] = inbox[n + 1]
      BY <1>2, <3>1
    <3> QED BY <2>2, <3>1, <3>2 DEF At, Count
  <2> QED BY <2>1, <2>2
<1>5. ASSUME NEW n \in 1..Len(inbox')
      PROVE  Follows(At(n - 1)', Count(n - 1)', inbox'[n])
  <2>1. n + 1 \in 1..Len(inbox) /\ n - 1 \in 0..Len(inbox') /\ (n - 1) + 1 = (n + 1) - 1
    BY <1>2
  <2>2. Follows(At((n + 1) - 1), Count((n + 1) - 1), inbox[n + 1])
    BY <1>0, <2>1 DEF Channel
  <2>3. At(n - 1)' = At((n - 1) + 1) /\ Count(n - 1)' = Count((n - 1) + 1)
    BY <1>4, <2>1
  <2>4. inbox'[n] = inbox[n + 1]
    BY <1>2
  <2> QED BY <2>1, <2>2, <2>3, <2>4
<1>6. (At(Len(inbox)) = listing /\ Count(Len(inbox)) = samples)'
  <2>1. ASSUME NEW n, n = Len(inbox')
        PROVE  At(n)' = listing /\ Count(n)' = samples
    <3>1. n \in 0..Len(inbox') /\ n + 1 = Len(inbox)
      BY <1>2, <2>1
    <3>2. At(Len(inbox)) = listing /\ Count(Len(inbox)) = samples
      BY <1>0 DEF Channel
    <3> QED BY <1>4, <3>1, <3>2
  <2>2. listing' = listing /\ samples' = samples
    BY <1>1 DEF core
  <2> QED BY <2>1, <2>2 DEF At, Count
<1>7. (ticks > 0 => samples > 0)'
  BY <1>0, <1>1 DEF Channel, core
<1> QED BY <1>5, <1>6, <1>7 DEF Channel

\* A change taken keeps the invariant.
LEMMA PaintKeeps == IInv /\ Paints => IInv'
<1> SUFFICES ASSUME IInv, Paints PROVE IInv'
  OBVIOUS
<1> DEFINE change == Head(inbox)
<1>0. Typed /\ Coherent(latest) /\ Behind /\ Recalled
  BY DEF IInv
<1>1. /\ change \in Change /\ applied' = change.listing
      /\ Good(picture', applied') /\ Grown(picture, picture')
      /\ picture'.taken.number = change.samples
      /\ Rows(picture.passports) \subseteq Rows(picture'.passports) \cup gone'
      /\ gone \subseteq gone' /\ gone' \subseteq Pids \X Nat
  BY PaintFacts
<1>2. \/ /\ latest' = Publish(picture') /\ ~news' /\ news' \in BOOLEAN
         /\ known' = known \cup Rows(picture'.processes.value)
      \/ /\ UNCHANGED <<latest, known>> /\ news' \in BOOLEAN
         /\ picture'.taken = picture.taken
         /\ ~news' => ~news /\ Publish(picture') = Publish(picture)
  BY PaintFacts
<1>3. /\ inbox # <<>> /\ inbox' = Tail(inbox) /\ painting' = TRUE /\ UNCHANGED core
  BY DEF Paints
<1>4. picture' \in Picture
  BY <1>1 DEF Good
<1>5. Rows(picture'.processes.value) = Rows(picture'.passports)
  BY <1>1 DEF Good, Shows
<1>6. Rows(picture'.passports) \subseteq Pids \X Nat
  <2>1. picture'.passports \in Listed
    BY <1>4 DEF Picture
  <2> DEFINE list == picture'.passports
  <2> HIDE DEF list
  <2>2. list \in Listed => Rows(list) \subseteq Pids \X Nat
    BY RowsType
  <2> QED BY <2>1, <2>2 DEF list
<1>7. known' \subseteq Pids \X Nat /\ news' \in BOOLEAN /\ painting' \in BOOLEAN
  BY <1>0, <1>2, <1>3, <1>5, <1>6 DEF Typed
<1>8. applied' \in Listing
  BY <1>1 DEF Change, CoreChange, ScanChange, StatusChange
<1>9. inbox' \in Seq(Change)
  BY <1>0, <1>3 DEF Typed
<1>10. Typed'
  BY <1>0, <1>1, <1>3, <1>4, <1>7, <1>8, <1>9 DEF Typed, core
<1>11. /\ Later(latest.processes, picture'.processes)
       /\ Later(latest.states, picture'.states)
       /\ Later(latest.services, picture'.services)
  BY <1>1, <1>4, StaysBehind
<1>12. CASE /\ latest' = Publish(picture') /\ ~news' /\ news' \in BOOLEAN
            /\ known' = known \cup Rows(picture'.processes.value)
  <2>1. Coherent(latest')
    <3>1. Coherent(Publish(picture'))
      BY <1>1, PublishCoherent
    <3> QED BY <1>12, <3>1
  <2>2. /\ latest'.processes = picture'.processes /\ latest'.states = picture'.states
        /\ latest'.services = picture'.services /\ latest'.sample = picture'.sample
    BY <1>12 DEF Publish
  <2>3. Behind'
    <3>1. /\ picture'.processes.etag \in Etag /\ picture'.states.etag \in Etag
          /\ picture'.services.etag \in Etag
      BY <1>4 DEF Picture, Versions
    <3>2. /\ Later(latest'.processes, picture'.processes)
          /\ Later(latest'.states, picture'.states)
          /\ Later(latest'.services, picture'.services)
      BY <2>2, <3>1 DEF Later, Etag
    <3>3. latest'.sample.number = picture'.taken.number
      BY <1>1, <2>2 DEF Good, Shows
    <3> QED BY <1>3, <1>12, <3>2, <3>3 DEF Behind
  <2>4. Recalled'
    <3>1. known' = known \cup Rows(picture'.passports)
      BY <1>5, <1>12
    <3>2. known \subseteq Rows(picture.passports) \cup gone
      BY <1>0 DEF Recalled
    <3>3. known' \subseteq Rows(picture'.passports) \cup gone'
      BY <1>1, <3>1, <3>2
    <3>4. Rows(latest'.processes.value) = Rows(picture'.passports)
      BY <1>5, <2>2
    <3> QED BY <3>3, <3>4 DEF Recalled
  <2> QED BY <1>1, <1>10, <2>1, <2>3, <2>4, ChannelTaken DEF IInv
<1>13. CASE /\ UNCHANGED <<latest, known>> /\ news' \in BOOLEAN
            /\ picture'.taken = picture.taken
            /\ ~news' => ~news /\ Publish(picture') = Publish(picture)
  <2>1. Coherent(latest')
    BY <1>0, <1>13
  <2>2. Behind'
    <3>1. latest' = latest
      BY <1>13
    <3>2. latest'.sample.number = picture'.taken.number
      BY <1>0, <1>13 DEF Behind
    <3>3. ~news' => latest' = Publish(picture')
      BY <1>0, <1>13 DEF Behind
    <3> QED BY <1>3, <1>11, <3>1, <3>2, <3>3 DEF Behind
  <2>3. Recalled'
    <3>1. known' = known /\ latest' = latest
      BY <1>13
    <3> QED BY <1>0, <1>1, <3>1 DEF Recalled
  <2> QED BY <1>1, <1>10, <2>1, <2>2, <2>3, ChannelTaken DEF IInv
<1> QED BY <1>2, <1>12, <1>13

\* At the end of a batch what is held is what is published.
LEMMA EndFacts ==
  ASSUME IInv, EndsBatch
  PROVE  /\ UNCHANGED <<core, inbox, picture, gone, applied>>
         /\ painting' = FALSE /\ news' = FALSE
         /\ \/ /\ latest' = Publish(picture)
               /\ known' = known \cup Rows(picture.processes.value)
            \/ UNCHANGED <<latest, known>> /\ latest = Publish(picture)
<1>1. /\ UNCHANGED <<core, inbox, picture, gone, applied>>
      /\ painting' = FALSE /\ news' = FALSE
      /\ IF news THEN Publishes(picture) ELSE UNCHANGED <<latest, known>>
  BY DEF EndsBatch
<1>2. CASE news
  BY <1>1, <1>2 DEF Publishes
<1>3. CASE ~news
  <2>1. latest = Publish(picture)
    BY <1>3 DEF IInv, Behind
  <2> QED BY <1>1, <1>3, <2>1
<1> QED BY <1>1, <1>2, <1>3

LEMMA EndKeeps == IInv /\ EndsBatch => IInv'
<1> SUFFICES ASSUME IInv, EndsBatch PROVE IInv'
  OBVIOUS
<1>0. /\ Typed /\ Channel /\ Good(picture, applied) /\ Coherent(latest)
      /\ Behind /\ Recalled
  BY DEF IInv
<1>1. /\ UNCHANGED <<core, inbox, picture, gone, applied>>
      /\ painting' = FALSE /\ news' = FALSE
  BY EndFacts
<1>2. \/ /\ latest' = Publish(picture)
         /\ known' = known \cup Rows(picture.processes.value)
      \/ UNCHANGED <<latest, known>> /\ latest = Publish(picture)
  BY EndFacts
<1>3. picture \in Picture /\ picture.processes.value = picture.passports
  BY <1>0 DEF Good, Shows
<1>4. Rows(picture.passports) \subseteq Pids \X Nat
  BY <1>3, RowsType DEF Picture
<1>5. latest' = Publish(picture)
  BY <1>2
<1>6. Typed'
  <2>1. known' \subseteq Pids \X Nat
    BY <1>0, <1>2, <1>3, <1>4 DEF Typed
  <2> QED BY <1>0, <1>1, <2>1 DEF Typed, core
<1>7. Channel'
  BY <1>0, <1>1 DEF Channel, At, Count, core
<1>8. Good(picture', applied')
  BY <1>0, <1>1
<1>9. Coherent(latest')
  <2>1. Coherent(Publish(picture))
    BY <1>0, PublishCoherent
  <2> QED BY <1>5, <2>1
<1>10. Behind'
  <2>1. /\ latest'.processes = picture.processes /\ latest'.states = picture.states
        /\ latest'.services = picture.services /\ latest'.sample = picture.sample
    BY <1>5 DEF Publish
  <2>2. /\ picture.processes.etag \in Etag /\ picture.states.etag \in Etag
        /\ picture.services.etag \in Etag
    BY <1>3 DEF Picture, Versions
  <2>3. /\ Later(latest'.processes, picture.processes)
        /\ Later(latest'.states, picture.states)
        /\ Later(latest'.services, picture.services)
    BY <2>1, <2>2 DEF Later, Etag
  <2>4. latest'.sample.number = picture.taken.number
    BY <1>0, <2>1 DEF Good, Shows
  <2>5. picture' = picture
    BY <1>1
  <2> QED BY <1>1, <1>5, <2>3, <2>4, <2>5 DEF Behind
<1>11. Recalled'
  <2>1. Rows(latest'.processes.value) = Rows(picture.passports)
    BY <1>3, <1>5 DEF Publish
  <2>2. known' \subseteq Rows(picture.passports) \cup gone
    BY <1>0, <1>2, <1>3 DEF Recalled
  <2>3. picture' = picture /\ gone' = gone
    BY <1>1
  <2> QED BY <2>1, <2>2, <2>3 DEF Recalled
<1> QED BY <1>6, <1>7, <1>8, <1>9, <1>10, <1>11 DEF IInv

\* The invariant holds at first.
LEMMA Initially == Init => IInv
<1> SUFFICES ASSUME Init PROVE IInv
  OBVIOUS
<1>1. /\ listing = Empty /\ samples = 0 /\ ticks = 0 /\ error = FALSE /\ inbox = <<>>
      /\ picture = NewPicture /\ news = FALSE /\ painting = FALSE
      /\ latest = Publish(NewPicture) /\ gone = {} /\ applied = Empty /\ known = {}
  BY DEF Init
<1>2. /\ Empty \in Listing /\ Empty \in Listed /\ Empty \in Stated
      /\ \A p \in Pids : Empty[p] = None
  BY DEF Empty, Listing, Listed, Stated
<1>3. /\ NewPicture.passports = Empty /\ NewPicture.process_states = Empty
      /\ NewPicture.taken = [number |-> 0, rows |-> {}]
      /\ NewPicture.health = None /\ NewPicture.service_pids = {}
      /\ NewPicture.processes = [etag |-> 1, value |-> Empty]
      /\ NewPicture.states = [etag |-> 1, value |-> [passport_etag |-> 0, states |-> Empty]]
      /\ NewPicture.sample = [passport_etag |-> 0, number |-> 0, rows |-> {}]
      /\ NewPicture.services = [etag |-> 1, value |-> None]
      /\ NewPicture.followed = [n \in Names |-> None]
  BY DEF NewPicture
<1>4. NewPicture \in Picture
  <2>1. [number |-> 0, rows |-> {}] \in Sample
    BY DEF Sample
  <2>2. [etag |-> 1, value |-> Empty] \in Versions(Listed)
    BY <1>2 DEF Versions, Etag
  <2>3. [etag |-> 1, value |-> [passport_etag |-> 0, states |-> Empty]] \in Versions(Stamps)
    BY <1>2 DEF Versions, Etag, Stamps
  <2>4. [etag |-> 1, value |-> None] \in Versions(Scan \cup {None})
    BY DEF Versions, Etag
  <2> QED BY <1>2, <2>1, <2>2, <2>3, <2>4 DEF NewPicture, Picture
<1>5. Holds(NewPicture, Empty)
  BY <1>2, <1>3 DEF Holds
<1>6. Shows(NewPicture)
  BY <1>3 DEF Shows
<1>7. Flags(NewPicture)
  BY <1>2, <1>3 DEF Flags
<1>8. Good(NewPicture, Empty)
  BY <1>4, <1>5, <1>6, <1>7 DEF Good
<1>9. Coherent(Publish(NewPicture))
  BY <1>8, PublishCoherent
<1>10. Typed
  <2>1. listing \in Listing /\ applied \in Listing
    BY <1>1, <1>2
  <2>2. samples \in Nat /\ ticks \in Nat /\ error \in BOOLEAN
    BY <1>1
  <2>3. inbox \in Seq(Change)
    BY <1>1
  <2>4. picture \in Picture
    BY <1>1, <1>4
  <2>5. news \in BOOLEAN /\ painting \in BOOLEAN
    BY <1>1
  <2>6. gone \subseteq Pids \X Nat /\ known \subseteq Pids \X Nat
    BY <1>1
  <2> QED BY <2>1, <2>2, <2>3, <2>4, <2>5, <2>6 DEF Typed
<1>11. Channel
  BY <1>1, <1>3 DEF Channel, At, Count
<1>12. Behind
  <2>1. /\ latest.processes = picture.processes /\ latest.states = picture.states
        /\ latest.services = picture.services /\ latest.sample = picture.sample
    BY <1>1 DEF Publish
  <2>2. /\ picture.processes.etag \in Etag /\ picture.states.etag \in Etag
        /\ picture.services.etag \in Etag
    BY <1>1, <1>4 DEF Picture, Versions
  <2>3. latest.sample.number = picture.taken.number
    BY <1>1, <1>3, <2>1
  <2> QED BY <1>1, <2>1, <2>2, <2>3 DEF Behind, Later, Etag
<1>13. Recalled
  BY <1>1 DEF Recalled
<1> QED BY <1>1, <1>8, <1>9, <1>10, <1>11, <1>12, <1>13 DEF IInv

\* And so does every step.
LEMMA Steps == IInv /\ [Next]_vars => IInv'
<1> SUFFICES ASSUME IInv, [Next]_vars PROVE IInv'
  OBVIOUS
<1>1. ASSUME NEW kind \in Kinds, NEW moves \in [Pids -> Moves], CoreTicks(kind, moves)
      PROVE  IInv'
  BY <1>1, TickKeeps
<1>2. ASSUME NEW services \in Scan, Scans(services)
      PROVE  IInv'
  <2> DEFINE change == [kind |-> "scan", services |-> services,
                        listing |-> listing, samples |-> samples]
  <2>1. inbox' = Append(inbox, change) /\ UNCHANGED <<core, painter>>
    BY <1>2 DEF Scans
  <2>2. /\ change \in ScanChange /\ change.listing = listing /\ change.samples = samples
    BY DEF ScanChange, IInv, Typed
  <2> HIDE DEF change
  <2> QED BY <2>1, <2>2, ServicesSend
<1>3. ASSUME NEW name \in Names, NEW status \in Pids \cup {0, None}, Reports(name, status)
      PROVE  IInv'
  <2> DEFINE change == [kind |-> "status", name |-> name, status |-> status,
                        listing |-> listing, samples |-> samples]
  <2>1. inbox' = Append(inbox, change) /\ UNCHANGED <<core, painter>>
    BY <1>3 DEF Reports
  <2>2. /\ change \in StatusChange /\ change.listing = listing /\ change.samples = samples
    BY DEF StatusChange, IInv, Typed
  <2> HIDE DEF change
  <2> QED BY <2>1, <2>2, ServicesSend
<1>4. CASE Paints
  BY <1>4, PaintKeeps
<1>5. CASE EndsBatch
  BY <1>5, EndKeeps
<1>6. CASE UNCHANGED vars
  <2>1. UNCHANGED <<listing, samples, error, ticks, inbox, picture, news, painting, latest,
                    gone, applied, known>>
    BY <1>6 DEF vars, core, painter
  <2> QED BY <2>1 DEF IInv, Typed, Channel, At, Count, Behind, Recalled
<1> QED BY <1>1, <1>2, <1>3, <1>4, <1>5, <1>6 DEF Next, Sources, Painter, Scan

\* The invariant holds of every behaviour.
LEMMA Invariant == Spec => []IInv
<1>1. Init => IInv
  BY Initially
<1>2. IInv /\ [Next]_vars => IInv'
  BY Steps
<1> QED BY <1>1, <1>2, PTL DEF Spec

-----------------------------------------------------------------------------
\* What the parts of the invariant say of the state.
LEMMA SaysAll ==
  ASSUME IInv
  PROVE  PublishedCoherent /\ PictureIsCore /\ ImageKnown /\ NothingWithheld
<1>0. /\ Typed /\ Good(picture, applied) /\ Coherent(latest) /\ Behind /\ Recalled
  BY DEF IInv
<1>1. picture \in Picture /\ Holds(picture, applied)
  BY <1>0 DEF Good
<1>2. IsShown(picture)
  BY <1>1 DEF IsShown, IsStates, IsSample, Picture, Versions, Stamps
<1>3. TypeOK
  <2>1. IsSample(picture.taken)
    BY <1>1 DEF IsSample, Picture, Sample
  <2>2. /\ picture.passports \in Listed /\ picture.process_states \in Stated
        /\ picture.health \in BOOLEAN \cup {None}
        /\ picture.service_pids \subseteq Pids
        /\ picture.followed \in [Names -> Pids \cup {0, None}]
    BY <1>1 DEF Picture
  <2>3. IsShown(latest) /\ (news => painting)
    BY <1>0 DEF Coherent, Behind
  <2> QED BY <1>0, <1>2, <2>1, <2>2, <2>3 DEF TypeOK, Typed
<1>4. PublishedCoherent
  BY <1>0, <1>3 DEF PublishedCoherent, Coherent, ServicesFlagged
<1>5. PictureIsCore
  BY <1>1 DEF Holds, PictureIsCore
<1>6. ImageKnown
  BY <1>0 DEF Recalled, ImageKnown
<1>7. NothingWithheld
  BY <1>0 DEF Behind, NothingWithheld
<1> QED BY <1>4, <1>5, <1>6, <1>7

\* The lists published go together, whatever piled up before the painter.
THEOREM PublishedStaysCoherent == Spec => []PublishedCoherent
<1>1. IInv => PublishedCoherent
  BY SaysAll
<1> QED BY <1>1, Invariant, PTL

\* The picture holds what the core listed as it sent the last difference
\* applied.
THEOREM PictureFollowsCore == Spec => []PictureIsCore
<1>1. IInv => PictureIsCore
  BY SaysAll
<1> QED BY <1>1, Invariant, PTL

\* A process once published is found in the list published or among the gone.
THEOREM ImageStaysKnown == Spec => []ImageKnown
<1>1. IInv => ImageKnown
  BY SaysAll
<1> QED BY <1>1, Invariant, PTL

\* Between two batches readers have all the picture holds.
THEOREM NothingIsWithheld == Spec => []NothingWithheld
<1>1. IInv => NothingWithheld
  BY SaysAll
<1> QED BY <1>1, Invariant, PTL

\* What a step publishes: what was, or the picture as the step leaves it.
LEMMA PublishesNext ==
  ASSUME IInv, [Next]_vars
  PROVE  latest' = latest \/ latest' = Publish(picture')
<1>1. CASE Sources \/ UNCHANGED vars
  BY <1>1 DEF Sources, CoreTicks, Scans, Reports, vars, painter
<1>2. CASE Paints
  BY <1>2, PaintFacts
<1>3. CASE EndsBatch
  BY <1>3, EndFacts
<1> QED BY <1>1, <1>2, <1>3 DEF Next, Painter

\* And how the picture grew by then.
LEMMA GrowsNext ==
  ASSUME IInv, [Next]_vars
  PROVE  /\ picture' \in Picture
         /\ Grown(picture, picture')
         /\ picture'.taken.number \in {picture.taken.number, picture.taken.number + 1}
<1>0. picture \in Picture
  BY DEF IInv, Good
<1>1. CASE Paints
  <2>1. /\ Good(picture', applied') /\ Grown(picture, picture')
        /\ picture'.taken.number \in {picture.taken.number, picture.taken.number + 1}
    BY <1>1, PaintFacts
  <2> QED BY <2>1 DEF Good
<1>2. CASE ~Paints
  <2>1. picture' = picture
    BY <1>2 DEF Next, Sources, Painter, CoreTicks, Scans, Reports, EndsBatch, vars, painter
  <2> QED BY <1>0, <2>1 DEF Grown, Later, Picture, Versions, Etag
<1> QED BY <1>1, <1>2

\* Every sample is published, one after the other.
THEOREM SamplesAreInOrder == Spec => SamplesInOrder
<1>1. ASSUME IInv, IInv', [Next]_vars
      PROVE  latest'.sample.number \in {latest.sample.number, latest.sample.number + 1}
  <2>1. latest.sample.number = picture.taken.number
    BY <1>1 DEF IInv, Behind
  <2>2. latest'.sample.number = picture'.taken.number
    BY <1>1 DEF IInv, Behind
  <2> QED BY <1>1, <2>1, <2>2, GrowsNext
<1> QED BY <1>1, Invariant, PTL DEF Spec, SamplesInOrder
=============================================================================

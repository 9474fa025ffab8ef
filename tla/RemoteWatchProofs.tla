-------------------------- MODULE RemoteWatchProofs --------------------------
(***************************************************************************)
(* That an update tells what it should, for lists of any rows (Lists); and *)
(* that what a client of the agent holds over a session is what the agent  *)
(* published (RemoteWatch), for any watches, callers and pids, however     *)
(* calls, answers and pushes cross on the pipe.                            *)
(***************************************************************************)
EXTENDS RemoteWatchInvariants, FiniteSetTheorems, TLAPS

\* A row stays in place when its process does and nothing is told of it.
LEMMA NumberGone ==
  ASSUME NEW before, NEW after, NEW row \in before, OnePerProcess(before)
  PROVE  row.seq \in Numbers(Gone(before, after)) <=> Key(row) \notin Keys(after)
<1>1. ASSUME row.seq \in Numbers(Gone(before, after))
      PROVE  Key(row) \notin Keys(after)
  <2>1. PICK old \in before : Key(old) \notin Keys(after) /\ Key(old)[2] = row.seq
    BY <1>1 DEF Numbers, Gone, Keys
  <2>2. old.seq = row.seq BY <2>1 DEF Key
  <2>3. old = row BY <2>2 DEF OnePerProcess
  <2> QED BY <2>1, <2>3
<1>2. ASSUME Key(row) \notin Keys(after)
      PROVE  row.seq \in Numbers(Gone(before, after))
  <2>1. Key(row) \in Gone(before, after) BY <1>2 DEF Gone, Keys
  <2>2. Key(row)[2] = row.seq BY DEF Key
  <2> QED BY <2>1, <2>2 DEF Numbers
<1> QED BY <1>1, <1>2

\* A delta applied to the list it was told against gives the list it was told
\* of: diff (watch.rs) and merge (decode.rs) fit, when a process went, came,
\* or left its pid to another in between.
THEOREM DeltaRebuilds ==
  ASSUME NEW before, NEW after, OnePerProcess(before), OnePerProcess(after)
  PROVE  Merge(before, Numbers(Gone(before, after)),
               Found(after, Upserted(before, after))) = after
<1> DEFINE left == Numbers(Gone(before, after))
           told == Found(after, Upserted(before, after))
           merged == Merge(before, left, told)
<1>1. \A row \in after : row \notin before => row \in told BY DEF Found, Upserted, Keys
<1>2. told \subseteq after BY DEF Found
<1>3. ASSUME NEW row \in after
      PROVE  row \in merged
  <2>1. CASE row \in told BY <2>1 DEF Merge
  <2>2. CASE row \notin told
    <3>1. row \in before BY <1>1, <2>2
    <3>2. Key(row) \in Keys(after) BY DEF Keys
    <3>3. row.seq \notin left BY <3>1, <3>2, NumberGone
    <3>4. \A new \in told : new.pid # row.pid BY <1>2, <2>2 DEF OnePerProcess
    <3> QED BY <3>1, <3>3, <3>4 DEF Merge
  <2> QED BY <2>1, <2>2
<1>4. ASSUME NEW row \in merged
      PROVE  row \in after
  <2>1. CASE row \in told BY <1>2, <2>1
  <2>2. CASE row \notin told
    <3>1. row \in before /\ row.seq \notin left /\ \A new \in told : new.pid # row.pid
      BY <2>2 DEF Merge
    <3>2. Key(row) \in Keys(after) BY <3>1, NumberGone
    <3>3. PICK same \in after : Key(same) = Key(row) BY <3>2 DEF Keys
    <3>4. same.pid = row.pid BY <3>3 DEF Key
    <3>5. same \in before BY <1>1, <3>1, <3>4
    <3>6. same = row BY <3>1, <3>4, <3>5 DEF OnePerProcess
    <3> QED BY <3>6
  <2> QED BY <2>1, <2>2
<1> QED BY <1>3, <1>4

\* Which processes are gone is told once, from the process list: it is so for
\* the states too, whose keys are the same.
LEMMA GoneOfKeys ==
  ASSUME NEW b, NEW a, NEW c, NEW d, Keys(b) = Keys(c), Keys(a) = Keys(d)
  PROVE  Gone(b, a) = Gone(c, d)
BY DEF Gone

\* A delta is applied to a list under the tag it was told against, as a merge.
LEMMA DeltaApplied ==
  ASSUME NEW list, NEW base, NEW left, NEW keys
  PROVE  /\ Applies(TRUE, base, Delta(list, base, left, keys))
         /\ Applied(base, Delta(list, base, left, keys))
              = Merge(base.rows, Numbers(left), Found(list.rows, keys))
<1> DEFINE told == Delta(list, base, left, keys)
<1>1. /\ told.form = "delta" /\ told.base = base.etag
      /\ told.left = Numbers(left) /\ told.upserted = Found(list.rows, keys)
  BY DEF Delta, Numbers
<1> HIDE DEF told
<1>2. Applies(TRUE, base, told) BY <1>1 DEF Applies
<1>3. Applied(base, told) = Merge(base.rows, told.left, told.upserted) BY <1>1 DEF Applied
<1> QED BY <1>1, <1>2, <1>3 DEF told

\* A list told unchanged is kept, and needs no tag.
LEMMA UnchangedApplied ==
  ASSUME NEW list
  PROVE  Applies(TRUE, list, Unchanged) /\ Applied(list, Unchanged) = list.rows
<1>1. Unchanged.form = "unchanged" BY DEF Unchanged
<1> QED BY <1>1 DEF Applies, Applied

\* What an update to a client that holds lists makes of them: update
\* (encode.rs) after changes (watch.rs), then lists (decode.rs).
THEOREM UpdateRebuilds ==
  ASSUME NEW Rows, NEW before \in Snapshots(Rows), NEW after \in Snapshots(Rows),
         Coherent(before), Coherent(after), TagsName(before, after)
  PROVE  /\ Understood(TRUE, before, Update(TRUE, before, after))
         /\ Decoded(before, Update(TRUE, before, after)) = after
<1> DEFINE update == Update(TRUE, before, after)
           left == Gone(before.processes.rows, after.processes.rows)
<1>1. Changes(before, after).left = left BY DEF Changes, TagsName, Gone
<1>2. left = Gone(before.states.rows, after.states.rows) BY GoneOfKeys DEF Coherent
<1>3. /\ Applies(TRUE, before.processes, update.passports)
      /\ Applied(before.processes, update.passports) = after.processes.rows
  <2>1. CASE after.processes.etag = before.processes.etag
    <3>1. update.passports = Unchanged BY <2>1 DEF Update, Told
    <3> QED BY <2>1, <3>1, UnchangedApplied DEF TagsName
  <2>2. CASE after.processes.etag # before.processes.etag
    <3>1. Changes(before, after).passports = Upserted(before.processes.rows, after.processes.rows)
      BY <2>2 DEF Changes
    <3>2. update.passports = Delta(after.processes, before.processes, left,
            Upserted(before.processes.rows, after.processes.rows))
      BY <1>1, <2>2, <3>1 DEF Update, Told
    <3>3. Merge(before.processes.rows, Numbers(left),
                Found(after.processes.rows, Upserted(before.processes.rows, after.processes.rows)))
            = after.processes.rows
      BY DeltaRebuilds DEF Coherent
    <3> DEFINE told == Delta(after.processes, before.processes, left,
                         Upserted(before.processes.rows, after.processes.rows))
    <3>4. Applies(TRUE, before.processes, told) /\ Applied(before.processes, told) = after.processes.rows
      BY <3>3, DeltaApplied
    <3>5. update.passports = told BY <3>2
    <3> HIDE DEF told, update
    <3> QED BY <3>4, <3>5
  <2> QED BY <2>1, <2>2
<1>4. /\ Applies(TRUE, before.states, update.states)
      /\ Applied(before.states, update.states) = after.states.rows
  <2>1. CASE after.states.etag = before.states.etag
    <3>1. update.states = Unchanged BY <2>1 DEF Update, Told
    <3> QED BY <2>1, <3>1, UnchangedApplied DEF TagsName
  <2>2. CASE after.states.etag # before.states.etag
    <3>1. Changes(before, after).states = Upserted(before.states.rows, after.states.rows)
      BY <2>2 DEF Changes
    <3>2. update.states = Delta(after.states, before.states, left,
            Upserted(before.states.rows, after.states.rows))
      BY <1>1, <2>2, <3>1 DEF Update, Told
    <3>3. Merge(before.states.rows, Numbers(left),
                Found(after.states.rows, Upserted(before.states.rows, after.states.rows)))
            = after.states.rows
      BY <1>2, DeltaRebuilds DEF Coherent
    <3> DEFINE told == Delta(after.states, before.states, left,
                         Upserted(before.states.rows, after.states.rows))
    <3>4. Applies(TRUE, before.states, told) /\ Applied(before.states, told) = after.states.rows
      BY <3>3, DeltaApplied
    <3>5. update.states = told BY <3>2
    <3> HIDE DEF told, update
    <3> QED BY <3>4, <3>5
  <2> QED BY <2>1, <2>2
<1>5. Understood(TRUE, before, update) BY <1>3, <1>4 DEF Understood
<1>6. Decoded(before, update) = after
  <2>1. /\ update.services_etag = after.services
        /\ update.passport_etag = after.processes.etag
        /\ update.states_etag = after.states.etag
    BY DEF Update
  <2>2. after.states.passport_etag = after.processes.etag BY DEF Coherent
  <2> QED BY <1>3, <1>4, <2>1, <2>2 DEF Decoded, Snapshots
<1> QED BY <1>5, <1>6

\* The first update of a watch tells the lists whole: whatever the client
\* held, it then holds what was told.
THEOREM FirstUpdateTellsAll ==
  ASSUME NEW Rows, NEW any, NEW after \in Snapshots(Rows), Coherent(after)
  PROVE  /\ Understood(FALSE, any, Update(FALSE, any, after))
         /\ Decoded(any, Update(FALSE, any, after)) = after
<1> DEFINE update == Update(FALSE, any, after)
<1>1. /\ update.passports = Whole(after.processes)
      /\ update.states = Whole(after.states)
      /\ update.services_etag = after.services
      /\ update.passport_etag = after.processes.etag
      /\ update.states_etag = after.states.etag
  BY DEF Update
<1>2. after.states.passport_etag = after.processes.etag BY DEF Coherent
<1> HIDE DEF update
<1>3. \A list : Whole(list).form = "full" /\ Whole(list).rows = list.rows BY DEF Whole
<1>4. /\ Applied(any.processes, update.passports) = after.processes.rows
      /\ Applied(any.states, update.states) = after.states.rows
  BY <1>1, <1>3 DEF Applied
<1>5. Understood(FALSE, any, update) BY <1>1, <1>3 DEF Understood, Applies
<1>6. Decoded(any, update) = after BY <1>1, <1>2, <1>4 DEF Decoded, Snapshots
<1> QED BY <1>5, <1>6 DEF update

-----------------------------------------------------------------------------
(***************************************************************************)
(* What is published grows by one coherent snapshot at a time.             *)
(***************************************************************************)
\* What happens to the lists when a process comes or changes its pid.
LEMMA Joins ==
  ASSUME NEW rows \in SUBSET Row, NEW n \in Nat, NEW p \in Pids, OnePerProcess(rows),
         \A row \in rows : row.seq < n
  PROVE  LET after == (rows \ OfPid(rows, p)) \cup {Fresh(p, n)}
         IN  /\ after \in SUBSET Row /\ OnePerProcess(after)
             /\ \A row \in after : row.seq <= n
             /\ Keys(after) = (Keys(rows) \ {key \in Keys(rows) : key[1] = p}) \cup {<<p, n>>}
<1> DEFINE after == (rows \ OfPid(rows, p)) \cup {Fresh(p, n)}
<1>1. /\ Fresh(p, n) \in Row /\ Fresh(p, n).pid = p /\ Fresh(p, n).seq = n BY DEF Fresh, Row
<1>2. \A row \in after : row # Fresh(p, n) => row \in rows /\ row.pid # p BY DEF OfPid
<1>3. after \in SUBSET Row BY <1>1
<1>4. \A row \in rows : row.seq \in Nat /\ row.pid \in Pids BY DEF Row
<1>5. OnePerProcess(after)
  <2>1. SUFFICES ASSUME NEW a \in after, NEW b \in after, a.pid = b.pid \/ a.seq = b.seq
                 PROVE  a = b
    BY DEF OnePerProcess
  <2>2. CASE a = Fresh(p, n) BY <1>1, <1>2, <1>4, <2>1, <2>2
  <2>3. CASE b = Fresh(p, n) BY <1>1, <1>2, <1>4, <2>1, <2>3
  <2>4. CASE a # Fresh(p, n) /\ b # Fresh(p, n) BY <1>2, <2>1, <2>4 DEF OnePerProcess
  <2> QED BY <2>2, <2>3, <2>4
<1>6. \A row \in after : row.seq <= n BY <1>1, <1>2, <1>4
<1>7. Keys(after) = (Keys(rows) \ {key \in Keys(rows) : key[1] = p}) \cup {<<p, n>>}
  <2>1. Key(Fresh(p, n)) = <<p, n>> BY <1>1 DEF Key
  <2>2. \A row : Key(row)[1] = row.pid BY DEF Key
  <2>3. Fresh(p, n) \in after /\ \A row \in rows : row.pid # p => row \in after BY DEF OfPid
  <2>4. ASSUME NEW key \in Keys(after)
        PROVE  key \in (Keys(rows) \ {k \in Keys(rows) : k[1] = p}) \cup {<<p, n>>}
    <3>1. PICK row \in after : key = Key(row) BY DEF Keys
    <3>2. CASE row = Fresh(p, n) BY <2>1, <3>1, <3>2
    <3>3. CASE row # Fresh(p, n)
      <4>1. row \in rows /\ row.pid # p BY <1>2, <3>1, <3>3
      <4>2. key \in Keys(rows) /\ key[1] # p BY <2>2, <3>1, <4>1 DEF Keys
      <4> QED BY <4>2
    <3> QED BY <3>2, <3>3
  <2>5. ASSUME NEW key \in Keys(rows), key[1] # p
        PROVE  key \in Keys(after)
    <3>1. PICK row \in rows : key = Key(row) BY DEF Keys
    <3>2. row \in after BY <2>2, <2>3, <2>5, <3>1
    <3> QED BY <3>1, <3>2 DEF Keys
  <2>6. <<p, n>> \in Keys(after) BY <2>1, <2>3 DEF Keys
  <2> QED BY <2>4, <2>5, <2>6
<1> QED BY <1>3, <1>5, <1>6, <1>7

\* And when one goes.
LEMMA GoesAway ==
  ASSUME NEW rows \in SUBSET Row, NEW p, OnePerProcess(rows)
  PROVE  LET after == rows \ OfPid(rows, p)
         IN  /\ after \in SUBSET rows /\ OnePerProcess(after)
             /\ Keys(after) = Keys(rows) \ {key \in Keys(rows) : key[1] = p}
<1> DEFINE after == rows \ OfPid(rows, p)
<1>1. \A row : Key(row)[1] = row.pid BY DEF Key
<1>2. \A row : row \in after <=> row \in rows /\ row.pid # p BY DEF OfPid
<1>3. OnePerProcess(after) BY <1>2 DEF OnePerProcess
<1> HIDE DEF after
<1>4. Keys(after) = Keys(rows) \ {key \in Keys(rows) : key[1] = p}
  <2>1. ASSUME NEW key \in Keys(after)
        PROVE  key \in Keys(rows) /\ key[1] # p
    BY <1>1, <1>2 DEF Keys
  <2>2. ASSUME NEW key \in Keys(rows), key[1] # p
        PROVE  key \in Keys(after)
    BY <1>1, <1>2, <2>2 DEF Keys
  <2> QED BY <2>1, <2>2
<1>5. after \in SUBSET rows BY <1>2
<1> QED BY <1>3, <1>4, <1>5 DEF after

\* And when something is told of one.
LEMMA Retells ==
  ASSUME NEW rows \in SUBSET Row, NEW n \in Nat, NEW p, OnePerProcess(rows),
         \A row \in rows : row.seq <= n
  PROVE  LET after == Retold(rows, p)
         IN  /\ after \in SUBSET Row /\ OnePerProcess(after)
             /\ \A row \in after : row.seq <= n
             /\ Keys(after) = Keys(rows)
<1> DEFINE New(row) == IF row.pid = p THEN [row EXCEPT !.told = ~@] ELSE row
           after == Retold(rows, p)
<1>1. ASSUME NEW row \in Row
      PROVE  New(row) \in Row /\ New(row).pid = row.pid /\ New(row).seq = row.seq
  BY DEF Row
<1>2. after = {New(row) : row \in rows} BY DEF Retold
<1>3. \A row \in rows : Key(New(row)) = Key(row) BY <1>1 DEF Key
<1>4. \A row \in rows : row \in Row OBVIOUS
<1> HIDE DEF New, after
<1>5. after \in SUBSET Row BY <1>1, <1>2
<1>6. OnePerProcess(after)
  <2>1. SUFFICES ASSUME NEW a \in after, NEW b \in after, a.pid = b.pid \/ a.seq = b.seq
                 PROVE  a = b
    BY DEF OnePerProcess
  <2>2. PICK x \in rows : a = New(x) BY <1>2
  <2>3. PICK y \in rows : b = New(y) BY <1>2
  <2>4. x.pid = y.pid \/ x.seq = y.seq BY <1>1, <1>4, <2>1, <2>2, <2>3
  <2>5. x = y BY <2>4 DEF OnePerProcess
  <2> QED BY <2>2, <2>3, <2>5
<1>7. \A row \in after : row.seq <= n BY <1>1, <1>2, <1>4
<1>8. Keys(after) = Keys(rows)
  <2>1. \A key : key \in Keys(after) <=> \E row \in rows : key = Key(New(row)) BY <1>2 DEF Keys
  <2>2. \A key : key \in Keys(rows) <=> \E row \in rows : key = Key(row) BY DEF Keys
  <2> QED BY <1>3, <2>1, <2>2
<1> QED BY <1>5, <1>6, <1>7, <1>8 DEF after

\* The lists as they are listed, or as the states are told, next.
LEMMA ListedFields ==
  ASSUME NEW was \in Snapshot, NEW n \in Nat, NEW rows, NEW states,
         NEW after, after = Listed(was, n, rows, states)
  PROVE  /\ after.services = was.services
         /\ after.processes = [etag |-> n, rows |-> rows]
         /\ after.states = [etag |-> n, passport_etag |-> n, rows |-> states]
         /\ rows \in SUBSET Row /\ states \in SUBSET Row => after \in Snapshot
BY DEF Listed, Snapshot, ProcessList, StateList

\* What a snapshot is once its states alone move.
LEMMA StatesFields ==
  ASSUME NEW was \in Snapshot, NEW n \in Nat, NEW rows,
         NEW after, after = StatesMove(was, n, rows)
  PROVE  /\ after.services = was.services
         /\ after.processes = was.processes
         /\ after.states = [etag |-> n, passport_etag |-> was.states.passport_etag, rows |-> rows]
         /\ rows \in SUBSET Row => after \in Snapshot
<1>1. was.states = [etag |-> was.states.etag, passport_etag |-> was.states.passport_etag,
                    rows |-> was.states.rows]
  BY DEF Snapshot, StateList
<1>2. after.states = [was.states EXCEPT !.etag = n, !.rows = rows] BY DEF Snapshot, StatesMove
<1>3. after.states = [etag |-> n, passport_etag |-> was.states.passport_etag, rows |-> rows]
  BY <1>1, <1>2
<1>4. after.services = was.services /\ after.processes = was.processes BY DEF Snapshot, StatesMove
<1>5. rows \in SUBSET Row => after \in Snapshot BY <1>3, <1>4 DEF Snapshot, StateList, StatesMove
<1> QED BY <1>3, <1>4, <1>5

\* A snapshot that moved is whole again, its tags name what they did before,
\* and what is new in it has the number it was published under.
LEMMA MovedFields ==
  ASSUME NEW was \in Snapshot, NEW n \in Nat, Coherent(was), Within(was, n),
         NEW after \in Moved(was, n + 1)
  PROVE  after \in Snapshot /\ Coherent(after) /\ Within(after, n + 1) /\ Later(was, after)
<1> DEFINE next == n + 1
           rows == was.processes.rows
           states == was.states.rows
<1>1. /\ rows \in SUBSET Row /\ states \in SUBSET Row
      /\ was.services \in Nat /\ was.processes.etag \in Nat /\ was.states.etag \in Nat
      /\ was.states.passport_etag \in Nat
      /\ was.processes \in ProcessList /\ was.states \in StateList
  BY DEF Snapshot, ProcessList, StateList
<1>2. /\ \A row \in rows \cup states : row \in Row /\ row.seq <= n /\ row.seq \in Nat
      /\ OnePerProcess(rows) /\ OnePerProcess(states) /\ Keys(rows) = Keys(states)
      /\ was.states.passport_etag = was.processes.etag
  BY <1>1 DEF Coherent, Within, Row
<1>3. /\ next \in Nat /\ next > n
      /\ was.services \in 1..n /\ was.processes.etag \in 1..n /\ was.states.etag \in 1..n
  BY DEF Within
<1>4. /\ \A row \in rows \cup states : row.seq < next /\ row.seq <= next BY <1>2, <1>3
<1> HIDE DEF next
<1>5. CASE after = was
  <2>1. Within(after, next) BY <1>3, <1>4, <1>5 DEF Within
  <2>2. Later(was, after) BY <1>1, <1>5 DEF Later
  <2> QED BY <1>5, <2>1, <2>2 DEF next
<1>6. CASE after = [was EXCEPT !.services = next]
  <2>1. /\ after.services = next /\ after.processes = was.processes /\ after.states = was.states
        /\ after \in Snapshot
    BY <1>3, <1>6 DEF Snapshot
  <2>2. Coherent(after) BY <2>1 DEF Coherent
  <2>3. Within(after, next) BY <1>3, <1>4, <2>1 DEF Within
  <2>4. Later(was, after) BY <1>1, <1>3, <2>1 DEF Later
  <2> QED BY <2>1, <2>2, <2>3, <2>4 DEF next
<1>7. ASSUME NEW someRows \in SUBSET Row, NEW someStates \in SUBSET Row,
             OnePerProcess(someRows), OnePerProcess(someStates), Keys(someRows) = Keys(someStates),
             \A row \in someRows \cup someStates : row.seq <= next,
             after = Listed(was, next, someRows, someStates)
      PROVE  after \in Snapshot /\ Coherent(after) /\ Within(after, next) /\ Later(was, after)
  <2>1. /\ after.services = was.services
        /\ after.processes = [etag |-> next, rows |-> someRows]
        /\ after.states = [etag |-> next, passport_etag |-> next, rows |-> someStates]
        /\ after \in Snapshot
    BY <1>3, <1>7, ListedFields
  <2>2. Coherent(after) BY <1>7, <2>1 DEF Coherent
  <2>3. Within(after, next) BY <1>3, <1>7, <2>1 DEF Within
  <2>4. Later(was, after) BY <1>1, <1>3, <2>1 DEF Later
  <2> QED BY <2>1, <2>2, <2>3, <2>4
<1>8. ASSUME NEW p \in Pids,
             after = Listed(was, next, (rows \ OfPid(rows, p)) \cup {Fresh(p, next)},
                                       (states \ OfPid(states, p)) \cup {Fresh(p, next)})
      PROVE  after \in Snapshot /\ Coherent(after) /\ Within(after, next) /\ Later(was, after)
  <2> DEFINE r == (rows \ OfPid(rows, p)) \cup {Fresh(p, next)}
             s == (states \ OfPid(states, p)) \cup {Fresh(p, next)}
  <2>1. /\ r \in SUBSET Row /\ OnePerProcess(r) /\ \A row \in r : row.seq <= next
        /\ Keys(r) = (Keys(rows) \ {key \in Keys(rows) : key[1] = p}) \cup {<<p, next>>}
    BY <1>1, <1>2, <1>3, <1>4, Joins
  <2>2. /\ s \in SUBSET Row /\ OnePerProcess(s) /\ \A row \in s : row.seq <= next
        /\ Keys(s) = (Keys(states) \ {key \in Keys(states) : key[1] = p}) \cup {<<p, next>>}
    BY <1>1, <1>2, <1>3, <1>4, Joins
  <2>3. after = Listed(was, next, r, s) BY <1>8
  <2> HIDE DEF r, s
  <2>4. Keys(r) = Keys(s) BY <1>2, <2>1, <2>2
  <2> QED BY <1>7, <2>1, <2>2, <2>3, <2>4
<1>9. ASSUME NEW p \in Pids,
             after = Listed(was, next, rows \ OfPid(rows, p), states \ OfPid(states, p))
      PROVE  after \in Snapshot /\ Coherent(after) /\ Within(after, next) /\ Later(was, after)
  <2> DEFINE r == rows \ OfPid(rows, p)
             s == states \ OfPid(states, p)
  <2>1. /\ r \in SUBSET rows /\ OnePerProcess(r)
        /\ Keys(r) = Keys(rows) \ {key \in Keys(rows) : key[1] = p}
    BY <1>1, <1>2, GoesAway
  <2>2. /\ s \in SUBSET states /\ OnePerProcess(s)
        /\ Keys(s) = Keys(states) \ {key \in Keys(states) : key[1] = p}
    BY <1>1, <1>2, GoesAway
  <2>3. after = Listed(was, next, r, s) BY <1>9
  <2> HIDE DEF r, s
  <2>4. Keys(r) = Keys(s) /\ r \in SUBSET Row /\ s \in SUBSET Row BY <1>1, <1>2, <2>1, <2>2
  <2>5. \A row \in r \cup s : row.seq <= next BY <1>4, <2>1, <2>2
  <2> QED BY <1>7, <2>1, <2>2, <2>3, <2>4, <2>5
<1>10. ASSUME NEW p \in Pids, after = Listed(was, next, Retold(rows, p), states)
       PROVE  after \in Snapshot /\ Coherent(after) /\ Within(after, next) /\ Later(was, after)
  <2>1. /\ Retold(rows, p) \in SUBSET Row /\ OnePerProcess(Retold(rows, p))
        /\ \A row \in Retold(rows, p) : row.seq <= next
        /\ Keys(Retold(rows, p)) = Keys(rows)
    BY <1>1, <1>2, <1>3, <1>4, Retells
  <2>2. \A row \in Retold(rows, p) \cup states : row.seq <= next BY <1>4, <2>1
  <2> QED BY <1>1, <1>2, <1>7, <1>10, <2>1, <2>2
<1>11. ASSUME NEW p \in Pids,
              after = StatesMove(was, next, Retold(states, p))
       PROVE  after \in Snapshot /\ Coherent(after) /\ Within(after, next) /\ Later(was, after)
  <2>1. /\ Retold(states, p) \in SUBSET Row /\ OnePerProcess(Retold(states, p))
        /\ \A row \in Retold(states, p) : row.seq <= next
        /\ Keys(Retold(states, p)) = Keys(states)
    BY <1>1, <1>2, <1>3, <1>4, Retells
  <2>2. /\ after.services = was.services /\ after.processes = was.processes
        /\ after.states = [etag |-> next, passport_etag |-> was.states.passport_etag,
                           rows |-> Retold(states, p)]
        /\ after \in Snapshot
    BY <1>3, <1>11, <2>1, StatesFields
  <2>3. Coherent(after) BY <1>2, <2>1, <2>2 DEF Coherent
  <2>4. Within(after, next) BY <1>3, <1>4, <2>1, <2>2 DEF Within
  <2>5. Later(was, after) BY <1>1, <1>3, <2>2 DEF Later
  <2> QED BY <2>2, <2>3, <2>4, <2>5
<1>12. \/ after = was \/ after = [was EXCEPT !.services = next]
       \/ \E p \in Pids :
            \/ after = Listed(was, next, (rows \ OfPid(rows, p)) \cup {Fresh(p, next)},
                                         (states \ OfPid(states, p)) \cup {Fresh(p, next)})
            \/ after = Listed(was, next, rows \ OfPid(rows, p), states \ OfPid(states, p))
            \/ after = Listed(was, next, Retold(rows, p), states)
            \/ after = StatesMove(was, next, Retold(states, p))
  <2>1. after \in Moved(was, next) BY DEF next
  <2> QED BY <2>1, Zenon DEF Moved
<1> QED BY <1>5, <1>6, <1>8, <1>9, <1>10, <1>11, <1>12 DEF next

\* What is later is later still.
LEMMA LaterStill ==
  ASSUME NEW s \in Snapshot, NEW t \in Snapshot, NEW u \in Snapshot, Later(s, t), Later(t, u)
  PROVE  Later(s, u)
<1>1. /\ s.services \in Nat /\ t.services \in Nat /\ u.services \in Nat
      /\ s.processes.etag \in Nat /\ t.processes.etag \in Nat /\ u.processes.etag \in Nat
      /\ s.states.etag \in Nat /\ t.states.etag \in Nat /\ u.states.etag \in Nat
  BY DEF Snapshot, ProcessList, StateList
<1>2. s.services <= u.services /\ s.processes.etag <= u.processes.etag /\ s.states.etag <= u.states.etag
  BY <1>1 DEF Later
<1>3. s.processes.etag = u.processes.etag => s.processes = u.processes BY <1>1 DEF Later
<1>4. s.states.etag = u.states.etag => s.states = u.states BY <1>1 DEF Later
<1> QED BY <1>2, <1>3, <1>4 DEF Later

\* The first picture is coherent and tells nothing of the future.
LEMMA RecordAtFirst ==
  ASSUME Init PROVE Record
<1>1. published = <<First>> BY DEF Init
<1>2. /\ First.services = 1 /\ First.processes = [etag |-> 1, rows |-> {}]
      /\ First.states = [etag |-> 1, passport_etag |-> 1, rows |-> {}]
  BY DEF First
<1>3. First \in Snapshot BY DEF First, Snapshot, ProcessList, StateList
<1>4. Coherent(First) BY <1>2 DEF Coherent, OnePerProcess
<1>5. Within(First, 1) BY <1>2 DEF Within
<1>6. Later(First, First) BY <1>2 DEF Later
<1> HIDE DEF First
<1>7. Len(published) = 1 /\ published[1] = First BY <1>1
<1>8. published \in Seq(Snapshot) /\ published # <<>> BY <1>1, <1>3
<1>9. \A n \in 1..Len(published) : n = 1 BY <1>7
<1> QED BY <1>4, <1>5, <1>6, <1>7, <1>8, <1>9 DEF Record

\* Each snapshot published after it is coherent, and later.
LEMMA RecordKept ==
  ASSUME Record, [Next]_vars PROVE Record'
<1>1. CASE UNCHANGED published BY <1>1 DEF Record
<1>2. CASE Publishes
  <2> DEFINE n == Len(published)
  <2>1. PICK after \in Moved(Latest, n + 1) : published' = Append(published, after)
    BY <1>2 DEF Publishes
  <2>2. published \in Seq(Snapshot) /\ published # <<>> /\ n \in Nat /\ n >= 1 BY DEF Record
  <2>3. /\ Latest \in Snapshot /\ Coherent(Latest) /\ Within(Latest, n)
        /\ Latest = published[n]
    BY <2>2 DEF Record, Latest
  <2>4. after \in Snapshot /\ Coherent(after) /\ Within(after, n + 1) /\ Later(Latest, after)
    BY <2>1, <2>2, <2>3, MovedFields
  <2>5. /\ published' \in Seq(Snapshot) /\ published' # <<>> /\ Len(published') = n + 1
        /\ published'[n + 1] = after /\ \A i \in 1..n : published'[i] = published[i]
    BY <2>1, <2>2, <2>4
  <2>6. \A i \in 1..Len(published') : i \in 1..n \/ i = n + 1 BY <2>2, <2>5
  <2>7. \A i \in 1..Len(published') : Coherent(published'[i]) /\ Within(published'[i], i)
    BY <2>4, <2>5, <2>6 DEF Record
  <2>8. ASSUME NEW i \in 1..n
        PROVE  published[i] \in Snapshot /\ Later(published[i], after)
    <3>1. published[i] \in Snapshot /\ Later(published[i], published[n]) BY <2>2 DEF Record
    <3> QED BY <2>3, <2>4, <3>1, LaterStill
  <2>9. Later(after, after) BY <2>4 DEF Later, Snapshot, ProcessList, StateList
  <2>10. ASSUME NEW i \in 1..Len(published'), NEW j \in 1..Len(published'), i <= j
         PROVE  Later(published'[i], published'[j])
    <3>1. CASE j \in 1..n
      <4>1. i \in 1..n BY <2>6, <2>10, <3>1
      <4> QED BY <2>5, <2>10, <3>1, <4>1 DEF Record
    <3>2. CASE j = n + 1 BY <2>5, <2>6, <2>8, <2>9, <3>2
    <3> QED BY <2>6, <3>1, <3>2
  <2> HIDE DEF n
  <2> QED BY <2>5, <2>7, <2>10 DEF Record
<1>3. ASSUME AgentHears PROVE UNCHANGED published
  BY <1>3 DEF AgentHears, Answers, Watched, Released, Answered, agent
<1>4. ASSUME NEW w \in Watches, Pushes(w) PROVE UNCHANGED published BY <1>4 DEF Pushes
<1>5. ASSUME ClientHears PROVE UNCHANGED published BY <1>5 DEF ClientHears, agent
<1>6. ASSUME NEW t \in Callers, CallsSnapshot(t) \/ Leaves(t) PROVE UNCHANGED published
  BY <1>6 DEF CallsSnapshot, Leaves, agent
<1>7. ASSUME NEW w \in Watches, CallsWatch(w) \/ Drops(w) \/ Takes(w) PROVE UNCHANGED published
  BY <1>7 DEF CallsWatch, Drops, Takes, agent
<1>8. ASSUME Ends PROVE UNCHANGED published BY <1>8 DEF Ends
<1>9. ASSUME UNCHANGED vars PROVE UNCHANGED published BY <1>9 DEF vars, agent
<1> QED BY <1>1, <1>2, <1>3, <1>4, <1>5, <1>6, <1>7, <1>8, <1>9 DEF Next, Agent, Client

-----------------------------------------------------------------------------
(***************************************************************************)
(* The wires as queues, and what each message is.                          *)
(***************************************************************************)
\* One more message on a queue, index by index.
LEMMA OnAppend ==
  ASSUME NEW T, NEW queue \in Seq(T), NEW m \in T
  PROVE  /\ Append(queue, m) \in Seq(T) /\ Len(Append(queue, m)) = Len(queue) + 1
         /\ Len(queue) \in Nat
         /\ \A i \in 1..Len(queue) : Append(queue, m)[i] = queue[i]
         /\ Append(queue, m)[Len(queue) + 1] = m
         /\ \A i \in 1..(Len(queue) + 1) : i \in 1..Len(queue) \/ i = Len(queue) + 1
OBVIOUS

\* One more message: it is of what is looked for, or it does not matter.
LEMMA LacksAppend ==
  ASSUME NEW T, NEW queue \in Seq(T), NEW m \in T, NEW S
  PROVE  /\ Lacks(Append(queue, m), S) <=> Lacks(queue, S) /\ m \notin S
         /\ AtMostOne(Append(queue, m), S) <=> AtMostOne(queue, S) /\ (m \in S => Lacks(queue, S))
<1> DEFINE more == Append(queue, m)
           n == Len(queue)
<1>1. /\ Len(more) = n + 1 /\ n \in Nat
      /\ \A i \in 1..n : more[i] = queue[i]
      /\ more[n + 1] = m
      /\ \A i \in 1..(n + 1) : i \in 1..n \/ i = n + 1
  BY OnAppend
<1>2. \A i \in 1..n : i \in 1..(n + 1) /\ i # n + 1 BY <1>1
<1>3. n + 1 \in 1..(n + 1) BY <1>1
<1> HIDE DEF more
<1>4. Lacks(more, S) <=> Lacks(queue, S) /\ m \notin S BY <1>1, <1>2, <1>3 DEF Lacks
<1>5. ASSUME AtMostOne(more, S)
      PROVE  AtMostOne(queue, S) /\ (m \in S => Lacks(queue, S))
  <2>1. ASSUME NEW i \in 1..n, NEW j \in 1..n, queue[i] \in S, queue[j] \in S
        PROVE  i = j
    BY <1>1, <1>2, <1>5, <2>1 DEF AtMostOne
  <2>2. ASSUME m \in S, NEW i \in 1..n, queue[i] \in S
        PROVE  FALSE
    BY <1>1, <1>2, <1>3, <1>5, <2>2 DEF AtMostOne
  <2> QED BY <2>1, <2>2 DEF AtMostOne, Lacks
<1>6. ASSUME AtMostOne(queue, S), m \in S => Lacks(queue, S)
      PROVE  AtMostOne(more, S)
  <2>1. SUFFICES ASSUME NEW i \in 1..(n + 1), NEW j \in 1..(n + 1), more[i] \in S, more[j] \in S
                 PROVE  i = j
    BY <1>1 DEF AtMostOne
  <2>2. CASE i \in 1..n /\ j \in 1..n BY <1>1, <1>6, <2>1, <2>2 DEF AtMostOne
  <2>3. CASE i \in 1..n /\ j = n + 1 BY <1>1, <1>6, <2>1, <2>3 DEF Lacks
  <2>4. CASE i = n + 1 /\ j \in 1..n BY <1>1, <1>6, <2>1, <2>4 DEF Lacks
  <2> QED BY <1>1, <2>2, <2>3, <2>4
<1> QED BY <1>4, <1>5, <1>6 DEF more

\* One message less, index by index.
LEMMA OnTail ==
  ASSUME NEW T, NEW queue \in Seq(T), queue # <<>>
  PROVE  /\ Tail(queue) \in Seq(T) /\ Head(queue) \in T /\ Head(queue) = queue[1]
         /\ Len(queue) \in Nat /\ Len(queue) >= 1 /\ Len(Tail(queue)) = Len(queue) - 1
         /\ \A i \in 1..Len(Tail(queue)) : i + 1 \in 1..Len(queue) /\ Tail(queue)[i] = queue[i + 1]
         /\ \A i \in 1..Len(queue) : i = 1 \/ (i - 1 \in 1..Len(Tail(queue)) /\ Tail(queue)[i - 1] = queue[i])
<1>1. Len(queue) \in Nat /\ Len(queue) >= 1 /\ Len(Tail(queue)) = Len(queue) - 1 OBVIOUS
<1>2. Tail(queue) \in Seq(T) /\ Head(queue) = queue[1] /\ Head(queue) \in T OBVIOUS
<1>3. ASSUME NEW i \in 1..Len(Tail(queue))
      PROVE  i + 1 \in 1..Len(queue) /\ Tail(queue)[i] = queue[i + 1]
  BY <1>1
<1>4. ASSUME NEW i \in 1..Len(queue), i # 1
      PROVE  i - 1 \in 1..Len(Tail(queue)) /\ Tail(queue)[i - 1] = queue[i]
  <2>1. i - 1 \in 1..Len(Tail(queue)) /\ (i - 1) + 1 = i BY <1>1, <1>4
  <2> QED BY <1>3, <2>1
<1> QED BY <1>1, <1>2, <1>3, <1>4

\* One message less.
LEMMA LacksTail ==
  ASSUME NEW T, NEW queue \in Seq(T), queue # <<>>, NEW S
  PROVE  /\ Lacks(queue, S) <=> Lacks(Tail(queue), S) /\ Head(queue) \notin S
         /\ AtMostOne(queue, S) =>
              AtMostOne(Tail(queue), S) /\ (Head(queue) \in S => Lacks(Tail(queue), S))
<1> DEFINE rest == Tail(queue)
<1>1. /\ Head(queue) = queue[1] /\ Len(queue) \in Nat /\ Len(queue) >= 1 /\ Len(rest) = Len(queue) - 1
      /\ \A i \in 1..Len(rest) : i + 1 \in 1..Len(queue) /\ rest[i] = queue[i + 1]
      /\ \A i \in 1..Len(queue) : i = 1 \/ (i - 1 \in 1..Len(rest) /\ rest[i - 1] = queue[i])
  BY OnTail
<1> HIDE DEF rest
<1>2. 1 \in 1..Len(queue) BY <1>1
<1>3. Lacks(queue, S) <=> Lacks(rest, S) /\ Head(queue) \notin S BY <1>1, <1>2 DEF Lacks
<1>4. ASSUME AtMostOne(queue, S)
      PROVE  AtMostOne(rest, S) /\ (Head(queue) \in S => Lacks(rest, S))
  <2>1. ASSUME NEW i \in 1..Len(rest), NEW j \in 1..Len(rest), rest[i] \in S, rest[j] \in S
        PROVE  i = j
    <3>1. i + 1 = j + 1 BY <1>1, <1>4, <2>1 DEF AtMostOne
    <3> QED BY <1>1, <3>1
  <2>2. ASSUME Head(queue) \in S, NEW i \in 1..Len(rest), rest[i] \in S
        PROVE  FALSE
    <3>1. i + 1 = 1 BY <1>1, <1>2, <1>4, <2>2 DEF AtMostOne
    <3> QED BY <1>1, <3>1
  <2> QED BY <2>1, <2>2 DEF AtMostOne, Lacks
<1> QED BY <1>3, <1>4 DEF rest

\* What is on its way for a caller that left is of no use.
LEMMA OnNotFor ==
  ASSUME NEW T, NEW queue \in Seq(T), Void \in T, NEW t
  PROVE  /\ NotFor(t, queue) \in Seq(T) /\ Len(NotFor(t, queue)) = Len(queue)
         /\ \A i \in 1..Len(queue) :
              \/ NotFor(t, queue)[i] = Void
              \/ /\ NotFor(t, queue)[i] = queue[i]
                 /\ ~(queue[i].kind \in {"get", "reply"} /\ queue[i].task = t)
         /\ \A i \in 1..Len(queue) :
              ~(queue[i].kind \in {"get", "reply"} /\ queue[i].task = t)
                => NotFor(t, queue)[i] = queue[i]
<1> DEFINE New(i) == IF queue[i].kind \in {"get", "reply"} /\ queue[i].task = t THEN Void ELSE queue[i]
<1>1. NotFor(t, queue) = [i \in 1..Len(queue) |-> New(i)] BY DEF NotFor
<1>2. \A i \in 1..Len(queue) : New(i) \in T OBVIOUS
<1>3. Len(queue) \in Nat OBVIOUS
<1> DEFINE left == [i \in 1..Len(queue) |-> New(i)]
<1>4. \A i \in 1..Len(queue) : left[i] = New(i) OBVIOUS
<1> HIDE DEF New
<1>5. left \in Seq(T) /\ Len(left) = Len(queue) BY <1>2, <1>3
<1>6. \A i \in 1..Len(queue) :
        \/ New(i) = Void
        \/ /\ New(i) = queue[i]
           /\ ~(queue[i].kind \in {"get", "reply"} /\ queue[i].task = t)
  BY DEF New
<1>7. \A i \in 1..Len(queue) :
        ~(queue[i].kind \in {"get", "reply"} /\ queue[i].task = t) => New(i) = queue[i]
  BY DEF New
<1> HIDE DEF left
<1> QED BY <1>1, <1>4, <1>5, <1>6, <1>7 DEF left

\* What is looked for on a queue a caller has left.
LEMMA LacksNotFor ==
  ASSUME NEW T, NEW queue \in Seq(T), Void \in T, NEW t, NEW S, Void \notin S
  PROVE  /\ Lacks(queue, S) => Lacks(NotFor(t, queue), S)
         /\ AtMostOne(queue, S) => AtMostOne(NotFor(t, queue), S)
         /\ (\A m \in S : m.kind \in {"get", "reply"} /\ m.task = t) => Lacks(NotFor(t, queue), S)
         /\ (\A m \in S : m.kind \notin {"get", "reply"}) =>
              (Lacks(NotFor(t, queue), S) => Lacks(queue, S))
<1> DEFINE left == NotFor(t, queue)
<1>1. /\ Len(left) = Len(queue)
      /\ \A i \in 1..Len(queue) :
           \/ left[i] = Void
           \/ /\ left[i] = queue[i]
              /\ ~(queue[i].kind \in {"get", "reply"} /\ queue[i].task = t)
      /\ \A i \in 1..Len(queue) :
           ~(queue[i].kind \in {"get", "reply"} /\ queue[i].task = t) => left[i] = queue[i]
  BY OnNotFor
<1> HIDE DEF left
<1>2. Lacks(queue, S) => Lacks(left, S) BY <1>1 DEF Lacks
<1>3. AtMostOne(queue, S) => AtMostOne(left, S) BY <1>1 DEF AtMostOne
<1>4. ASSUME \A m \in S : m.kind \in {"get", "reply"} /\ m.task = t
      PROVE  Lacks(left, S)
  BY <1>1, <1>4 DEF Lacks
<1>5. ASSUME \A m \in S : m.kind \notin {"get", "reply"}, Lacks(left, S)
      PROVE  Lacks(queue, S)
  BY <1>1, <1>5 DEF Lacks
<1> QED BY <1>2, <1>3, <1>4, <1>5 DEF left

\* What each message is, and whose.
LEMMA AGet ==
  ASSUME NEW t \in Tasks, NEW what \in What, NEW lists \in Snapshot, NEW m, m = Get(t, what, lists)
  PROVE  /\ m \in ToAgent /\ m.kind = "get" /\ m.task = t /\ m.what = what /\ m.tag = Etag(lists, what)
         /\ \A u, k : m \in GetsOf(u, k) <=> u = t /\ k = what
         /\ \A w : m \notin AnswersOf(w) /\ m \notin CallsFor(w) /\ m \notin ReleasesOf(w)
<1>1. Etag(lists, what) \in Nat BY DEF Etag, Snapshot, ProcessList, StateList, What
<1>2. m.kind = "get" /\ m.task = t /\ m.what = what /\ m.tag = Etag(lists, what) BY DEF Get
<1>3. m \in Gets BY <1>1 DEF Get, Gets
<1>4. m \in ToAgent BY <1>3 DEF ToAgent
<1> QED BY <1>2, <1>4 DEF GetsOf, AnswersOf, CallsFor, ReleasesOf

\* An answer to an update is one of its watch, and no other call.
LEMMA AnAnswer ==
  ASSUME NEW w \in Watches, NEW taken \in BOOLEAN, NEW m, m = Answer(w, taken)
  PROVE  /\ m \in ToAgent /\ m.kind = "answer" /\ m.watch = w /\ m.taken = taken
         /\ \A v : m \in AnswersOf(v) <=> v = w
         /\ \A u, k : m \notin GetsOf(u, k)
         /\ \A v : m \notin CallsFor(v) /\ m \notin ReleasesOf(v)
<1>1. m.kind = "answer" /\ m.watch = w /\ m.taken = taken /\ m \in ToAgent BY DEF Answer, ToAgent
<1> QED BY <1>1 DEF GetsOf, AnswersOf, CallsFor, ReleasesOf

\* A call for a watch is one of its watch, and no other call.
LEMMA ACall ==
  ASSUME NEW w \in Watches, NEW m, m = [kind |-> "watch", watch |-> w]
  PROVE  /\ m \in ToAgent /\ m.kind = "watch" /\ m.watch = w
         /\ \A v : m \in CallsFor(v) <=> v = w
         /\ \A u, k : m \notin GetsOf(u, k)
         /\ \A v : m \notin AnswersOf(v) /\ m \notin ReleasesOf(v)
<1>1. m.kind = "watch" /\ m.watch = w /\ m \in ToAgent BY DEF ToAgent
<1> QED BY <1>1 DEF GetsOf, AnswersOf, CallsFor, ReleasesOf

\* A release is one of its watch, and no other call.
LEMMA ARelease ==
  ASSUME NEW w \in Watches, NEW m, m = [kind |-> "release", watch |-> w]
  PROVE  /\ m \in ToAgent /\ m.kind = "release" /\ m.watch = w
         /\ \A v : m \in ReleasesOf(v) <=> v = w
         /\ \A u, k : m \notin GetsOf(u, k)
         /\ \A v : m \notin AnswersOf(v) /\ m \notin CallsFor(v)
<1>1. m.kind = "release" /\ m.watch = w /\ m \in ToAgent BY DEF ToAgent
<1> QED BY <1>1 DEF GetsOf, AnswersOf, CallsFor, ReleasesOf

\* A reply is one to its task about what it asked, and no push.
LEMMA AReply ==
  ASSUME NEW m \in Replies
  PROVE  /\ m \in ToClient /\ m.kind = "reply" /\ m.task \in Tasks /\ m.what \in What
         /\ m.part \in Nat \cup ProcessList \cup StateList \cup {None} /\ m.seen \in Nat
         /\ \A u, k : m \in RepliesOf(u, k) <=> u = m.task /\ k = m.what
         /\ \A w : m \notin UpdatesOf(w) /\ m \notin RefusalsOf(w)
<1>1. m.kind = "reply" /\ m.task \in Tasks /\ m.what \in What
      /\ m.part \in Nat \cup ProcessList \cup StateList \cup {None} /\ m.seen \in Nat
  BY DEF Replies, RepliesWith, What
<1>2. m \in ToClient BY DEF ToClient
<1> QED BY <1>1, <1>2 DEF RepliesOf, UpdatesOf, RefusalsOf

\* An update is one of its watch, and no reply.
LEMMA AnUpdate ==
  ASSUME NEW m \in Updates
  PROVE  /\ m \in ToClient /\ m.kind = "update" /\ m.watch \in Watches /\ m.sample \in Nat
         /\ m.known \in BOOLEAN /\ m.lists \in UpdateLists
         /\ \A v : m \in UpdatesOf(v) <=> v = m.watch
         /\ \A u, k : m \notin RepliesOf(u, k)
         /\ \A w : m \notin RefusalsOf(w)
<1>1. m.kind = "update" /\ m.watch \in Watches /\ m.sample \in Nat
      /\ m.known \in BOOLEAN /\ m.lists \in UpdateLists
  BY DEF Updates
<1>2. m \in ToClient BY DEF ToClient
<1> QED BY <1>1, <1>2 DEF RepliesOf, UpdatesOf, RefusalsOf

\* What a call for a watch hears is a refusal, or is not.
LEMMA AWatching ==
  ASSUME NEW w \in Watches, NEW taken \in BOOLEAN,
         NEW m, m = [kind |-> "watching", watch |-> w, taken |-> taken]
  PROVE  /\ m \in ToClient /\ m.kind = "watching" /\ m.watch = w /\ m.taken = taken
         /\ \A v : m \in RefusalsOf(v) <=> v = w /\ ~taken
         /\ \A u, k : m \notin RepliesOf(u, k)
         /\ \A v : m \notin UpdatesOf(v)
<1>1. m.kind = "watching" /\ m.watch = w /\ m.taken = taken OBVIOUS
<1>2. m \in ToClient BY DEF ToClient
<1> QED BY <1>1, <1>2 DEF RepliesOf, UpdatesOf, RefusalsOf

\* What is of no use is none of them.
LEMMA AVoid ==
  /\ Void \in ToAgent /\ Void \in ToClient /\ Void.kind = "void"
  /\ \A u, k : Void \notin GetsOf(u, k) /\ Void \notin RepliesOf(u, k)
  /\ \A w : /\ Void \notin AnswersOf(w) /\ Void \notin CallsFor(w) /\ Void \notin ReleasesOf(w)
            /\ Void \notin UpdatesOf(w) /\ Void \notin RefusalsOf(w)
<1>1. Void.kind = "void" /\ Void \in ToAgent /\ Void \in ToClient BY DEF Void, ToAgent, ToClient
<1> QED BY <1>1 DEF GetsOf, RepliesOf, AnswersOf, CallsFor, ReleasesOf, UpdatesOf, RefusalsOf

\* A message is what its kind says.
LEMMA AgentHearsOf ==
  ASSUME NEW m \in ToAgent
  PROVE  /\ m.kind = "get" => m \in Gets /\ m \in GetsOf(m.task, m.what)
         /\ m.kind = "watch" => m.watch \in Watches /\ m \in CallsFor(m.watch)
         /\ m.kind = "release" => m.watch \in Watches /\ m \in ReleasesOf(m.watch)
         /\ m.kind = "answer" => m.watch \in Watches /\ m.taken \in BOOLEAN /\ m \in AnswersOf(m.watch)
<1>1. CASE m \in Gets BY <1>1 DEF Gets, GetsOf
<1>2. CASE m \in [kind : {"watch", "release"}, watch : Watches] BY <1>2 DEF CallsFor, ReleasesOf
<1>3. CASE m \in [kind : {"answer"}, watch : Watches, taken : BOOLEAN] BY <1>3 DEF AnswersOf
<1>4. CASE m = Void BY <1>4 DEF Void
<1> QED BY <1>1, <1>2, <1>3, <1>4 DEF ToAgent

\* And so it is at the client.
LEMMA ClientHearsOf ==
  ASSUME NEW m \in ToClient
  PROVE  /\ m.kind = "reply" => m \in Replies
         /\ m.kind = "update" => m \in Updates
         /\ m.kind = "watching" => /\ m.watch \in Watches /\ m.taken \in BOOLEAN
                                   /\ ~m.taken => m \in RefusalsOf(m.watch)
<1>1. CASE m \in Replies BY <1>1, AReply
<1>2. CASE m \in Updates BY <1>2, AnUpdate
<1>3. CASE m \in [kind : {"watching"}, watch : Watches, taken : BOOLEAN] BY <1>3 DEF RefusalsOf
<1>4. CASE m = Void BY <1>4 DEF Void
<1> QED BY <1>1, <1>2, <1>3, <1>4 DEF ToClient

-----------------------------------------------------------------------------
(***************************************************************************)
(* Each part of the state is what it should be.                            *)
(***************************************************************************)
\* An update of typed snapshots is typed.
LEMMA UpdateTyped ==
  ASSUME NEW known \in BOOLEAN, NEW before \in Snapshot, NEW after \in Snapshot
  PROVE  Update(known, before, after) \in UpdateLists
<1> DEFINE left == Changes(before, after).left
<1>1. /\ after.services \in Nat /\ after.processes \in ProcessList /\ after.states \in StateList
      /\ before.processes \in ProcessList /\ before.states \in StateList
  BY DEF Snapshot
<1>2. /\ after.processes.etag \in Nat /\ after.states.etag \in Nat
      /\ before.processes.etag \in Nat /\ before.states.etag \in Nat
      /\ after.processes.rows \in SUBSET Row /\ after.states.rows \in SUBSET Row
      /\ before.processes.rows \in SUBSET Row
  BY <1>1 DEF ProcessList, StateList
<1>3. \A key \in left : key[2] \in Nat
  <2>1. \A row \in before.processes.rows : Key(row)[2] \in Nat BY <1>2 DEF Key, Row
  <2>2. \A key \in Keys(before.processes.rows) : key[2] \in Nat BY <2>1 DEF Keys
  <2>3. left \subseteq Keys(before.processes.rows) BY DEF Changes, Gone
  <2> QED BY <2>2, <2>3
<1> HIDE DEF left
<1>4. ASSUME NEW list, NEW base, NEW keys, list.rows \in SUBSET Row, base.etag \in Nat
      PROVE  Whole(list) \in Telling /\ Told(list, base, left, keys) \in Telling
  <2>1. Whole(list) \in Telling BY <1>4 DEF Whole, Telling
  <2>2. {key[2] : key \in left} \in SUBSET Nat BY <1>3
  <2>3. Found(list.rows, keys) \in SUBSET Row BY <1>4 DEF Found
  <2>4. Delta(list, base, left, keys) \in [form : {"delta"}, base : Nat, left : SUBSET Nat, upserted : SUBSET Row]
    BY <1>4, <2>2, <2>3 DEF Delta
  <2>5. Told(list, base, left, keys) \in Telling BY <2>4 DEF Told, Telling
  <2> QED BY <2>1, <2>5
<1>5. /\ Whole(after.processes) \in Telling /\ Whole(after.states) \in Telling
      /\ Told(after.processes, before.processes, left, Changes(before, after).passports) \in Telling
      /\ Told(after.states, before.states, left, Changes(before, after).states) \in Telling
  BY <1>2, <1>4
<1> QED BY <1>1, <1>2, <1>5 DEF Update, UpdateLists, left

\* What is decoded from an update is a snapshot.
LEMMA DecodedTyped ==
  ASSUME NEW before \in Snapshot, NEW update \in UpdateLists
  PROVE  Decoded(before, update) \in Snapshot
<1>1. /\ before.processes.rows \in SUBSET Row /\ before.states.rows \in SUBSET Row
  BY DEF Snapshot, ProcessList, StateList
<1>2. /\ update.passport_etag \in Nat /\ update.states_etag \in Nat /\ update.services_etag \in Nat
      /\ update.passports \in Telling /\ update.states \in Telling
  BY DEF UpdateLists
<1>3. ASSUME NEW list, list.rows \in SUBSET Row, NEW told \in Telling
      PROVE  Applied(list, told) \in SUBSET Row
  <2>1. CASE told \in [form : {"full"}, rows : SUBSET Row] BY <2>1 DEF Applied
  <2>2. CASE told = Unchanged BY <1>3, <2>2 DEF Applied, Unchanged
  <2>3. CASE told \in [form : {"delta"}, base : Nat, left : SUBSET Nat, upserted : SUBSET Row]
    <3>1. Applied(list, told) = Merge(list.rows, told.left, told.upserted) BY <2>3 DEF Applied
    <3>2. told.upserted \in SUBSET Row BY <2>3
    <3> QED BY <1>3, <3>1, <3>2 DEF Merge
  <2> QED BY <2>1, <2>2, <2>3 DEF Telling
<1>4. /\ Applied(before.processes, update.passports) \in SUBSET Row
      /\ Applied(before.states, update.states) \in SUBSET Row
  BY <1>1, <1>2, <1>3
<1> QED BY <1>2, <1>4 DEF Decoded, Snapshot, ProcessList, StateList

\* What is kept of a reply leaves the cache a snapshot.
LEMMA KeptTyped ==
  ASSUME NEW c \in Snapshot, NEW reply \in Replies
  PROVE  Kept(c, reply) \in Snapshot
<1>1. CASE reply.part = None BY <1>1 DEF Kept
<1>2. CASE reply.part # None /\ reply \in RepliesWith("services", Nat)
  BY <1>2 DEF Kept, RepliesWith, Snapshot
<1>3. CASE reply.part # None /\ reply \in RepliesWith("processes", ProcessList)
  BY <1>3 DEF Kept, RepliesWith, Snapshot
<1>4. CASE reply.part # None /\ reply \in RepliesWith("states", StateList)
  BY <1>4 DEF Kept, RepliesWith, Snapshot
<1> QED BY <1>1, <1>2, <1>3, <1>4 DEF Replies

\* Where a task goes on to.
LEMMA GoesFields ==
  ASSUME NEW t, tasks[t] \in Task, NEW c \in Snapshot, NEW next, next = Goes(t, c)
  PROVE  /\ next \in Task
         /\ next.got = <<>> /\ next.since = tasks[t].since /\ next.sample = tasks[t].sample
         /\ Over(t, c) => next.at = "done" /\ next.result = (IF Joined(c) THEN c ELSE None)
         /\ ~Over(t, c) => /\ next.at = FetchesNext(t) /\ next.result = tasks[t].result
                           /\ next.tries = IF FetchesNext(t) = "processes" THEN tasks[t].tries + 1
                                           ELSE tasks[t].tries
         /\ Over(t, c) => next.tries = tasks[t].tries
<1>1. FetchesNext(t) \in {"processes", "states"} BY DEF FetchesNext
<1> DEFINE gots == Seq(Replies)
<1>9. <<>> \in gots OBVIOUS
<1>10. /\ tasks[t] \in [at : {"idle", "three", "processes", "states", "done"}, tries : Nat,
                       since : Nat, got : gots, sample : Nat, result : Snapshot \cup {None}]
       /\ Task = [at : {"idle", "three", "processes", "states", "done"}, tries : Nat,
                  since : Nat, got : gots, sample : Nat, result : Snapshot \cup {None}]
  BY DEF Task
<1> HIDE DEF gots
<1>2. CASE Over(t, c)
  <2> DEFINE result == IF Joined(c) THEN c ELSE None
  <2>1. result \in Snapshot \cup {None} OBVIOUS
  <2>2. next = [tasks[t] EXCEPT !.at = "done", !.got = <<>>, !.result = result]
    BY <1>2 DEF Goes, Done
  <2> HIDE DEF result
  <2>3. /\ next \in Task /\ next.got = <<>> /\ next.since = tasks[t].since
        /\ next.sample = tasks[t].sample /\ next.at = "done" /\ next.result = result
        /\ next.tries = tasks[t].tries
    BY <1>9, <1>10, <2>1, <2>2
  <2> QED BY <1>2, <2>3 DEF result
<1>3. CASE ~Over(t, c)
  <2> DEFINE to == FetchesNext(t)
             tried == IF to = "processes" THEN tasks[t].tries + 1 ELSE tasks[t].tries
  <2>1. tried \in Nat BY <1>10
  <2>2. next = [tasks[t] EXCEPT !.at = to, !.got = <<>>, !.tries = tried] BY <1>3 DEF Goes
  <2> HIDE DEF tried, to
  <2>3. to \in {"processes", "states"} BY <1>1 DEF to
  <2>4. /\ next \in Task /\ next.got = <<>> /\ next.since = tasks[t].since
        /\ next.sample = tasks[t].sample /\ next.at = to /\ next.result = tasks[t].result
        /\ next.tries = tried
    BY <1>9, <1>10, <2>1, <2>2, <2>3
  <2> QED BY <1>3, <2>4 DEF tried, to
<1> QED BY <1>2, <1>3

\* The reply to a call that asks is one.
LEMMA ReplyFields ==
  ASSUME Latest \in Snapshot, Len(published) \in Nat, NEW call \in Gets, NEW reply, reply = Reply(call)
  PROVE  /\ reply \in Replies /\ reply.task = call.task /\ reply.what = call.what
         /\ reply.seen = Len(published)
         /\ reply.part = IF NotModified(call.tag, call.what) THEN None ELSE Part(Latest, call.what)
<1>1. call.task \in Tasks /\ call.what \in What BY DEF Gets
<1> DEFINE part == IF NotModified(call.tag, call.what) THEN None ELSE Part(Latest, call.what)
<1>2. /\ call.what = "services" => part \in Nat \cup {None}
      /\ call.what = "processes" => part \in ProcessList \cup {None}
      /\ call.what = "states" => part \in StateList \cup {None}
  BY DEF Part, Snapshot
<1>3. reply = [kind |-> "reply", task |-> call.task, what |-> call.what, part |-> part,
               seen |-> Len(published)]
  BY DEF Reply
<1> HIDE DEF part
<1>4. /\ call.what = "services" => reply \in RepliesWith("services", Nat)
      /\ call.what = "processes" => reply \in RepliesWith("processes", ProcessList)
      /\ call.what = "states" => reply \in RepliesWith("states", StateList)
  BY <1>1, <1>2, <1>3 DEF RepliesWith
<1>5. reply \in Replies BY <1>1, <1>4 DEF Replies, What
<1> QED BY <1>3, <1>5 DEF part

\* A task as it asks.
LEMMA AsksFields ==
  ASSUME NEW t, published \in Seq(Snapshot), NEW asks, asks = Asks(t)
  PROVE  /\ asks \in Task /\ asks.at = "three" /\ asks.tries = 0 /\ asks.since = Len(published)
         /\ asks.got = <<>> /\ asks.sample = 0 /\ asks.result = None
<1>1. Len(published) \in Nat /\ <<>> \in Seq(Replies) OBVIOUS
<1>2. asks = [at |-> "three", tries |-> 0, since |-> Len(published), got |-> <<>>, sample |-> 0,
              result |-> None]
  BY DEF Asks, Idle
<1> QED BY <1>1, <1>2 DEF Task

\* A task as it rests.
LEMMA IdleFields ==
  /\ Idle \in Task /\ Idle.at = "idle" /\ Idle.tries = 0 /\ Idle.since = 0
  /\ Idle.got = <<>> /\ Idle.sample = 0 /\ Idle.result = None
BY DEF Idle, Task

\* What is handed over: it can be told from nothing.
LEMMA GivesFields ==
  ASSUME NEW sample \in Nat, NEW snapshot \in Snapshot, NEW full \in BOOLEAN,
         NEW gives, gives = Gives(sample, snapshot, full)
  PROVE  /\ gives \in Delivery /\ gives # None /\ ~gives.failed
         /\ gives.sample = sample /\ gives.snapshot = snapshot
<1>1. gives \in Delivery BY DEF Gives, Delivery
<1>2. gives # None BY <1>1, NoneAssumption
<1> QED BY <1>1, <1>2 DEF Gives

\* Three things are asked for, one after the other.
LEMMA ThreeAsked ==
  ASSUME NEW T, NEW queue \in Seq(T), NEW a \in T, NEW b \in T, NEW c \in T
  PROVE  queue \o <<a, b, c>> = Append(Append(Append(queue, a), b), c)
OBVIOUS

\* Two messages sent at once are sent one after the other.
LEMMA TwoSent ==
  ASSUME NEW T, NEW queue \in Seq(T), NEW a \in T, NEW b \in T
  PROVE  queue \o <<a>> \o <<b>> = Append(Append(queue, a), b)
OBVIOUS

\* And so is one.
LEMMA OneSent ==
  ASSUME NEW T, NEW queue \in Seq(T), NEW b \in T
  PROVE  queue \o <<>> \o <<b>> = Append(queue, b)
OBVIOUS

(***************************************************************************)
(* What an answer to a task does, a case at a time.                        *)
(***************************************************************************)
\* An answer to a task is collected, or the task reads on, concludes or resyncs.
LEMMA ReplyCases ==
  ASSUME Typed, NEW m \in Replies, HearsReply(m), NEW t, t = m.task
  PROVE  /\ UNCHANGED <<calls, watches, resynced>> /\ t \in Tasks
         /\ \/ Collects(t, m)
            \/ \E k \in Snapshot :
                 /\ k = KeptOf(t, m) /\ (tasks[t].at = "three" => Len(Got(t, m)) = 3)
                 /\ ReadsOn(t, k) \/ Concludes(t, k) \/ Resyncs(t, k)
<1> DEFINE got == Got(t, m)
<1>1. t \in Tasks /\ tasks[t] \in Task /\ cache \in Snapshot BY AReply, SMTT(20) DEF Typed
<1>2. UNCHANGED <<calls, watches, resynced>> BY DEF HearsReply
<1>3. tasks[t].got \in Seq(Replies) BY <1>1 DEF Task
<1>4. got \in Seq(Replies) /\ Len(got) >= 1 /\ Len(got) \in Nat /\ \A i \in 1..Len(got) : got[i] \in Replies
  BY <1>3, SMTT(20) DEF Got
<1>5. CASE tasks[t].at = "three" /\ Len(got) # 3
  <2>1. tasks' = [tasks EXCEPT ![t] = [tasks[t] EXCEPT !.got = got]]
    BY <1>5, <1>1 DEF HearsReply, Got, Typed
  <2>2. UNCHANGED <<to_agent, waiting, listeners, cache>> BY <1>5 DEF HearsReply, Got
  <2> QED BY <1>1, <1>2, <1>5, <2>1, <2>2 DEF Collects
<1>6. CASE tasks[t].at = "three" => Len(got) = 3
  <2>1. KeptOf(t, m) \in Snapshot
    <3>1. CASE tasks[t].at = "three"
      <4>1. got[1] \in Replies /\ got[2] \in Replies /\ got[3] \in Replies BY <1>4, <1>6, <3>1
      <4> HIDE DEF got
      <4>2. Kept(cache, got[1]) \in Snapshot BY <1>1, <4>1, KeptTyped
      <4>3. Kept(Kept(cache, got[1]), got[2]) \in Snapshot BY <4>1, <4>2, KeptTyped
      <4>4. Kept(Kept(Kept(cache, got[1]), got[2]), got[3]) \in Snapshot BY <4>1, <4>3, KeptTyped
      <4>5. KeptOf(t, m) = Kept(Kept(Kept(cache, got[1]), got[2]), got[3]) BY <3>1 DEF KeptOf, got
      <4> QED BY <4>4, <4>5
    <3>2. CASE tasks[t].at # "three"
      <4>1. got[1] \in Replies BY <1>4
      <4>2. Kept(cache, got[1]) \in Snapshot BY <1>1, <4>1, KeptTyped
      <4> QED BY <3>2, <4>2 DEF KeptOf
    <3> QED BY <3>1, <3>2
  <2>2. PICK k \in Snapshot : k = KeptOf(t, m) BY <2>1
  <2>3. PICK next : next = Goes(t, k) OBVIOUS
  <2>4. /\ Over(t, k) => next.at = "done" /\ next.result = (IF Joined(k) THEN k ELSE None)
        /\ ~Over(t, k) => next.at = FetchesNext(t)
    BY <1>1, <2>3, GoesFields
  <2>5. FetchesNext(t) # "done" BY DEF FetchesNext
  <2>6. k # None BY NoneAssumption, SMTT(20)
  <2>7. /\ cache' = k
        /\ IF t \in Watches /\ next.at = "done"
           THEN /\ tasks' = [tasks EXCEPT ![t] = Idle]
                /\ IF next.result = None
                   THEN HandsOver(t, Failed) /\ UNCHANGED listeners
                   ELSE /\ listeners' = [listeners EXCEPT ![t] = next.result]
                        /\ HandsOver(t, Gives(tasks[t].sample, next.result, TRUE))
           ELSE /\ tasks' = [tasks EXCEPT ![t] = next]
                /\ to_agent' = IF next.at = "done" THEN to_agent
                               ELSE Append(to_agent, Get(t, next.at, k))
                /\ UNCHANGED <<waiting, listeners>>
    <3>1. k = IF tasks[t].at = "three" THEN Kept(Kept(Kept(cache, got[1]), got[2]), got[3])
              ELSE Kept(cache, got[1])
      BY <2>2 DEF KeptOf
    <3>2. got = Append(tasks[t].got, m) BY DEF Got
    <3> HIDE DEF got
    <3> QED BY <1>6, <2>3, <3>1, <3>2 DEF HearsReply, HandsOver
  <2>8. CASE ~Over(t, k)
    <3>1. ReadsOn(t, k) BY <2>3, <2>4, <2>5, <2>7, <2>8 DEF ReadsOn
    <3> QED BY <1>1, <1>2, <1>6, <2>2, <3>1
  <2>9. CASE Over(t, k) /\ t \notin Watches
    <3>1. Concludes(t, k) BY <2>3, <2>4, <2>7, <2>9 DEF Concludes
    <3> QED BY <1>1, <1>2, <1>6, <2>2, <3>1
  <2>10. CASE Over(t, k) /\ t \in Watches
    <3>1. Resyncs(t, k)
      <4>1. CASE Joined(k) BY <2>4, <2>6, <2>7, <2>10, <4>1 DEF Resyncs, HandsOver
      <4>2. CASE ~Joined(k) BY <2>4, <2>7, <2>10, <4>2 DEF Resyncs, HandsOver
      <4> QED BY <4>1, <4>2
    <3> QED BY <1>1, <1>2, <1>6, <2>2, <3>1
  <2> QED BY <2>8, <2>9, <2>10
<1> QED BY <1>5, <1>6

\* What the client hears, by the message that heads its wire.
LEMMA ClientCases ==
  ASSUME Typed, ClientHears
  PROVE  \E m \in ToClient :
           /\ m = Head(to_client) /\ to_client # <<>> /\ to_client' = Tail(to_client)
           /\ UNCHANGED <<agent, open>>
           /\ \/ HearsWatching(m)
              \/ m \in Updates /\ HearsUpdate(m)
              \/ m \in Replies /\ HearsReply(m)
              \/ HearsNothing(m)
<1>1. to_client \in Seq(ToClient) /\ to_client # <<>> /\ to_client' = Tail(to_client)
      /\ UNCHANGED <<agent, open>>
  BY DEF ClientHears, Typed
<1>2. PICK m \in ToClient : m = Head(to_client) BY <1>1
<1>3. CASE HearsWatching(Head(to_client))
  <2>1. HearsWatching(m) BY <1>2, <1>3 DEF HearsWatching
  <2> QED BY <1>1, <1>2, <2>1
<1>4. CASE HearsUpdate(Head(to_client))
  <2>1. HearsUpdate(m) BY <1>2, <1>4 DEF HearsUpdate
  <2>2. m.kind = "update" BY <2>1 DEF HearsUpdate
  <2> QED BY <1>1, <1>2, <2>1, <2>2, ClientHearsOf
<1>5. CASE HearsReply(Head(to_client))
  <2>1. HearsReply(m) BY <1>2, <1>5, SMTT(20)
  <2>2. m.kind = "reply" BY <2>1 DEF HearsReply
  <2> QED BY <1>1, <1>2, <2>1, <2>2, ClientHearsOf
<1>6. CASE HearsNothing(Head(to_client))
  <2>1. HearsNothing(m) BY <1>2, <1>6 DEF HearsNothing
  <2> QED BY <1>1, <1>2, <2>1
<1> QED BY <1>3, <1>4, <1>5, <1>6 DEF ClientHears

\* What the agent hears, by the call that heads its wire.
LEMMA AgentCases ==
  ASSUME Typed, AgentHears
  PROVE  \E m \in ToAgent :
           /\ m = Head(to_agent) /\ to_agent # <<>> /\ to_agent' = Tail(to_agent)
           /\ UNCHANGED <<reading, listeners, cache, tasks, resynced, open>>
           /\ \/ m \in Gets /\ Answers(m)
              \/ m.watch \in Watches /\ m \in CallsFor(m.watch) /\ Watched(m)
              \/ m.watch \in Watches /\ m \in ReleasesOf(m.watch) /\ Released(m)
              \/ m.watch \in Watches /\ m.taken \in BOOLEAN /\ m \in AnswersOf(m.watch) /\ Answered(m)
              \/ m.kind = "void" /\ UNCHANGED <<agent, to_client>>
<1>1. to_agent \in Seq(ToAgent) /\ to_agent # <<>> /\ to_agent' = Tail(to_agent)
      /\ UNCHANGED <<reading, listeners, cache, tasks, resynced, open>>
  BY DEF AgentHears, Typed
<1>2. PICK m \in ToAgent : m = Head(to_agent) BY <1>1
<1>3. CASE Answers(Head(to_agent))
  <2>1. Answers(m) /\ m.kind = "get" BY <1>2, <1>3 DEF Answers
  <2> QED BY <1>1, <1>2, <2>1, AgentHearsOf
<1>4. CASE Watched(Head(to_agent))
  <2>1. Watched(m) /\ m.kind = "watch" BY <1>2, <1>4 DEF Watched
  <2> QED BY <1>1, <1>2, <2>1, AgentHearsOf
<1>5. CASE Released(Head(to_agent))
  <2>1. Released(m) /\ m.kind = "release" BY <1>2, <1>5 DEF Released
  <2> QED BY <1>1, <1>2, <2>1, AgentHearsOf
<1>6. CASE Answered(Head(to_agent))
  <2>1. Answered(m) /\ m.kind = "answer" BY <1>2, <1>6 DEF Answered
  <2> QED BY <1>1, <1>2, <2>1, AgentHearsOf
<1>7. CASE Head(to_agent).kind = "void" /\ UNCHANGED <<agent, to_client>> BY <1>1, <1>2, <1>7
<1> QED BY <1>3, <1>4, <1>5, <1>6, <1>7 DEF AgentHears

\* What hears of an update, or of the end of a resync.
LEMMA HandsOverTyped ==
  ASSUME Typed, NEW w \in Watches, NEW d \in Delivery \cup {Failed}, HandsOver(w, d)
  PROVE  /\ waiting' \in [Watches -> Delivery \cup {Failed, None}]
         /\ to_agent' \in Seq(ToAgent)
         /\ \/ /\ watches[w].at = "dropped" /\ waiting' = waiting
               /\ to_agent' = Append(to_agent, Answer(w, FALSE))
            \/ watches[w].at # "dropped" /\ to_agent' = to_agent /\ waiting' = [waiting EXCEPT ![w] = d]
<1>1. Answer(w, FALSE) \in ToAgent BY AnAnswer
<1>2. to_agent \in Seq(ToAgent) /\ waiting \in [Watches -> Delivery \cup {Failed, None}]
  BY DEF Typed
<1>3. CASE watches[w].at = "dropped"
  <2>1. waiting' = waiting /\ to_agent' = Append(to_agent, Answer(w, FALSE)) BY <1>3 DEF HandsOver
  <2>2. to_agent' \in Seq(ToAgent) BY <1>1, <1>2, <2>1, OnAppend
  <2> QED BY <1>2, <1>3, <2>1, <2>2
<1>4. CASE watches[w].at # "dropped"
  <2>1. waiting' = [waiting EXCEPT ![w] = d] /\ to_agent' = to_agent BY <1>4 DEF HandsOver
  <2> QED BY <1>2, <1>4, <2>1
<1> QED BY <1>3, <1>4

\* The first picture, and the cache of a new session, are snapshots.
LEMMA FirstTyped == First \in Snapshot /\ Cache \in Snapshot
BY DEF First, Cache, Nothing, Snapshot, ProcessList, StateList

\* A push that is not there, and one that ended.
LEMMA PushFields ==
  /\ NoPush \in Push /\ NoPush.at = "none" /\ NoPush.last = 0 /\ NoPush.before = 0
  /\ EndedPush \in Push /\ EndedPush.at = "ended" /\ EndedPush.last = 0 /\ EndedPush.before = 0
BY DEF NoPush, EndedPush, Push

\* A session starts typed.
LEMMA TypedAtFirst ==
  ASSUME Init PROVE Typed
<1>1. slots \in [Watches -> Nat] /\ handles \in [Watches -> {"none", "held", "dropped"}] /\ held \in Int
  BY DEF Init
<1>2. pushes \in [Watches -> [at : {"none", "next", "sent", "ended"}, last : Nat, before : Nat]]
  BY PushFields DEF Init, Push
<1>3. to_agent \in Seq(ToAgent) /\ to_client \in Seq(ToClient) /\ calls \in Nat BY DEF Init
<1>4. watches \in [Watches -> [at : {"new", "asked", "on", "refused", "dropped"}, beside : Nat]]
  BY DEF Init
<1>5. listeners \in [Watches -> Snapshot \cup {None}] /\ waiting \in [Watches -> Delivery \cup {Failed, None}]
  BY DEF Init
<1>6. cache \in Snapshot BY FirstTyped DEF Init
<1>7. tasks \in [Tasks -> Task] /\ resynced \subseteq Watches BY IdleFields DEF Init
<1> QED BY <1>1, <1>2, <1>3, <1>4, <1>5, <1>6, <1>7 DEF Typed

\* The agent's picture, and what it hears.
LEMMA TypedByAgent ==
  ASSUME Typed, Record, Onward, Publishes \/ AgentHears \/ \E w \in Watches : Pushes(w)
  PROVE  Typed'
<1> USE DEF Push
<1>1. published \in Seq(Snapshot) /\ Latest \in Snapshot /\ Len(published) \in Nat
  BY DEF Record, Latest
<1>2. CASE Publishes
  <2>1. slots' \in [Watches -> Nat]
    <3>1. PICK due \in SUBSET Subscribed :
            slots' = [w \in Watches |-> IF w \in due THEN Len(published) + 1 ELSE slots[w]]
      BY <1>2 DEF Publishes
    <3> QED BY <1>1, <3>1 DEF Typed
  <2> QED BY <1>2, <2>1 DEF Publishes, Typed, wires, reading
<1>3. CASE AgentHears
  <2>1. PICK m \in ToAgent :
           /\ m = Head(to_agent) /\ to_agent # <<>> /\ to_agent' = Tail(to_agent)
           /\ UNCHANGED <<reading, listeners, cache, tasks, resynced, open>>
           /\ \/ m \in Gets /\ Answers(m)
              \/ m.watch \in Watches /\ m \in CallsFor(m.watch) /\ Watched(m)
              \/ m.watch \in Watches /\ m \in ReleasesOf(m.watch) /\ Released(m)
              \/ m.watch \in Watches /\ m.taken \in BOOLEAN /\ m \in AnswersOf(m.watch) /\ Answered(m)
              \/ m.kind = "void" /\ UNCHANGED <<agent, to_client>>
    BY <1>3, AgentCases
  <2>2. /\ to_agent' \in Seq(ToAgent)
        /\ UNCHANGED <<calls, watches, waiting, listeners, cache, tasks, resynced>>
    BY <2>1 DEF Typed, reading
  <2>3. CASE m \in Gets /\ Answers(m)
    <3>1. Reply(m) \in ToClient
      <4>1. Len(published) \in Nat BY DEF Record
      <4> QED BY <1>1, <2>3, <4>1, ReplyFields, AReply
    <3>2. to_client' \in Seq(ToClient) BY <2>3, <3>1 DEF Answers, Typed
    <3> QED BY <2>2, <2>3, <3>2 DEF Answers, Typed, agent
  <2>4. CASE m.watch \in Watches /\ m \in CallsFor(m.watch) /\ Watched(m)
    <3>1. PICK w \in Watches : w = m.watch BY <2>4
    <3>2. PICK taken \in BOOLEAN : taken = ~Full OBVIOUS
    <3> DEFINE watching == [kind |-> "watching", watch |-> w, taken |-> taken]
    <3>3. to_client' \in Seq(ToClient)
      <4>1. to_client' = Append(to_client, watching) BY <2>4, <3>1, <3>2 DEF Watched
      <4>2. watching \in ToClient BY AWatching
      <4> HIDE DEF watching
      <4> QED BY <4>1, <4>2, OnAppend DEF Typed
    <3>4. CASE Full BY <2>2, <2>4, <3>3, <3>4 DEF Watched, Typed, agent
    <3>5. CASE ~Full
      <4>1. /\ held' = held + 1
            /\ handles' = [handles EXCEPT ![w] = "held"]
            /\ pushes' = [pushes EXCEPT ![w].at = "next"]
            /\ \E delivered \in {0, Len(published)} : slots' = [slots EXCEPT ![w] = delivered]
        BY <2>4, <3>1, <3>5 DEF Watched
      <4>2. slots' \in [Watches -> Nat] BY <1>1, <4>1 DEF Typed
      <4>3. pushes' \in [Watches -> Push]
        <5>1. pushes[w] \in Push /\ pushes \in [Watches -> Push] BY DEF Typed
        <5>2. [pushes[w] EXCEPT !.at = "next"] \in Push BY <5>1
        <5>3. pushes' = [pushes EXCEPT ![w] = [pushes[w] EXCEPT !.at = "next"]] BY <4>1, <5>1
        <5> QED BY <5>1, <5>2, <5>3
      <4>4. handles' \in [Watches -> {"none", "held", "dropped"}] /\ held' \in Int
        BY <4>1 DEF Typed
      <4> QED BY <2>2, <3>3, <4>2, <4>3, <4>4 DEF Typed
    <3> QED BY <3>4, <3>5
  <2>5. CASE m.watch \in Watches /\ m \in ReleasesOf(m.watch) /\ Released(m)
    <3>1. PICK w \in Watches : w = m.watch BY <2>5
    <3>2. to_client' = to_client /\ held' \in Int BY <2>5 DEF Released, GivenBack, Typed
    <3>3. CASE handles[w] = "held"
      <4>1. /\ handles' = [handles EXCEPT ![w] = "dropped"]
            /\ pushes' = [pushes EXCEPT ![w] = EndedPush]
            /\ slots' = [slots EXCEPT ![w] = 0]
        BY <2>5, <3>1, <3>3 DEF Released
      <4>2. slots' \in [Watches -> Nat] /\ handles' \in [Watches -> {"none", "held", "dropped"}]
        BY <4>1 DEF Typed
      <4>3. pushes' \in [Watches -> Push] BY <4>1, PushFields DEF Typed
      <4> QED BY <2>2, <3>2, <4>2, <4>3 DEF Typed
    <3>4. CASE handles[w] # "held" BY <2>2, <2>5, <3>1, <3>2, <3>4 DEF Released, Typed
    <3> QED BY <3>3, <3>4
  <2>6. CASE m.watch \in Watches /\ m \in AnswersOf(m.watch) /\ Answered(m)
    <3>1. PICK w \in Watches : w = m.watch BY <2>6
    <3>2. UNCHANGED <<held, handles, to_client>> BY <2>6 DEF Answered
    <3>3. \/ /\ pushes' = [pushes EXCEPT ![w] = [@ EXCEPT !.at = "next", !.before = BeforeOf(w)]]
             /\ slots' = slots
          \/ /\ pushes' = [pushes EXCEPT ![w] = EndedPush]
             /\ slots' = [slots EXCEPT ![w] = 0]
          \/ pushes' = pushes /\ slots' = slots
      BY <2>6, <3>1 DEF Answered
    <3>4. slots' \in [Watches -> Nat] BY <3>3, SMTT(20) DEF Typed
    <3>5. BeforeOf(w) \in Nat BY DEF BeforeOf, Typed
    <3>6. pushes' \in [Watches -> Push]
      <4>1. pushes[w] \in Push /\ pushes \in [Watches -> Push] BY DEF Typed
      <4> DEFINE next == [pushes[w] EXCEPT !.at = "next", !.before = BeforeOf(w)]
      <4>2. next \in Push BY <3>5, <4>1
      <4>3. \/ pushes' = [pushes EXCEPT ![w] = next]
            \/ pushes' = [pushes EXCEPT ![w] = EndedPush]
            \/ pushes' = pushes
        BY <3>3, <4>1
      <4> HIDE DEF next
      <4> QED BY <4>1, <4>2, <4>3, PushFields
    <3> QED BY <2>2, <3>2, <3>4, <3>6 DEF Typed
  <2>7. CASE m.kind = "void" /\ UNCHANGED <<agent, to_client>> BY <2>2, <2>7 DEF Typed, agent
  <2> QED BY <2>1, <2>3, <2>4, <2>5, <2>6, <2>7
<1>4. ASSUME NEW w \in Watches, Pushes(w)
      PROVE  Typed'
  <2> DEFINE to == slots[w]
             before == pushes[w].before
             base == IF before = 0 THEN First ELSE published[before]
  <2>1. PICK known \in BOOLEAN :
          to_client' = Append(to_client,
             [kind |-> "update", watch |-> w, known |-> known, sample |-> to,
              lists |-> Update(before # 0, base, published[to])])
    BY <1>4, SessionAssumption DEF Pushes
  <2>2. pushes' = [pushes EXCEPT ![w] = [@ EXCEPT !.at = "sent", !.last = to]] /\ to \in Nat
        /\ UNCHANGED <<slots, held, handles, to_agent, reading, listeners, cache, tasks, resynced>>
    BY <1>4 DEF Pushes, Typed
  <2>3. pushes' \in [Watches -> Push] BY <2>2, ZenonT(60) DEF Typed
  <2>4. published[to] \in Snapshot /\ base \in Snapshot
    <3>1. before <= pushes[w].last /\ pushes[w].last <= to /\ to <= Len(published)
          /\ to > pushes[w].last /\ pushes[w].last \in Nat /\ before \in Nat
      BY <1>4 DEF Onward, Pushes, Typed
    <3>2. to \in 1..Len(published) /\ (before # 0 => before \in 1..Len(published))
      BY <1>1, <2>2, <3>1
    <3> QED BY <1>1, <3>2, FirstTyped
  <2> HIDE DEF to, before, base
  <2>5. (before # 0) \in BOOLEAN OBVIOUS
  <2>6. Update(before # 0, base, published[to]) \in UpdateLists BY <2>4, <2>5, UpdateTyped
  <2>7. [kind |-> "update", watch |-> w, known |-> known, sample |-> to,
         lists |-> Update(before # 0, base, published[to])] \in Updates
    BY <2>2, <2>6 DEF Updates
  <2>8. to_client' \in Seq(ToClient) BY <2>1, <2>7, AnUpdate DEF Typed
  <2> QED BY <2>2, <2>3, <2>8 DEF Typed, reading
<1> QED BY <1>2, <1>3, <1>4

\* What the client hears.
LEMMA TypedByHearing ==
  ASSUME Typed, Record, ClientHears
  PROVE  Typed'
<1>1. PICK m \in ToClient :
           /\ m = Head(to_client) /\ to_client # <<>> /\ to_client' = Tail(to_client)
           /\ UNCHANGED <<agent, open>>
           /\ \/ HearsWatching(m)
              \/ m \in Updates /\ HearsUpdate(m)
              \/ m \in Replies /\ HearsReply(m)
              \/ HearsNothing(m)
  BY ClientCases
<1>2. to_client' \in Seq(ToClient) /\ UNCHANGED <<slots, pushes, held, handles>>
  BY <1>1 DEF Typed, agent
<1>3. CASE HearsWatching(m)
  <2>1. PICK w : w = m.watch OBVIOUS
  <2>2. watches' = watches \/ watches' = [watches EXCEPT ![w].at = "on"]
        \/ watches' = [watches EXCEPT ![w].at = "refused"]
    BY <1>3, <2>1 DEF HearsWatching
  <2> DEFINE Ways == [at : {"new", "asked", "on", "refused", "dropped"}, beside : Nat]
  <2>3. watches \in [Watches -> Ways] BY DEF Typed
  <2>4. ASSUME NEW at \in {"on", "refused"}, w \in Watches
        PROVE  [watches[w] EXCEPT !.at = at] \in Ways
    BY <2>3, <2>4
  <2>5. watches' = watches \/ w \notin Watches
        \/ watches' = [watches EXCEPT ![w] = [watches[w] EXCEPT !.at = "on"]]
        \/ watches' = [watches EXCEPT ![w] = [watches[w] EXCEPT !.at = "refused"]]
    BY <2>2, <2>3
  <2> HIDE DEF Ways
  <2>6. watches' \in [Watches -> Ways] BY <2>2, <2>3, <2>4, <2>5
  <2> QED BY <1>2, <1>3, <2>6 DEF HearsWatching, Typed, Ways
<1>4. CASE m \in Updates /\ HearsUpdate(m)
  <2>1. PICK w \in Watches : w = m.watch BY <1>4, AnUpdate
  <2>2. PICK snapshot : snapshot = Decoded(IF listeners[w] # None THEN listeners[w] ELSE Cache, m.lists)
    OBVIOUS
  <2>3. snapshot \in Snapshot
    <3>1. m.lists \in UpdateLists BY <1>4, AnUpdate
    <3>2. (IF listeners[w] # None THEN listeners[w] ELSE Cache) \in Snapshot
      BY FirstTyped DEF Typed
    <3> QED BY <2>2, <3>1, <3>2, DecodedTyped
  <2>4. UNCHANGED <<calls, watches, cache>> /\ m.sample \in Nat BY <1>4, AnUpdate DEF HearsUpdate
  <2>5. PICK full \in BOOLEAN : full = ~(listeners[w] # None) OBVIOUS
  <2>6. \/ /\ listeners' = [listeners EXCEPT ![w] = snapshot]
           /\ HandsOver(w, Gives(m.sample, snapshot, full))
           /\ UNCHANGED <<tasks, resynced>>
        \/ HandsOver(w, Failed) /\ UNCHANGED <<listeners, tasks, resynced>>
        \/ /\ tasks' = [tasks EXCEPT ![w] = [Asks(w) EXCEPT !.sample = m.sample]]
           /\ to_agent' = to_agent \o Three(w)
           /\ resynced' = resynced \cup {w}
           /\ UNCHANGED <<listeners, waiting>>
    BY <1>4, <2>1, <2>2, <2>5 DEF HearsUpdate
  <2>7. CASE /\ listeners' = [listeners EXCEPT ![w] = snapshot]
             /\ HandsOver(w, Gives(m.sample, snapshot, full))
             /\ UNCHANGED <<tasks, resynced>>
    <3>1. Gives(m.sample, snapshot, full) \in Delivery BY <2>3, <2>4, GivesFields
    <3>2. waiting' \in [Watches -> Delivery \cup {Failed, None}] /\ to_agent' \in Seq(ToAgent)
      BY <2>7, <3>1, HandsOverTyped
    <3>3. listeners' \in [Watches -> Snapshot \cup {None}] BY <2>3, <2>7 DEF Typed
    <3> QED BY <1>2, <2>4, <2>7, <3>2, <3>3 DEF Typed
  <2>8. CASE HandsOver(w, Failed) /\ UNCHANGED <<listeners, tasks, resynced>>
    <3>1. waiting' \in [Watches -> Delivery \cup {Failed, None}] /\ to_agent' \in Seq(ToAgent)
      BY <2>8, HandsOverTyped
    <3> QED BY <1>2, <2>4, <2>8, <3>1 DEF Typed
  <2>9. CASE /\ tasks' = [tasks EXCEPT ![w] = [Asks(w) EXCEPT !.sample = m.sample]]
             /\ to_agent' = to_agent \o Three(w)
             /\ resynced' = resynced \cup {w}
             /\ UNCHANGED <<listeners, waiting>>
    <3>1. Get(w, "services", cache) \in ToAgent /\ Get(w, "processes", cache) \in ToAgent
          /\ Get(w, "states", cache) \in ToAgent
      BY AGet DEF Typed, Tasks, What
    <3>2. to_agent' \in Seq(ToAgent) BY <2>9, <3>1 DEF Three, Typed
    <3>3. PICK asks \in Task : asks = Asks(w) BY AsksFields DEF Record
    <3>4. [asks EXCEPT !.sample = m.sample] \in Task BY <2>4 DEF Task
    <3>5. tasks' \in [Tasks -> Task] BY <2>9, <3>3, <3>4 DEF Typed
    <3> QED BY <1>2, <2>4, <2>9, <3>2, <3>5 DEF Typed
  <2> QED BY <2>6, <2>7, <2>8, <2>9
<1>5. CASE m \in Replies /\ HearsReply(m)
  <2>1. PICK t : t = m.task OBVIOUS
  <2>2. UNCHANGED <<calls, watches, resynced>> /\ t \in Tasks BY <1>5, <2>1, ReplyCases
  <2>3. tasks[t] \in Task /\ tasks \in [Tasks -> Task] BY <2>2 DEF Typed
  <2>4. CASE Collects(t, m)
    <3>1. Got(t, m) \in Seq(Replies) BY <1>5, <2>3 DEF Got, Task
    <3>2. [tasks[t] EXCEPT !.got = Got(t, m)] \in Task BY <2>3, <3>1 DEF Task
    <3>3. tasks' \in [Tasks -> Task] BY <2>3, <2>4, <3>2 DEF Collects
    <3>4. UNCHANGED <<to_agent, waiting, listeners, cache>> BY <2>4 DEF Collects
    <3> QED BY <1>2, <2>2, <3>3, <3>4 DEF Typed
  <2>5. ASSUME NEW k \in Snapshot, ReadsOn(t, k) \/ Concludes(t, k) \/ Resyncs(t, k)
        PROVE  Typed'
    <3>1. PICK next : next = Goes(t, k) OBVIOUS
    <3>2. next \in Task BY <2>3, <3>1, GoesFields
    <3>3. tasks' \in [Tasks -> Task] /\ cache' \in Snapshot
      BY <2>3, <2>5, <3>1, <3>2, IdleFields DEF ReadsOn, Concludes, Resyncs
    <3>4. CASE ReadsOn(t, k)
      <4>1. Get(t, FetchesNext(t), k) \in ToAgent
        <5>1. FetchesNext(t) \in What BY DEF FetchesNext, What
        <5> QED BY <2>2, <5>1, AGet
      <4>2. to_agent' \in Seq(ToAgent) BY <3>4, <4>1 DEF ReadsOn, Typed
      <4> QED BY <1>2, <2>2, <3>3, <3>4, <4>2 DEF ReadsOn, Typed
    <3>5. CASE Concludes(t, k) BY <1>2, <2>2, <3>3, <3>5 DEF Concludes, Typed
    <3>6. CASE Resyncs(t, k)
      <4>1. t \in Watches /\ tasks[t].sample \in Nat BY <2>3, <3>6 DEF Resyncs, Task
      <4>2. PICK d : d = Gives(tasks[t].sample, k, TRUE) OBVIOUS
      <4>3. d \in Delivery BY <4>1, <4>2, GivesFields
      <4>4. \/ HandsOver(t, Failed) /\ UNCHANGED listeners
            \/ HandsOver(t, d) /\ listeners' = [listeners EXCEPT ![t] = k]
        BY <3>6, <4>2 DEF Resyncs
      <4>5. waiting' \in [Watches -> Delivery \cup {Failed, None}] /\ to_agent' \in Seq(ToAgent)
        BY <4>1, <4>3, <4>4, HandsOverTyped
      <4>6. listeners' \in [Watches -> Snapshot \cup {None}] BY <4>4 DEF Typed
      <4> QED BY <1>2, <2>2, <3>3, <4>5, <4>6 DEF Typed
    <3> QED BY <2>5, <3>4, <3>5, <3>6
  <2> QED BY <1>5, <2>1, <2>4, <2>5, ReplyCases
<1>6. CASE HearsNothing(m) BY <1>2, <1>6 DEF HearsNothing, Typed, reading
<1> QED BY <1>1, <1>3, <1>4, <1>5, <1>6

\* What a watch that is dropped sends.
LEMMA DropsSends ==
  ASSUME Typed, NEW w \in Watches, Drops(w)
  PROVE  LET release == [kind |-> "release", watch |-> w]
         IN  to_agent' = IF waiting[w] = None THEN Append(to_agent, release)
                         ELSE Append(Append(to_agent, Answer(w, FALSE)), release)
<1> DEFINE release == [kind |-> "release", watch |-> w]
           answer == Answer(w, FALSE)
<1>1. answer \in ToAgent /\ release \in ToAgent
  <2>1. Answer(w, FALSE) \in ToAgent BY AnAnswer
  <2>2. [kind |-> "release", watch |-> w] \in ToAgent BY ARelease
  <2> QED BY <2>1, <2>2
<1>2. to_agent \in Seq(ToAgent) BY DEF Typed
<1>3. /\ waiting[w] = None => to_agent' = to_agent \o <<>> \o <<release>>
      /\ waiting[w] # None => to_agent' = to_agent \o <<answer>> \o <<release>>
  BY DEF Drops
<1> HIDE DEF release, answer
<1>4. CASE waiting[w] = None
  <2>1. to_agent' = to_agent \o <<>> \o <<release>> BY <1>3, <1>4
  <2>2. to_agent \o <<>> \o <<release>> = Append(to_agent, release) BY <1>1, <1>2, OneSent
  <2> QED BY <1>4, <2>1, <2>2 DEF release, answer
<1>5. CASE waiting[w] # None
  <2>1. to_agent' = to_agent \o <<answer>> \o <<release>> BY <1>3, <1>5
  <2>2. to_agent \o <<answer>> \o <<release>> = Append(Append(to_agent, answer), release)
    BY <1>1, <1>2, TwoSent
  <2> QED BY <1>5, <2>1, <2>2 DEF release, answer
<1> QED BY <1>4, <1>5

\* What a task that starts sends.
LEMMA ThreeSent ==
  ASSUME Typed, NEW t \in Tasks, to_agent' = to_agent \o Three(t)
  PROVE  to_agent' = Append(Append(Append(to_agent, Get(t, "services", cache)),
                                   Get(t, "processes", cache)), Get(t, "states", cache))
<1> DEFINE a == Get(t, "services", cache)
           b == Get(t, "processes", cache)
           c == Get(t, "states", cache)
<1>1. a \in ToAgent /\ b \in ToAgent /\ c \in ToAgent BY AGet DEF Typed, What
<1>2. to_agent \in Seq(ToAgent) /\ to_agent' = to_agent \o <<a, b, c>> BY DEF Typed, Three
<1> HIDE DEF a, b, c
<1>3. to_agent' = Append(Append(Append(to_agent, a), b), c) BY <1>1, <1>2, ThreeAsked
<1> QED BY <1>3 DEF a, b, c

\* What the client does of itself, and the end.
LEMMA TypedByClient ==
  ASSUME Typed, Record,
         \/ \E t \in Callers : CallsSnapshot(t) \/ Leaves(t)
         \/ \E w \in Watches : CallsWatch(w) \/ Drops(w) \/ Takes(w)
         \/ Ends
  PROVE  Typed'
<1>1. Callers \subseteq Tasks /\ tasks \in [Tasks -> Task] /\ to_agent \in Seq(ToAgent)
      /\ to_client \in Seq(ToClient)
  BY DEF Tasks, Typed
<1>2. ASSUME NEW t \in Callers, CallsSnapshot(t)
      PROVE  Typed'
  <2>1. Get(t, "services", cache) \in ToAgent /\ Get(t, "processes", cache) \in ToAgent
        /\ Get(t, "states", cache) \in ToAgent
    BY <1>1, AGet DEF Typed, What
  <2>2. to_agent' \in Seq(ToAgent) BY <1>1, <1>2, <2>1 DEF CallsSnapshot, Three
  <2>3. Asks(t) \in Task BY AsksFields DEF Record
  <2>4. tasks' \in [Tasks -> Task] /\ calls' \in Nat BY <1>1, <1>2, <2>3 DEF CallsSnapshot, Typed
  <2> QED BY <1>2, <2>2, <2>4 DEF CallsSnapshot, Typed, agent
<1>3. ASSUME NEW t \in Callers, Leaves(t)
      PROVE  Typed'
  <2>1. to_agent' \in Seq(ToAgent) /\ to_client' \in Seq(ToClient)
    BY <1>1, <1>3, AVoid, OnNotFor DEF Leaves
  <2>2. tasks' \in [Tasks -> Task] BY <1>1, <1>3, IdleFields DEF Leaves
  <2> QED BY <1>3, <2>1, <2>2 DEF Leaves, Typed, agent, reading
<1>4. ASSUME NEW w \in Watches, CallsWatch(w)
      PROVE  Typed'
  <2>1. [kind |-> "watch", watch |-> w] \in ToAgent BY ACall
  <2>2. to_agent' \in Seq(ToAgent) BY <1>1, <1>4, <2>1 DEF CallsWatch
  <2>3. Cardinality(Wanted) \in Nat BY SessionAssumption, FS_Subset, FS_CardinalityType DEF Wanted
  <2>4. [at |-> "asked", beside |-> Cardinality(Wanted)]
          \in [at : {"new", "asked", "on", "refused", "dropped"}, beside : Nat]
    BY <2>3
  <2>5. watches' \in [Watches -> [at : {"new", "asked", "on", "refused", "dropped"}, beside : Nat]]
        /\ calls' \in Nat
    BY <1>4, <2>4 DEF CallsWatch, Typed
  <2> QED BY <1>4, <2>2, <2>5 DEF CallsWatch, Typed, agent
<1>5. ASSUME NEW w \in Watches, Drops(w)
      PROVE  Typed'
  <2>1. Answer(w, FALSE) \in ToAgent /\ [kind |-> "release", watch |-> w] \in ToAgent
    <3>1. Answer(w, FALSE) \in ToAgent BY AnAnswer
    <3>2. [kind |-> "release", watch |-> w] \in ToAgent BY ARelease
    <3> QED BY <3>1, <3>2
  <2>2. to_agent' \in Seq(ToAgent)
    <3>1. Append(Append(to_agent, Answer(w, FALSE)), [kind |-> "release", watch |-> w]) \in Seq(ToAgent)
          /\ Append(to_agent, [kind |-> "release", watch |-> w]) \in Seq(ToAgent)
      BY <1>1, <2>1, OnAppend
    <3> QED BY <1>5, <3>1, DropsSends
  <2>3. watches' \in [Watches -> [at : {"new", "asked", "on", "refused", "dropped"}, beside : Nat]]
        /\ waiting' \in [Watches -> Delivery \cup {Failed, None}]
    BY <1>5 DEF Drops, Typed
  <2> QED BY <1>5, <2>2, <2>3 DEF Drops, Typed, agent
<1>6. ASSUME NEW w \in Watches, Takes(w)
      PROVE  Typed'
  <2>1. PICK taken \in BOOLEAN : taken = ~waiting[w].failed OBVIOUS
  <2>2. Answer(w, taken) \in ToAgent BY AnAnswer
  <2>3. to_agent' = Append(to_agent, Answer(w, taken)) BY <1>6, <2>1 DEF Takes
  <2>4. to_agent' \in Seq(ToAgent) BY <1>1, <2>2, <2>3, OnAppend
  <2>5. waiting' \in [Watches -> Delivery \cup {Failed, None}] BY <1>6 DEF Takes, Typed
  <2> QED BY <1>6, <2>4, <2>5 DEF Takes, Typed, agent
<1>7. CASE Ends
  <2>1. slots' \in [Watches -> Nat] /\ handles' \in [Watches -> {"none", "held", "dropped"}] /\ held' \in Int
    BY <1>7 DEF Ends
  <2>2. pushes' \in [Watches -> [at : {"none", "next", "sent", "ended"}, last : Nat, before : Nat]]
    BY <1>7, PushFields DEF Ends, Push
  <2>3. to_agent' \in Seq(ToAgent) /\ to_client' \in Seq(ToClient) /\ calls' \in Nat
    BY <1>7 DEF Ends, Typed
  <2>4. watches' \in [Watches -> [at : {"new", "asked", "on", "refused", "dropped"}, beside : Nat]]
    BY <1>7 DEF Ends
  <2>5. listeners' \in [Watches -> Snapshot \cup {None}] /\ waiting' \in [Watches -> Delivery \cup {Failed, None}]
    BY <1>7 DEF Ends
  <2>6. cache' \in Snapshot /\ tasks' \in [Tasks -> Task] /\ resynced' \subseteq Watches
    BY <1>7, FirstTyped, IdleFields DEF Ends
  <2> QED BY <2>1, <2>2, <2>3, <2>4, <2>5, <2>6 DEF Typed
<1> QED BY <1>2, <1>3, <1>4, <1>5, <1>6, <1>7

\* A step keeps it typed.
LEMMA TypedKept ==
  ASSUME Typed, Record, Onward, [Next]_vars
  PROVE  Typed'
<1>1. CASE UNCHANGED vars BY <1>1 DEF vars, agent, wires, reading, Typed
<1> QED BY <1>1, TypedByAgent, TypedByHearing, TypedByClient DEF Next, Agent, Client

-----------------------------------------------------------------------------
(***************************************************************************)
(* What a step does to the messages looked for on a wire.                  *)
(***************************************************************************)
\* Where the agent hears one call.
LEMMA AgentWire ==
  ASSUME Typed, to_agent # <<>>, to_agent' = Tail(to_agent), NEW m, m = Head(to_agent), NEW S
  PROVE  /\ Lacks(to_agent, S) <=> Lacks(to_agent', S) /\ m \notin S
         /\ AtMostOne(to_agent, S) => AtMostOne(to_agent', S) /\ (m \in S => Lacks(to_agent', S))
<1>1. to_agent \in Seq(ToAgent) BY DEF Typed
<1>2. /\ Lacks(to_agent, S) <=> Lacks(Tail(to_agent), S) /\ Head(to_agent) \notin S
      /\ AtMostOne(to_agent, S) =>
           AtMostOne(Tail(to_agent), S) /\ (Head(to_agent) \in S => Lacks(Tail(to_agent), S))
  BY <1>1, LacksTail
<1> QED BY <1>2

\* Where the client hears one message.
LEMMA ClientWire ==
  ASSUME Typed, to_client # <<>>, to_client' = Tail(to_client), NEW m, m = Head(to_client), NEW S
  PROVE  /\ Lacks(to_client, S) <=> Lacks(to_client', S) /\ m \notin S
         /\ AtMostOne(to_client, S) => AtMostOne(to_client', S) /\ (m \in S => Lacks(to_client', S))
<1>1. to_client \in Seq(ToClient) BY DEF Typed
<1>2. /\ Lacks(to_client, S) <=> Lacks(Tail(to_client), S) /\ Head(to_client) \notin S
      /\ AtMostOne(to_client, S) =>
           AtMostOne(Tail(to_client), S) /\ (Head(to_client) \in S => Lacks(Tail(to_client), S))
  BY <1>1, LacksTail
<1> QED BY <1>2

\* Where one more call is sent.
LEMMA AgentSent ==
  ASSUME Typed, NEW m \in ToAgent, to_agent' = Append(to_agent, m), NEW S
  PROVE  /\ Lacks(to_agent', S) <=> Lacks(to_agent, S) /\ m \notin S
         /\ AtMostOne(to_agent', S) <=> AtMostOne(to_agent, S) /\ (m \in S => Lacks(to_agent, S))
<1>1. to_agent \in Seq(ToAgent) BY DEF Typed
<1>2. /\ Lacks(Append(to_agent, m), S) <=> Lacks(to_agent, S) /\ m \notin S
      /\ AtMostOne(Append(to_agent, m), S) <=> AtMostOne(to_agent, S) /\ (m \in S => Lacks(to_agent, S))
  BY <1>1, LacksAppend
<1> QED BY <1>2

\* Where one more message is sent.
LEMMA ClientSent ==
  ASSUME Typed, NEW m \in ToClient, to_client' = Append(to_client, m), NEW S
  PROVE  /\ Lacks(to_client', S) <=> Lacks(to_client, S) /\ m \notin S
         /\ AtMostOne(to_client', S) <=> AtMostOne(to_client, S) /\ (m \in S => Lacks(to_client, S))
<1>1. to_client \in Seq(ToClient) BY DEF Typed
<1>2. /\ Lacks(Append(to_client, m), S) <=> Lacks(to_client, S) /\ m \notin S
      /\ AtMostOne(Append(to_client, m), S) <=> AtMostOne(to_client, S) /\ (m \in S => Lacks(to_client, S))
  BY <1>1, LacksAppend
<1> QED BY <1>2

\* A task that starts asks for each thing once, and sends nothing else.
LEMMA TaskSent ==
  ASSUME Typed, NEW t \in Tasks, to_agent' = to_agent \o Three(t)
  PROVE  /\ \A u, k : \/ /\ u = t /\ k \in What
                         /\ ~Lacks(to_agent', GetsOf(u, k))
                         /\ Lacks(to_agent, GetsOf(u, k)) => AtMostOne(to_agent', GetsOf(u, k))
                      \/ /\ u # t \/ k \notin What
                         /\ Lacks(to_agent', GetsOf(u, k)) <=> Lacks(to_agent, GetsOf(u, k))
                         /\ AtMostOne(to_agent', GetsOf(u, k)) <=> AtMostOne(to_agent, GetsOf(u, k))
         /\ \A S : (\A m \in S : m.kind # "get") =>
              /\ Lacks(to_agent', S) <=> Lacks(to_agent, S)
              /\ AtMostOne(to_agent', S) <=> AtMostOne(to_agent, S)
<1> DEFINE a == Get(t, "services", cache)
           b == Get(t, "processes", cache)
           c == Get(t, "states", cache)
           one == Append(to_agent, a)
           two == Append(one, b)
<1>1. /\ a \in ToAgent /\ a.kind = "get" /\ \A u, k : a \in GetsOf(u, k) <=> u = t /\ k = "services"
      /\ b \in ToAgent /\ b.kind = "get" /\ \A u, k : b \in GetsOf(u, k) <=> u = t /\ k = "processes"
      /\ c \in ToAgent /\ c.kind = "get" /\ \A u, k : c \in GetsOf(u, k) <=> u = t /\ k = "states"
  BY AGet DEF Typed, What
<1>2. to_agent' = Append(two, c) BY ThreeSent
<1> HIDE DEF a, b, c
<1>3. to_agent \in Seq(ToAgent) /\ one \in Seq(ToAgent) /\ two \in Seq(ToAgent) BY <1>1 DEF Typed
<1>4. \A S : /\ Lacks(one, S) <=> Lacks(to_agent, S) /\ a \notin S
             /\ AtMostOne(one, S) <=> AtMostOne(to_agent, S) /\ (a \in S => Lacks(to_agent, S))
  BY <1>1, <1>3, LacksAppend
<1> HIDE DEF one
<1>5. \A S : /\ Lacks(two, S) <=> Lacks(one, S) /\ b \notin S
             /\ AtMostOne(two, S) <=> AtMostOne(one, S) /\ (b \in S => Lacks(one, S))
  BY <1>1, <1>3, LacksAppend
<1> HIDE DEF two
<1>6. \A S : /\ Lacks(Append(two, c), S) <=> Lacks(two, S) /\ c \notin S
             /\ AtMostOne(Append(two, c), S) <=> AtMostOne(two, S) /\ (c \in S => Lacks(two, S))
  BY <1>1, <1>3, LacksAppend
<1>7. \A S : /\ Lacks(to_agent', S) <=> Lacks(to_agent, S) /\ a \notin S /\ b \notin S /\ c \notin S
             /\ AtMostOne(to_agent', S) <=>
                  /\ AtMostOne(to_agent, S)
                  /\ (a \in S => Lacks(to_agent, S))
                  /\ (b \in S => Lacks(to_agent, S) /\ a \notin S)
                  /\ (c \in S => Lacks(to_agent, S) /\ a \notin S /\ b \notin S)
  BY <1>2, <1>4, <1>5, <1>6
<1>8. ASSUME NEW u, NEW k
      PROVE  \/ /\ u = t /\ k \in What
                /\ ~Lacks(to_agent', GetsOf(u, k))
                /\ Lacks(to_agent, GetsOf(u, k)) => AtMostOne(to_agent', GetsOf(u, k))
             \/ /\ u # t \/ k \notin What
                /\ Lacks(to_agent', GetsOf(u, k)) <=> Lacks(to_agent, GetsOf(u, k))
                /\ AtMostOne(to_agent', GetsOf(u, k)) <=> AtMostOne(to_agent, GetsOf(u, k))
  <2> DEFINE S == GetsOf(u, k)
  <2>1. /\ Lacks(to_agent', S) <=> Lacks(to_agent, S) /\ a \notin S /\ b \notin S /\ c \notin S
        /\ AtMostOne(to_agent', S) <=>
             /\ AtMostOne(to_agent, S)
             /\ (a \in S => Lacks(to_agent, S))
             /\ (b \in S => Lacks(to_agent, S) /\ a \notin S)
             /\ (c \in S => Lacks(to_agent, S) /\ a \notin S /\ b \notin S)
    BY <1>7
  <2>2. Lacks(to_agent, S) => AtMostOne(to_agent, S) BY DEF Lacks, AtMostOne
  <2>3. /\ a \in S <=> u = t /\ k = "services"
        /\ b \in S <=> u = t /\ k = "processes"
        /\ c \in S <=> u = t /\ k = "states"
    BY <1>1
  <2>4. k \in What <=> k = "services" \/ k = "processes" \/ k = "states" BY DEF What
  <2> HIDE DEF S
  <2>5. CASE u = t /\ k \in What BY <2>1, <2>2, <2>3, <2>4, <2>5 DEF S
  <2>6. CASE u # t \/ k \notin What BY <2>1, <2>3, <2>4, <2>6 DEF S
  <2> QED BY <2>5, <2>6
<1>9. ASSUME NEW S, \A m \in S : m.kind # "get"
      PROVE  /\ Lacks(to_agent', S) <=> Lacks(to_agent, S)
             /\ AtMostOne(to_agent', S) <=> AtMostOne(to_agent, S)
  <2>1. a \notin S /\ b \notin S /\ c \notin S BY <1>1, <1>9
  <2> QED BY <1>7, <2>1
<1> QED BY <1>8, <1>9

\* What is on its way for a caller that left does not matter, and the rest is
\* as it was.
LEMMA CallerLeft ==
  ASSUME Typed, NEW t, to_agent' = NotFor(t, to_agent), to_client' = NotFor(t, to_client), NEW S,
         Void \notin S
  PROVE  /\ Lacks(to_agent, S) => Lacks(to_agent', S)
         /\ AtMostOne(to_agent, S) => AtMostOne(to_agent', S)
         /\ Lacks(to_client, S) => Lacks(to_client', S)
         /\ AtMostOne(to_client, S) => AtMostOne(to_client', S)
         /\ (\A m \in S : m.kind \in {"get", "reply"} /\ m.task = t) =>
              Lacks(to_agent', S) /\ Lacks(to_client', S)
         /\ (\A m \in S : m.kind \notin {"get", "reply"}) =>
              /\ Lacks(to_agent', S) => Lacks(to_agent, S)
              /\ Lacks(to_client', S) => Lacks(to_client, S)
<1>1. to_agent \in Seq(ToAgent) /\ to_client \in Seq(ToClient) BY DEF Typed
<1>2. /\ Lacks(to_agent, S) => Lacks(NotFor(t, to_agent), S)
      /\ AtMostOne(to_agent, S) => AtMostOne(NotFor(t, to_agent), S)
      /\ (\A m \in S : m.kind \in {"get", "reply"} /\ m.task = t) => Lacks(NotFor(t, to_agent), S)
      /\ (\A m \in S : m.kind \notin {"get", "reply"}) =>
           (Lacks(NotFor(t, to_agent), S) => Lacks(to_agent, S))
  BY <1>1, AVoid, LacksNotFor
<1>3. /\ Lacks(to_client, S) => Lacks(NotFor(t, to_client), S)
      /\ AtMostOne(to_client, S) => AtMostOne(NotFor(t, to_client), S)
      /\ (\A m \in S : m.kind \in {"get", "reply"} /\ m.task = t) => Lacks(NotFor(t, to_client), S)
      /\ (\A m \in S : m.kind \notin {"get", "reply"}) =>
           (Lacks(NotFor(t, to_client), S) => Lacks(to_client, S))
  BY <1>1, AVoid, LacksNotFor
<1> QED BY <1>2, <1>3

\* By what is looked for, a kind at a time.
LEMMA KindsOf ==
  /\ \A w : \A m \in AnswersOf(w) : m.kind = "answer"
  /\ \A w : \A m \in CallsFor(w) : m.kind = "watch"
  /\ \A w : \A m \in ReleasesOf(w) : m.kind = "release"
  /\ \A w : \A m \in UpdatesOf(w) : m.kind = "update"
  /\ \A w : \A m \in RefusalsOf(w) : m.kind = "watching"
  /\ \A t, k : \A m \in GetsOf(t, k) : m.kind = "get" /\ m.task = t
  /\ \A t, k : \A m \in RepliesOf(t, k) : m.kind = "reply" /\ m.task = t
BY DEF AnswersOf, CallsFor, ReleasesOf, UpdatesOf, RefusalsOf, GetsOf, RepliesOf

\* On an empty wire nothing is found.
LEMMA NothingSent ==
  \A S : Lacks(<<>>, S) /\ AtMostOne(<<>>, S)
BY DEF Lacks, AtMostOne

-----------------------------------------------------------------------------
(***************************************************************************)
(* An update of a watch is told in its turn.                               *)
(***************************************************************************)
\* A watch that is not called for is told nothing.
LEMMA TurnsAtFirst ==
  ASSUME Init PROVE Turns
<1>1. SUFFICES ASSUME NEW w \in Watches PROVE TurnOf(w) BY DEF Turns
<1>2. to_agent = <<>> /\ to_client = <<>> /\ w \in Tasks BY DEF Init, Tasks
<1>3. pushes[w].at = "none" /\ tasks[w].at = "idle" /\ waiting[w] = None
  BY <1>2, PushFields, IdleFields DEF Init
<1> QED BY <1>2, <1>3, NothingSent DEF TurnOf, OnItsWay, ReadAfresh, Waits, IsAnswered, Calling

\* A step that touches neither the wires nor the watch.
LEMMA TurnUntouched ==
  ASSUME NEW w, TurnOf(w), UNCHANGED <<pushes, to_agent, to_client, tasks, waiting, watches>>
  PROVE  TurnOf(w)'
BY DEF TurnOf, OnItsWay, ReadAfresh, Waits, IsAnswered, Calling

\* The agent's task of a watch, as its push is heard, answered and sent.
LEMMA PushesNext ==
  ASSUME Typed, NEW w \in Watches,
         \/ pushes' = [pushes EXCEPT ![w].at = "next"]
         \/ pushes' = [pushes EXCEPT ![w] = [@ EXCEPT !.at = "next", !.before = BeforeOf(w)]]
  PROVE  /\ pushes'[w].at = "next" /\ pushes'[w].last = pushes[w].last
         /\ pushes'[w].before \in {pushes[w].before, pushes[w].last}
         /\ \A v \in Watches : v # w => pushes'[v] = pushes[v]
<1>1. pushes \in [Watches -> Push] /\ pushes[w] \in Push BY DEF Typed, Push
<1> DEFINE heard == [pushes[w] EXCEPT !.at = "next"]
           told == [pushes[w] EXCEPT !.at = "next", !.before = pushes[w].last]
<1>2. heard.at = "next" /\ heard.last = pushes[w].last /\ heard.before = pushes[w].before
  BY <1>1 DEF Push
<1>3. told.at = "next" /\ told.last = pushes[w].last /\ told.before = pushes[w].last
  BY <1>1 DEF Push
<1>4. pushes' = [pushes EXCEPT ![w] = heard] \/ pushes' = [pushes EXCEPT ![w] = told]
  BY <1>1 DEF BeforeOf
<1> HIDE DEF heard, told
<1> QED BY <1>1, <1>2, <1>3, <1>4

\* The agent hears what the client sent.
LEMMA TurnsByAgent ==
  ASSUME Typed, Places, Turns, AgentHears
  PROVE  Turns'
<1> USE DEF OnItsWay, ReadAfresh, Waits, IsAnswered, Calling
<1>1. SUFFICES ASSUME NEW v \in Watches PROVE TurnOf(v)' BY DEF Turns
<1>2. TurnOf(v) BY DEF Turns
<1>3. PICK m \in ToAgent :
           /\ m = Head(to_agent) /\ to_agent # <<>> /\ to_agent' = Tail(to_agent)
           /\ UNCHANGED <<reading, listeners, cache, tasks, resynced, open>>
           /\ \/ m \in Gets /\ Answers(m)
              \/ m.watch \in Watches /\ m \in CallsFor(m.watch) /\ Watched(m)
              \/ m.watch \in Watches /\ m \in ReleasesOf(m.watch) /\ Released(m)
              \/ m.watch \in Watches /\ m.taken \in BOOLEAN /\ m \in AnswersOf(m.watch) /\ Answered(m)
              \/ m.kind = "void" /\ UNCHANGED <<agent, to_client>>
  BY AgentCases
<1>4. /\ AtMostOne(to_agent', AnswersOf(v)) /\ (IsAnswered(v)' => IsAnswered(v))
      /\ AtMostOne(to_agent', CallsFor(v)) /\ (Calling(v)' => Calling(v))
      /\ m \in AnswersOf(v) => IsAnswered(v) /\ ~IsAnswered(v)'
      /\ m \in CallsFor(v) => Calling(v) /\ ~Calling(v)'
  BY <1>2, <1>3, AgentWire DEF TurnOf, IsAnswered, Calling
<1>5. UNCHANGED <<tasks, waiting, watches>> BY <1>3 DEF reading
<1>6. (ReadAfresh(v)' <=> ReadAfresh(v)) /\ (Waits(v)' <=> Waits(v)) BY <1>5 DEF ReadAfresh, Waits
<1>7. CASE UNCHANGED pushes /\ AtMostOne(to_client', UpdatesOf(v)) /\ (OnItsWay(v)' <=> OnItsWay(v))
  BY <1>2, <1>4, <1>5, <1>6, <1>7 DEF TurnOf
<1>8. CASE m \in Gets /\ Answers(m)
  <2>1. PICK reply : reply = Reply(m) OBVIOUS
  <2>2. to_client' = Append(to_client, reply) /\ UNCHANGED pushes BY <1>8, <2>1 DEF Answers, agent
  <2>3. reply.kind = "reply" BY <2>1 DEF Reply
  <2>4. \A u : reply \notin UpdatesOf(u) BY <2>3, KindsOf
  <2>5. /\ Lacks(Append(to_client, reply), UpdatesOf(v)) <=> Lacks(to_client, UpdatesOf(v))
        /\ AtMostOne(Append(to_client, reply), UpdatesOf(v)) <=> AtMostOne(to_client, UpdatesOf(v))
    <3>1. to_client \in Seq(ToClient \cup {reply}) /\ reply \in ToClient \cup {reply} BY DEF Typed
    <3> QED BY <2>4, <3>1, LacksAppend
  <2> QED BY <1>2, <1>7, <2>2, <2>5 DEF TurnOf, OnItsWay
<1>9. CASE m.watch \in Watches /\ m \in CallsFor(m.watch) /\ Watched(m)
  <2>1. PICK w \in Watches : w = m.watch BY <1>9
  <2>2. PICK taken \in BOOLEAN : taken = ~Full OBVIOUS
  <2>3. PICK watching : watching = [kind |-> "watching", watch |-> w, taken |-> taken] OBVIOUS
  <2>4. to_client' = Append(to_client, watching) BY <1>9, <2>1, <2>2, <2>3 DEF Watched
  <2>5. watching \in ToClient /\ watching \notin UpdatesOf(v) BY <2>3, AWatching
  <2>6. AtMostOne(to_client', UpdatesOf(v)) /\ (OnItsWay(v)' <=> OnItsWay(v))
    BY <1>2, <2>4, <2>5, ClientSent DEF TurnOf, OnItsWay
  <2>7. CASE UNCHANGED pushes BY <1>7, <2>6, <2>7
  <2>8. CASE pushes' = [pushes EXCEPT ![w].at = "next"]
    <3>1. CASE w = v
      <4>1. pushes[v].at = "none" /\ ~Calling(v)' /\ watches[v].at # "new"
        BY <1>2, <1>4, <1>9, <2>1, <3>1 DEF TurnOf
      <4>2. ~OnItsWay(v)' /\ ~ReadAfresh(v)' /\ ~Waits(v)' /\ ~IsAnswered(v)'
        BY <1>2, <1>4, <1>6, <2>6, <4>1 DEF TurnOf
      <4> QED BY <1>4, <1>5, <2>6, <4>1, <4>2 DEF TurnOf
    <3>2. CASE w # v
      <4>1. pushes'[v] = pushes[v] BY <2>8, <3>2 DEF Typed
      <4> QED BY <1>2, <1>4, <1>5, <1>6, <2>6, <4>1 DEF TurnOf
    <3> QED BY <3>1, <3>2
  <2> QED BY <1>9, <2>1, <2>7, <2>8 DEF Watched, agent
<1>10. CASE m.watch \in Watches /\ m \in ReleasesOf(m.watch) /\ Released(m)
  <2>1. PICK w \in Watches : w = m.watch BY <1>10
  <2>2. to_client' = to_client BY <1>10 DEF Released
  <2>3. AtMostOne(to_client', UpdatesOf(v)) /\ (OnItsWay(v)' <=> OnItsWay(v))
    BY <1>2, <2>2 DEF TurnOf, OnItsWay
  <2>4. CASE UNCHANGED pushes BY <1>7, <2>3, <2>4
  <2>5. CASE handles[w] = "held" /\ pushes' = [pushes EXCEPT ![w] = EndedPush]
    <3>1. CASE w = v
      <4>1. pushes'[v].at = "ended" BY <2>5, <3>1, PushFields DEF Typed
      <4>2. ~Calling(v) /\ watches[v].at # "new" BY <2>5, <3>1 DEF Places, PlaceOf
      <4> QED BY <1>2, <1>4, <1>5, <1>6, <2>3, <4>1, <4>2 DEF TurnOf
    <3>2. CASE w # v
      <4>1. pushes'[v] = pushes[v] BY <2>5, <3>2 DEF Typed
      <4> QED BY <1>2, <1>4, <1>5, <1>6, <2>3, <4>1 DEF TurnOf
    <3> QED BY <3>1, <3>2
  <2> QED BY <1>10, <2>1, <2>4, <2>5 DEF Released
<1>11. CASE m.watch \in Watches /\ m \in AnswersOf(m.watch) /\ Answered(m)
  <2>1. PICK w \in Watches : w = m.watch BY <1>11
  <2>2. to_client' = to_client BY <1>11 DEF Answered
  <2>3. AtMostOne(to_client', UpdatesOf(v)) /\ (OnItsWay(v)' <=> OnItsWay(v))
    BY <1>2, <2>2 DEF TurnOf, OnItsWay
  <2>4. CASE UNCHANGED pushes BY <1>7, <2>3, <2>4
  <2>5. CASE /\ pushes[w].at = "sent"
             /\ \/ pushes' = [pushes EXCEPT ![w] = [@ EXCEPT !.at = "next", !.before = BeforeOf(w)]]
                \/ pushes' = [pushes EXCEPT ![w] = EndedPush]
    <3>1. CASE w = v
      <4>1. pushes'[v].at \in {"next", "ended"} BY <2>5, <3>1, PushFields, PushesNext DEF Typed
      <4>2. ~Calling(v) /\ watches[v].at # "new" BY <1>2, <2>5, <3>1 DEF TurnOf
      <4>3. IsAnswered(v) /\ ~IsAnswered(v)' BY <1>4, <1>11, <2>1, <3>1
      <4>4. ~OnItsWay(v) /\ ~ReadAfresh(v) /\ ~Waits(v) BY <1>2, <4>3 DEF TurnOf
      <4> QED BY <1>2, <1>4, <1>5, <1>6, <2>3, <4>1, <4>2, <4>3, <4>4 DEF TurnOf
    <3>2. CASE w # v
      <4>1. pushes'[v] = pushes[v] BY <2>5, <3>2 DEF Typed
      <4> QED BY <1>2, <1>4, <1>5, <1>6, <2>3, <4>1 DEF TurnOf
    <3> QED BY <3>1, <3>2
  <2> QED BY <1>11, <2>1, <2>4, <2>5 DEF Answered
<1>12. CASE m.kind = "void" /\ UNCHANGED <<agent, to_client>>
  BY <1>2, <1>7, <1>12 DEF TurnOf, OnItsWay, agent
<1> QED BY <1>3, <1>8, <1>9, <1>10, <1>11, <1>12

\* What the agent sends next is the only thing told of the watch.
LEMMA PushSent ==
  ASSUME Typed, Record, Onward, NEW w \in Watches, Pushes(w)
  PROVE  \E m \in Updates, before \in Nat, base \in Snapshot :
           /\ to_client' = Append(to_client, m)
           /\ m.watch = w /\ m.sample = slots[w]
           /\ before = pushes[w].before /\ base = Base(before)
           /\ m.lists = Update(before # 0, base, published[slots[w]])
           /\ slots[w] \in 1..Len(published) /\ slots[w] > pushes[w].last
           /\ pushes'[w].at = "sent" /\ pushes'[w].last = slots[w] /\ pushes'[w].before = before
           /\ \A v \in Watches : v # w => pushes'[v] = pushes[v]
<1> DEFINE to == slots[w]
           before == pushes[w].before
           base == Base(before)
<1>1. published \in Seq(Snapshot) /\ Len(published) \in Nat BY DEF Record
<1>2. to \in Nat /\ before \in Nat /\ pushes[w].last \in Nat /\ pushes[w] \in Push
      /\ pushes \in [Watches -> Push]
  BY DEF Typed, Push
<1>3. to \in 1..Len(published) /\ to > pushes[w].last /\ (before # 0 => before \in 1..Len(published))
  <2>1. before <= pushes[w].last /\ pushes[w].last <= to /\ to <= Len(published) /\ to > pushes[w].last
    BY DEF Onward, Pushes
  <2> QED BY <1>1, <1>2, <2>1
<1>4. published[to] \in Snapshot /\ base \in Snapshot BY <1>1, <1>3, FirstTyped DEF Base
<1>5. PICK known \in BOOLEAN :
        to_client' = Append(to_client,
             [kind |-> "update", watch |-> w, known |-> known, sample |-> to,
              lists |-> Update(before # 0, base, published[to])])
  BY SessionAssumption DEF Pushes, Base
<1>6. pushes' = [pushes EXCEPT ![w] = [pushes[w] EXCEPT !.at = "sent", !.last = to]]
  BY <1>2 DEF Pushes
<1>7. /\ pushes'[w].at = "sent" /\ pushes'[w].last = to /\ pushes'[w].before = before
      /\ \A v \in Watches : v # w => pushes'[v] = pushes[v]
  <2> DEFINE next == [pushes[w] EXCEPT !.at = "sent", !.last = to]
  <2>1. next.at = "sent" /\ next.last = to /\ next.before = before BY <1>2 DEF Push
  <2>2. pushes' = [pushes EXCEPT ![w] = next] BY <1>6
  <2> HIDE DEF next
  <2> QED BY <1>2, <2>1, <2>2
<1> HIDE DEF to, before, base
<1>8. (before # 0) \in BOOLEAN OBVIOUS
<1>9. Update(before # 0, base, published[to]) \in UpdateLists BY <1>4, <1>8, UpdateTyped
<1>10. PICK m : m = [kind |-> "update", watch |-> w, known |-> known, sample |-> to,
                     lists |-> Update(before # 0, base, published[to])]
  OBVIOUS
<1>11. m \in Updates /\ m.watch = w /\ m.sample = to
       /\ m.lists = Update(before # 0, base, published[to])
  BY <1>2, <1>9, <1>10 DEF Updates
<1>12. to_client' = Append(to_client, m) BY <1>5, <1>10
<1> QED BY <1>2, <1>3, <1>4, <1>7, <1>11, <1>12 DEF to, before, base

\* The agent tells a watch, in its turn.
LEMMA TurnsBySending ==
  ASSUME Typed, Record, Onward, Turns, NEW w \in Watches, Pushes(w)
  PROVE  Turns'
<1> USE DEF OnItsWay, ReadAfresh, Waits, IsAnswered, Calling
<1>1. SUFFICES ASSUME NEW v \in Watches PROVE TurnOf(v)' BY DEF Turns
<1>2. TurnOf(v) BY DEF Turns
<1>3. PICK m \in Updates : /\ to_client' = Append(to_client, m) /\ m.watch = w
                           /\ pushes'[w].at = "sent"
                           /\ \A u \in Watches : u # w => pushes'[u] = pushes[u]
  BY PushSent
<1>4. m \in ToClient /\ (m \in UpdatesOf(v) <=> v = w) BY <1>3, AnUpdate
<1>5. /\ Lacks(to_client', UpdatesOf(v)) <=> Lacks(to_client, UpdatesOf(v)) /\ m \notin UpdatesOf(v)
      /\ AtMostOne(to_client', UpdatesOf(v)) <=>
           AtMostOne(to_client, UpdatesOf(v)) /\ (m \in UpdatesOf(v) => Lacks(to_client, UpdatesOf(v)))
  BY <1>3, <1>4, ClientSent
<1>6. UNCHANGED <<to_agent, tasks, waiting, watches>> /\ pushes[w].at = "next"
  BY DEF Pushes, reading
<1>7. CASE v = w
  <2>1. ~OnItsWay(v) /\ ~ReadAfresh(v) /\ ~Waits(v) /\ ~IsAnswered(v) /\ ~Calling(v)
        /\ watches[v].at # "new"
    BY <1>2, <1>6, <1>7 DEF TurnOf
  <2> QED BY <1>2, <1>3, <1>4, <1>5, <1>6, <1>7, <2>1 DEF TurnOf
<1>8. CASE v # w BY <1>2, <1>3, <1>4, <1>5, <1>6, <1>8 DEF TurnOf
<1> QED BY <1>7, <1>8

\* What is handed over waits, or is answered at once.
LEMMA HandsOverSent ==
  ASSUME Typed, NEW w \in Watches, NEW d \in Delivery \cup {Failed}, HandsOver(w, d)
  PROVE  /\ \A S : (\A m \in S : m.kind # "answer") =>
              /\ Lacks(to_agent', S) <=> Lacks(to_agent, S)
              /\ AtMostOne(to_agent', S) <=> AtMostOne(to_agent, S)
         /\ \A v \in Watches :
              IF v # w
              THEN /\ waiting'[v] = waiting[v]
                   /\ Lacks(to_agent', AnswersOf(v)) <=> Lacks(to_agent, AnswersOf(v))
                   /\ AtMostOne(to_agent', AnswersOf(v)) <=> AtMostOne(to_agent, AnswersOf(v))
              ELSE /\ AtMostOne(to_agent, AnswersOf(v)) /\ Lacks(to_agent, AnswersOf(v))
                        => AtMostOne(to_agent', AnswersOf(v))
                   /\ Lacks(to_agent, AnswersOf(v)) /\ waiting[v] = None
                        => Lacks(to_agent', AnswersOf(v)) \/ waiting'[v] = None
                   /\ waiting'[v] \in {waiting[v], d}
<1>1. PICK answer : answer = Answer(w, FALSE) OBVIOUS
<1>2. /\ answer \in ToAgent /\ answer.kind = "answer" /\ \A v : answer \in AnswersOf(v) <=> v = w
  BY <1>1, AnAnswer, ZenonT(60)
<1>3. CASE waiting' = waiting /\ to_agent' = Append(to_agent, answer)
  <2>1. \A S : /\ Lacks(to_agent', S) <=> Lacks(to_agent, S) /\ answer \notin S
               /\ AtMostOne(to_agent', S) <=>
                    AtMostOne(to_agent, S) /\ (answer \in S => Lacks(to_agent, S))
    BY <1>2, <1>3, AgentSent
  <2> QED BY <1>2, <1>3, <2>1
<1>4. CASE to_agent' = to_agent /\ waiting' = [waiting EXCEPT ![w] = d] BY <1>4 DEF Typed
<1> QED BY <1>1, <1>3, <1>4, HandsOverTyped

\* The client hears an update, or an answer to a task.
LEMMA TurnsByHearing ==
  ASSUME Typed, Record, Reading, Turns, ClientHears
  PROVE  Turns'
<1> USE DEF OnItsWay, ReadAfresh, Waits, IsAnswered, Calling
<1>1. SUFFICES ASSUME NEW v \in Watches PROVE TurnOf(v)' BY DEF Turns
<1>2. TurnOf(v) /\ v \in Tasks BY DEF Turns, Tasks
<1>3. PICK m \in ToClient :
           /\ m = Head(to_client) /\ to_client # <<>> /\ to_client' = Tail(to_client)
           /\ UNCHANGED <<agent, open>>
           /\ \/ HearsWatching(m)
              \/ m \in Updates /\ HearsUpdate(m)
              \/ m \in Replies /\ HearsReply(m)
              \/ HearsNothing(m)
  BY ClientCases
<1>4. /\ AtMostOne(to_client', UpdatesOf(v))
      /\ OnItsWay(v)' => OnItsWay(v)
      /\ m \in UpdatesOf(v) => OnItsWay(v) /\ ~OnItsWay(v)'
  BY <1>2, <1>3, ClientWire DEF TurnOf
<1>5. UNCHANGED pushes BY <1>3 DEF agent
<1>6. CASE HearsWatching(m)
  <2>1. PICK w : w = m.watch OBVIOUS
  <2>2. watches' = watches \/ watches' = [watches EXCEPT ![w].at = "on"]
        \/ watches' = [watches EXCEPT ![w].at = "refused"]
    BY <1>6, <2>1 DEF HearsWatching
  <2>3. watches'[v].at = watches[v].at \/ watches'[v].at \in {"on", "refused"}
    <3>1. watches[v] \in [at : {"new", "asked", "on", "refused", "dropped"}, beside : Nat]
          /\ watches \in [Watches -> [at : {"new", "asked", "on", "refused", "dropped"}, beside : Nat]]
      BY DEF Typed
    <3>2. CASE w = v
      <4>1. \/ watches' = watches \/ watches' = [watches EXCEPT ![v] = [watches[v] EXCEPT !.at = "on"]]
            \/ watches' = [watches EXCEPT ![v] = [watches[v] EXCEPT !.at = "refused"]]
        BY <2>2, <3>2
      <4>2. [watches[v] EXCEPT !.at = "on"].at = "on" /\ [watches[v] EXCEPT !.at = "refused"].at = "refused"
        BY <3>1
      <4> QED BY <3>1, <4>1, <4>2
    <3>3. CASE w # v BY <2>2, <3>1, <3>3
    <3> QED BY <3>2, <3>3
  <2>4. UNCHANGED <<to_agent, waiting, tasks>> BY <1>6 DEF HearsWatching
  <2>5. watches[v].at = "new" => pushes[v].at = "none" BY <1>2 DEF TurnOf
  <2>6. watches'[v].at = "new" => watches[v].at = "new" BY <2>3
  <2> QED BY <1>2, <1>4, <1>5, <2>4, <2>5, <2>6 DEF TurnOf
<1>7. CASE m \in Updates /\ HearsUpdate(m)
  <2>1. PICK w \in Watches : w = m.watch BY <1>7, AnUpdate
  <2>2. m \in UpdatesOf(v) <=> v = w BY <1>7, <2>1, AnUpdate
  <2>3. UNCHANGED watches BY <1>7 DEF HearsUpdate
  <2>4. CASE UNCHANGED tasks /\ \E d \in Delivery \cup {Failed} : HandsOver(w, d)
    <3>1. PICK d \in Delivery \cup {Failed} : HandsOver(w, d) BY <2>4
    <3>2. Lacks(to_agent', CallsFor(v)) <=> Lacks(to_agent, CallsFor(v))
      BY <3>1, KindsOf, HandsOverSent
    <3>3. AtMostOne(to_agent', CallsFor(v)) <=> AtMostOne(to_agent, CallsFor(v))
      BY <3>1, KindsOf, HandsOverSent
    <3>4. CASE v # w
      <4>1. /\ waiting'[v] = waiting[v]
            /\ Lacks(to_agent', AnswersOf(v)) <=> Lacks(to_agent, AnswersOf(v))
            /\ AtMostOne(to_agent', AnswersOf(v)) <=> AtMostOne(to_agent, AnswersOf(v))
        BY <3>1, <3>4, HandsOverSent
      <4> QED BY <1>2, <1>4, <1>5, <2>3, <2>4, <3>2, <3>3, <4>1 DEF TurnOf
    <3>5. CASE v = w
      <4>1. OnItsWay(v) /\ ~OnItsWay(v)' BY <1>4, <2>2, <3>5
      <4>2. ~ReadAfresh(v) /\ ~Waits(v) /\ ~IsAnswered(v) /\ pushes[v].at \notin {"none", "next"}
        BY <1>2, <4>1 DEF TurnOf
      <4>3. /\ AtMostOne(to_agent', AnswersOf(v))
            /\ Lacks(to_agent', AnswersOf(v)) \/ waiting'[v] = None
        BY <1>2, <3>1, <3>5, <4>2, HandsOverSent DEF TurnOf
      <4> QED BY <1>2, <1>4, <1>5, <2>3, <2>4, <3>2, <3>3, <4>1, <4>2, <4>3 DEF TurnOf
    <3> QED BY <3>4, <3>5
  <2>5. CASE /\ tasks' = [tasks EXCEPT ![w] = [Asks(w) EXCEPT !.sample = m.sample]]
             /\ to_agent' = to_agent \o Three(w) /\ UNCHANGED waiting
    <3>1. w \in Tasks BY DEF Tasks
    <3>2. /\ Lacks(to_agent', CallsFor(v)) <=> Lacks(to_agent, CallsFor(v))
          /\ AtMostOne(to_agent', CallsFor(v)) <=> AtMostOne(to_agent, CallsFor(v))
      BY <2>5, <3>1, KindsOf, TaskSent
    <3>3. /\ Lacks(to_agent', AnswersOf(v)) <=> Lacks(to_agent, AnswersOf(v))
          /\ AtMostOne(to_agent', AnswersOf(v)) <=> AtMostOne(to_agent, AnswersOf(v))
      BY <2>5, <3>1, KindsOf, TaskSent
    <3>4. CASE v # w
      <4>1. tasks'[v] = tasks[v] BY <2>5, <3>4 DEF Typed
      <4> QED BY <1>2, <1>4, <1>5, <2>3, <2>5, <3>2, <3>3, <4>1 DEF TurnOf
    <3>5. CASE v = w
      <4>1. OnItsWay(v) /\ ~OnItsWay(v)' BY <1>4, <2>2, <3>5
      <4>2. ~ReadAfresh(v) /\ ~Waits(v) /\ ~IsAnswered(v) /\ pushes[v].at \notin {"none", "next"}
        BY <1>2, <4>1 DEF TurnOf
      <4> QED BY <1>2, <1>4, <1>5, <2>3, <2>5, <3>2, <3>3, <4>1, <4>2 DEF TurnOf
    <3> QED BY <3>4, <3>5
  <2> QED
    <3>1. PICK snapshot : snapshot = Decoded(IF listeners[w] # None THEN listeners[w] ELSE Cache, m.lists)
      OBVIOUS
    <3>2. snapshot \in Snapshot /\ m.sample \in Nat
      <4>1. m.lists \in UpdateLists /\ m.sample \in Nat BY <1>7, AnUpdate
      <4>2. (IF listeners[w] # None THEN listeners[w] ELSE Cache) \in Snapshot
        BY FirstTyped DEF Typed
      <4> QED BY <3>1, <4>1, <4>2, DecodedTyped
    <3>3. PICK full \in BOOLEAN : full = ~(listeners[w] # None) OBVIOUS
    <3>4. Gives(m.sample, snapshot, full) \in Delivery BY <3>2, GivesFields
    <3>5. \/ HandsOver(w, Gives(m.sample, snapshot, full)) /\ UNCHANGED tasks
          \/ HandsOver(w, Failed) /\ UNCHANGED tasks
          \/ /\ tasks' = [tasks EXCEPT ![w] = [Asks(w) EXCEPT !.sample = m.sample]]
             /\ to_agent' = to_agent \o Three(w) /\ UNCHANGED waiting
      BY <1>7, <2>1, <3>1, <3>3 DEF HearsUpdate
    <3> QED BY <2>4, <2>5, <3>4, <3>5
<1>8. CASE m \in Replies /\ HearsReply(m)
  <2>1. PICK t : t = m.task OBVIOUS
  <2>2. UNCHANGED watches /\ t \in Tasks BY <1>8, <2>1, ReplyCases
  <2>3. tasks[t] \in Task /\ tasks \in [Tasks -> Task] BY <2>2 DEF Typed
  <2>4. tasks[t].at \in {"three", "processes", "states"}
    <3>1. PICK what \in What : what = m.what BY <1>8, AReply
    <3>2. m \in RepliesOf(t, what) BY <1>8, <2>1, <3>1, AReply
    <3>3. Reads(t, what) BY <1>3, <3>2, ClientWire DEF Reads
    <3>4. tasks[t].at \in {"three", what} BY <2>2, <3>3 DEF Reading, ReadingOf
    <3>5. tasks[t].at # "services" BY <2>3 DEF Task
    <3> QED BY <3>4, <3>5 DEF What
  <2>5. CASE Collects(t, m)
    <3>1. UNCHANGED <<to_agent, waiting>> BY <2>5 DEF Collects
    <3>2. tasks'[v].at = tasks[v].at
      <4>1. tasks' = [tasks EXCEPT ![t] = [tasks[t] EXCEPT !.got = Got(t, m)]] BY <2>5 DEF Collects
      <4>2. [tasks[t] EXCEPT !.got = Got(t, m)].at = tasks[t].at BY <2>3 DEF Task
      <4> QED BY <1>2, <2>3, <4>1, <4>2
    <3> QED BY <1>2, <1>4, <1>5, <2>2, <3>1, <3>2 DEF TurnOf
  <2>6. ASSUME NEW k \in Snapshot, ReadsOn(t, k)
        PROVE  TurnOf(v)'
    <3>1. PICK next \in Task : next = Goes(t, k) /\ next.at = FetchesNext(t)
      BY <2>3, <2>6, GoesFields DEF ReadsOn
    <3>2. tasks' = [tasks EXCEPT ![t] = next] /\ UNCHANGED waiting /\ next.at # "idle"
      BY <2>6, <3>1 DEF ReadsOn, FetchesNext
    <3>3. PICK get \in ToAgent : /\ get = Get(t, FetchesNext(t), k)
                                 /\ get \notin AnswersOf(v) /\ get \notin CallsFor(v)
      <4>1. FetchesNext(t) \in What BY DEF FetchesNext, What
      <4> QED BY <2>2, <4>1, AGet
    <3>4. to_agent' = Append(to_agent, get) BY <2>6, <3>3 DEF ReadsOn
    <3>5. /\ Lacks(to_agent', AnswersOf(v)) <=> Lacks(to_agent, AnswersOf(v))
          /\ AtMostOne(to_agent', AnswersOf(v)) <=> AtMostOne(to_agent, AnswersOf(v))
          /\ Lacks(to_agent', CallsFor(v)) <=> Lacks(to_agent, CallsFor(v))
          /\ AtMostOne(to_agent', CallsFor(v)) <=> AtMostOne(to_agent, CallsFor(v))
      BY <3>3, <3>4, AgentSent
    <3>6. tasks'[v].at # "idle" => tasks[v].at # "idle" BY <2>3, <2>4, <3>2, <1>2
    <3>7. tasks[v].at # "idle" => tasks'[v].at # "idle" BY <2>3, <2>4, <3>2, <1>2
    <3> QED BY <1>2, <1>4, <1>5, <2>2, <3>2, <3>5, <3>6, <3>7 DEF TurnOf
  <2>7. ASSUME NEW k \in Snapshot, Concludes(t, k)
        PROVE  TurnOf(v)'
    <3>1. tasks'[v] = tasks[v] /\ UNCHANGED <<to_agent, waiting>> BY <2>3, <2>7 DEF Concludes
    <3> QED BY <1>2, <1>4, <1>5, <2>2, <3>1 DEF TurnOf
  <2>8. ASSUME NEW k \in Snapshot, Resyncs(t, k)
        PROVE  TurnOf(v)'
    <3>1. t \in Watches /\ tasks' = [tasks EXCEPT ![t] = Idle] /\ tasks[t].sample \in Nat
      BY <2>3, <2>8 DEF Resyncs, Task
    <3>2. PICK d \in Delivery \cup {Failed} : HandsOver(t, d)
      <4>1. Gives(tasks[t].sample, k, TRUE) \in Delivery BY <3>1, GivesFields
      <4> QED BY <2>8, <4>1 DEF Resyncs
    <3>3. /\ Lacks(to_agent', CallsFor(v)) <=> Lacks(to_agent, CallsFor(v))
          /\ AtMostOne(to_agent', CallsFor(v)) <=> AtMostOne(to_agent, CallsFor(v))
      BY <3>1, <3>2, KindsOf, HandsOverSent
    <3>4. CASE v # t
      <4>1. /\ waiting'[v] = waiting[v]
            /\ Lacks(to_agent', AnswersOf(v)) <=> Lacks(to_agent, AnswersOf(v))
            /\ AtMostOne(to_agent', AnswersOf(v)) <=> AtMostOne(to_agent, AnswersOf(v))
        BY <3>1, <3>2, <3>4, HandsOverSent
      <4>2. tasks'[v] = tasks[v] BY <2>3, <3>1, <3>4
      <4> QED BY <1>2, <1>4, <1>5, <2>2, <3>3, <4>1, <4>2 DEF TurnOf
    <3>5. CASE v = t
      <4>1. ReadAfresh(v) /\ ~ReadAfresh(v)' BY <1>2, <2>3, <2>4, <3>1, <3>5, IdleFields
      <4>2. ~OnItsWay(v) /\ ~Waits(v) /\ ~IsAnswered(v) /\ pushes[v].at \notin {"none", "next"}
        BY <1>2, <4>1 DEF TurnOf
      <4>3. /\ AtMostOne(to_agent', AnswersOf(v))
            /\ Lacks(to_agent', AnswersOf(v)) \/ waiting'[v] = None
        BY <1>2, <3>1, <3>2, <3>5, <4>2, HandsOverSent DEF TurnOf
      <4> QED BY <1>2, <1>4, <1>5, <2>2, <3>3, <4>1, <4>2, <4>3 DEF TurnOf
    <3> QED BY <3>4, <3>5
  <2> QED BY <1>8, <2>1, <2>5, <2>6, <2>7, <2>8, ReplyCases
<1>9. CASE HearsNothing(m)
  <2>1. UNCHANGED <<to_agent, tasks, waiting, watches>> BY <1>9 DEF HearsNothing, reading
  <2> QED BY <1>2, <1>4, <1>5, <2>1 DEF TurnOf
<1> QED BY <1>3, <1>6, <1>7, <1>8, <1>9

\* What the client does of itself, and the end.
LEMMA TurnsByClient ==
  ASSUME Typed, Turns,
         \/ \E t \in Callers : CallsSnapshot(t) \/ Leaves(t)
         \/ \E w \in Watches : CallsWatch(w) \/ Drops(w) \/ Takes(w)
         \/ Ends
  PROVE  Turns'
<1> USE DEF OnItsWay, ReadAfresh, Waits, IsAnswered, Calling
<1>1. SUFFICES ASSUME NEW v \in Watches PROVE TurnOf(v)' BY DEF Turns
<1>2. TurnOf(v) /\ v \in Tasks /\ v \notin Callers BY SessionAssumption DEF Turns, Tasks
<1>3. ASSUME NEW t \in Callers, CallsSnapshot(t)
      PROVE  TurnOf(v)'
  <2>1. t \in Tasks /\ tasks'[v] = tasks[v] /\ to_agent' = to_agent \o Three(t)
    BY <1>2, <1>3 DEF CallsSnapshot, Typed, Tasks
  <2>2. /\ Lacks(to_agent', CallsFor(v)) <=> Lacks(to_agent, CallsFor(v))
        /\ AtMostOne(to_agent', CallsFor(v)) <=> AtMostOne(to_agent, CallsFor(v))
    BY <2>1, KindsOf, TaskSent
  <2>3. /\ Lacks(to_agent', AnswersOf(v)) <=> Lacks(to_agent, AnswersOf(v))
        /\ AtMostOne(to_agent', AnswersOf(v)) <=> AtMostOne(to_agent, AnswersOf(v))
    BY <2>1, KindsOf, TaskSent
  <2>4. UNCHANGED <<pushes, to_client, watches, waiting>> BY <1>3 DEF CallsSnapshot, agent
  <2> QED BY <1>2, <2>1, <2>2, <2>3, <2>4 DEF TurnOf
<1>4. ASSUME NEW t \in Callers, Leaves(t)
      PROVE  TurnOf(v)'
  <2>1. /\ tasks'[v] = tasks[v] /\ to_agent' = NotFor(t, to_agent) /\ to_client' = NotFor(t, to_client)
        /\ UNCHANGED <<pushes, watches, waiting>>
    BY <1>2, <1>4 DEF Leaves, Typed, agent, reading
  <2>2. \A S : Void \notin S =>
          /\ Lacks(to_agent, S) => Lacks(to_agent', S)
          /\ AtMostOne(to_agent, S) => AtMostOne(to_agent', S)
          /\ Lacks(to_client, S) => Lacks(to_client', S)
          /\ AtMostOne(to_client, S) => AtMostOne(to_client', S)
    BY <2>1, CallerLeft
  <2>3. Void \notin CallsFor(v) /\ Void \notin AnswersOf(v) /\ Void \notin UpdatesOf(v) BY AVoid
  <2> QED BY <1>2, <2>1, <2>2, <2>3 DEF TurnOf
<1>5. ASSUME NEW w \in Watches, CallsWatch(w)
      PROVE  TurnOf(v)'
  <2> DEFINE call == [kind |-> "watch", watch |-> w]
  <2>1. call \in ToAgent /\ (call \in CallsFor(v) <=> v = w) /\ call \notin AnswersOf(v) BY ACall
  <2>2. to_agent' = Append(to_agent, call) /\ watches[w].at = "new"
        /\ watches' = [watches EXCEPT ![w] = [at |-> "asked", beside |-> Cardinality(Wanted)]]
        /\ UNCHANGED <<pushes, to_client, tasks, waiting>>
    BY <1>5 DEF CallsWatch, agent
  <2> HIDE DEF call
  <2>3. /\ Lacks(to_agent', CallsFor(v)) <=> Lacks(to_agent, CallsFor(v)) /\ v # w
        /\ AtMostOne(to_agent', CallsFor(v)) <=>
             AtMostOne(to_agent, CallsFor(v)) /\ (v = w => Lacks(to_agent, CallsFor(v)))
        /\ Lacks(to_agent', AnswersOf(v)) <=> Lacks(to_agent, AnswersOf(v))
        /\ AtMostOne(to_agent', AnswersOf(v)) <=> AtMostOne(to_agent, AnswersOf(v))
    BY <2>1, <2>2, AgentSent
  <2>4. watches'[v] = IF v = w THEN [at |-> "asked", beside |-> Cardinality(Wanted)] ELSE watches[v]
    BY <2>2 DEF Typed
  <2>5. CASE v = w
    <3>1. watches'[v].at = "asked" /\ pushes[v].at = "none" /\ Lacks(to_agent, CallsFor(v))
      BY <1>2, <2>2, <2>4, <2>5 DEF TurnOf
    <3> QED BY <1>2, <2>2, <2>3, <2>5, <3>1 DEF TurnOf
  <2>6. CASE v # w BY <1>2, <2>2, <2>3, <2>4, <2>6 DEF TurnOf
  <2> QED BY <2>5, <2>6
<1>6. ASSUME NEW w \in Watches, Drops(w)
      PROVE  TurnOf(v)'
  <2>1. PICK answer \in ToAgent : /\ answer = Answer(w, FALSE) /\ answer \notin CallsFor(v)
                                  /\ (answer \in AnswersOf(v) <=> v = w)
    BY AnAnswer
  <2> DEFINE release == [kind |-> "release", watch |-> w]
  <2>2. release \in ToAgent /\ release \notin CallsFor(v) /\ release \notin AnswersOf(v)
    BY ARelease
  <2>3. to_agent \in Seq(ToAgent) BY DEF Typed
  <2>4. \/ waiting[w] = None /\ to_agent' = Append(to_agent, release)
        \/ waiting[w] # None /\ to_agent' = Append(Append(to_agent, answer), release)
    BY <1>6, <2>1, DropsSends
  <2> HIDE DEF release
  <2>5. \A S : release \notin S =>
          /\ waiting[w] = None => /\ Lacks(to_agent', S) <=> Lacks(to_agent, S)
                                  /\ AtMostOne(to_agent', S) <=> AtMostOne(to_agent, S)
          /\ waiting[w] # None => /\ Lacks(to_agent', S) <=> Lacks(to_agent, S) /\ answer \notin S
                                  /\ AtMostOne(to_agent', S) <=>
                                       AtMostOne(to_agent, S) /\ (answer \in S => Lacks(to_agent, S))
    <3>1. SUFFICES ASSUME NEW S, release \notin S
                   PROVE  /\ waiting[w] = None => /\ Lacks(to_agent', S) <=> Lacks(to_agent, S)
                                                  /\ AtMostOne(to_agent', S) <=> AtMostOne(to_agent, S)
                          /\ waiting[w] # None =>
                               /\ Lacks(to_agent', S) <=> Lacks(to_agent, S) /\ answer \notin S
                               /\ AtMostOne(to_agent', S) <=>
                                    AtMostOne(to_agent, S) /\ (answer \in S => Lacks(to_agent, S))
      OBVIOUS
    <3> DEFINE one == Append(to_agent, answer)
    <3>2. one \in Seq(ToAgent) BY <2>1, <2>3, OnAppend
    <3>3. /\ Lacks(one, S) <=> Lacks(to_agent, S) /\ answer \notin S
          /\ AtMostOne(one, S) <=> AtMostOne(to_agent, S) /\ (answer \in S => Lacks(to_agent, S))
      BY <2>1, <2>3, LacksAppend, ZenonT(60)
    <3> HIDE DEF one
    <3>4. /\ Lacks(Append(one, release), S) <=> Lacks(one, S)
          /\ AtMostOne(Append(one, release), S) <=> AtMostOne(one, S)
      BY <2>2, <3>1, <3>2, LacksAppend
    <3>5. /\ Lacks(Append(to_agent, release), S) <=> Lacks(to_agent, S)
          /\ AtMostOne(Append(to_agent, release), S) <=> AtMostOne(to_agent, S)
      BY <2>2, <2>3, <3>1, LacksAppend
    <3> QED BY <2>4, <3>3, <3>4, <3>5 DEF one
  <2>6. /\ Lacks(to_agent', CallsFor(v)) <=> Lacks(to_agent, CallsFor(v))
        /\ AtMostOne(to_agent', CallsFor(v)) <=> AtMostOne(to_agent, CallsFor(v))
        /\ v # w \/ waiting[w] = None =>
             /\ Lacks(to_agent', AnswersOf(v)) <=> Lacks(to_agent, AnswersOf(v))
             /\ AtMostOne(to_agent', AnswersOf(v)) <=> AtMostOne(to_agent, AnswersOf(v))
        /\ Lacks(to_agent, AnswersOf(v)) /\ AtMostOne(to_agent, AnswersOf(v)) =>
             AtMostOne(to_agent', AnswersOf(v))
    BY <2>1, <2>2, <2>5
  <2>7. /\ watches'[v].at = "new" => watches[v].at = "new"
        /\ waiting'[v] = (IF v = w THEN None ELSE waiting[v])
        /\ UNCHANGED <<pushes, to_client, tasks>>
    BY <1>6 DEF Drops, Typed, agent
  <2>8. CASE v # w \/ waiting[w] = None BY <1>2, <2>6, <2>7, <2>8 DEF TurnOf
  <2>9. CASE v = w /\ waiting[w] # None
    <3>1. ~OnItsWay(v) /\ ~ReadAfresh(v) /\ ~IsAnswered(v) /\ pushes[v].at \notin {"none", "next"}
      BY <1>2, <2>9 DEF TurnOf
    <3> QED BY <1>2, <2>6, <2>7, <2>9, <3>1 DEF TurnOf
  <2> QED BY <2>8, <2>9
<1>7. ASSUME NEW w \in Watches, Takes(w)
      PROVE  TurnOf(v)'
  <2>1. PICK taken \in BOOLEAN : taken = ~waiting[w].failed OBVIOUS
  <2>2. PICK answer \in ToAgent : /\ answer = Answer(w, taken) /\ answer \notin CallsFor(v)
                                  /\ (answer \in AnswersOf(v) <=> v = w)
    BY AnAnswer
  <2>3. to_agent' = Append(to_agent, answer) BY <1>7, <2>1, <2>2 DEF Takes
  <2>4. /\ Lacks(to_agent', CallsFor(v)) <=> Lacks(to_agent, CallsFor(v))
        /\ AtMostOne(to_agent', CallsFor(v)) <=> AtMostOne(to_agent, CallsFor(v))
        /\ Lacks(to_agent', AnswersOf(v)) <=> Lacks(to_agent, AnswersOf(v)) /\ v # w
        /\ AtMostOne(to_agent', AnswersOf(v)) <=>
             AtMostOne(to_agent, AnswersOf(v)) /\ (v = w => Lacks(to_agent, AnswersOf(v)))
    BY <2>2, <2>3, AgentSent
  <2>5. /\ waiting'[v] = (IF v = w THEN None ELSE waiting[v]) /\ waiting[w] # None
        /\ UNCHANGED <<pushes, to_client, tasks, watches>>
    BY <1>7 DEF Takes, Typed, agent
  <2>6. CASE v # w BY <1>2, <2>4, <2>5, <2>6 DEF TurnOf
  <2>7. CASE v = w
    <3>1. ~OnItsWay(v) /\ ~ReadAfresh(v) /\ ~IsAnswered(v) /\ pushes[v].at \notin {"none", "next"}
      BY <1>2, <2>5, <2>7 DEF TurnOf
    <3> QED BY <1>2, <2>4, <2>5, <2>7, <3>1 DEF TurnOf
  <2> QED BY <2>6, <2>7
<1>8. CASE Ends
  <2>1. to_agent' = <<>> /\ to_client' = <<>> /\ pushes'[v].at = "ended" /\ tasks'[v].at = "idle"
        /\ waiting'[v] = None /\ watches'[v].at = "dropped"
    BY <1>2, <1>8, PushFields, IdleFields DEF Ends
  <2> QED BY <2>1, NothingSent DEF TurnOf
<1> QED BY <1>3, <1>4, <1>5, <1>6, <1>7, <1>8

\* A step leaves each watch told in its turn.
LEMMA TurnsKept ==
  ASSUME Typed, Record, Onward, Reading, Places, Turns, [Next]_vars
  PROVE  Turns'
<1>1. CASE UNCHANGED vars \/ Publishes
  <2>1. UNCHANGED <<pushes, to_agent, to_client, tasks, waiting, watches>>
    BY <1>1 DEF vars, agent, wires, reading, Publishes
  <2> QED BY <2>1, TurnUntouched DEF Turns
<1> QED
  BY <1>1, TurnsByAgent, TurnsBySending, TurnsByHearing, TurnsByClient DEF Next, Agent, Client

-----------------------------------------------------------------------------
(***************************************************************************)
(* A task reads what it asked for, once.                                   *)
(***************************************************************************)
\* A watch that is dropped sends no call but its answer and its release.
LEMMA DropsOthers ==
  ASSUME Typed, NEW w \in Watches, Drops(w), NEW S, \A m \in S : m.kind \notin {"answer", "release"}
  PROVE  /\ Lacks(to_agent', S) <=> Lacks(to_agent, S)
         /\ AtMostOne(to_agent', S) <=> AtMostOne(to_agent, S)
<1> DEFINE release == [kind |-> "release", watch |-> w]
           answer == Answer(w, FALSE)
           one == Append(to_agent, answer)
<1>1. answer \in ToAgent /\ answer.kind = "answer" BY AnAnswer
<1>2. release \in ToAgent /\ release.kind = "release" BY ARelease
<1>3. to_agent \in Seq(ToAgent) BY DEF Typed
<1>4. \/ to_agent' = Append(to_agent, release)
      \/ to_agent' = Append(one, release)
  BY DropsSends
<1> HIDE DEF release, answer
<1>5. answer \notin S /\ release \notin S /\ one \in Seq(ToAgent) BY <1>1, <1>2, <1>3, OnAppend
<1>6. /\ Lacks(one, S) <=> Lacks(to_agent, S)
      /\ AtMostOne(one, S) <=> AtMostOne(to_agent, S)
  BY <1>1, <1>3, <1>5, LacksAppend
<1>7. /\ Lacks(Append(to_agent, release), S) <=> Lacks(to_agent, S)
      /\ AtMostOne(Append(to_agent, release), S) <=> AtMostOne(to_agent, S)
  BY <1>2, <1>3, <1>5, LacksAppend
<1> HIDE DEF one
<1>8. /\ Lacks(Append(one, release), S) <=> Lacks(one, S)
      /\ AtMostOne(Append(one, release), S) <=> AtMostOne(one, S)
  BY <1>2, <1>5, LacksAppend
<1> QED BY <1>4, <1>6, <1>7, <1>8

\* A step that asks nothing for a task but answers what it asked leaves it reading.
LEMMA ReadingUntouched ==
  ASSUME Typed, NEW u \in Tasks, ReadingOf(u), tasks'[u] = tasks[u], ReadsOnce(u)',
         \A what \in What :
           /\ Lacks(to_agent, GetsOf(u, what)) => Lacks(to_agent', GetsOf(u, what))
           /\ Lacks(to_client, RepliesOf(u, what)) =>
                Lacks(to_client', RepliesOf(u, what)) \/ ~Lacks(to_agent, GetsOf(u, what))
  PROVE  ReadingOf(u)'
<1>1. \A what \in What : Reads(u, what)' => Reads(u, what) BY DEF Reads
<1>2. \A what \in What :
        /\ AtMostOne(to_agent', GetsOf(u, what)) /\ AtMostOne(to_client', RepliesOf(u, what))
        /\ Lacks(to_agent', GetsOf(u, what)) \/ Lacks(to_client', RepliesOf(u, what))
        /\ Reads(u, what)' => tasks'[u].at \in {"three", what}
  BY <1>1 DEF ReadsOnce, ReadingOf
<1>3. \A i \in 1..Len(tasks'[u].got) :
       /\ \A what \in What : Reads(u, what)' => tasks'[u].got[i].what # what
       /\ \A j \in 1..Len(tasks'[u].got) : tasks'[u].got[i].what = tasks'[u].got[j].what => i = j
  BY <1>1 DEF ReadingOf
<1> QED BY <1>2, <1>3 DEF ReadingOf

\* A task that starts reads three things, each asked for once.
LEMMA TaskStarts ==
  ASSUME Typed, Reading, NEW t \in Tasks, tasks[t].at = "idle", to_agent' = to_agent \o Three(t),
         \A S : /\ Lacks(to_client, S) => Lacks(to_client', S)
                /\ AtMostOne(to_client, S) => AtMostOne(to_client', S),
         tasks'[t].at = "three", tasks'[t].got = <<>>, tasks'[t].tries = 0,
         \A u \in Tasks : u # t => tasks'[u] = tasks[u]
  PROVE  Reading'
<1>1. SUFFICES ASSUME NEW u \in Tasks PROVE ReadingOf(u)' BY DEF Reading
<1>2. ReadingOf(u) BY DEF Reading
<1>3. CASE u = t
  <2>1. ASSUME NEW what \in What
        PROVE  Lacks(to_agent, GetsOf(u, what)) /\ Lacks(to_client, RepliesOf(u, what))
    <3>1. ~Reads(u, what) BY <1>2, <1>3 DEF ReadingOf, What
    <3> QED BY <3>1 DEF Reads
  <2>2. ASSUME NEW what \in What
        PROVE  AtMostOne(to_agent', GetsOf(u, what)) /\ ~Lacks(to_agent', GetsOf(u, what))
               /\ AtMostOne(to_client', RepliesOf(u, what)) /\ Lacks(to_client', RepliesOf(u, what))
    <3>1. AtMostOne(to_client, RepliesOf(u, what)) BY <1>2 DEF ReadingOf
    <3>2. AtMostOne(to_agent', GetsOf(u, what)) BY <1>3, <2>1, TaskSent
    <3>3. ~Lacks(to_agent', GetsOf(u, what)) BY <1>3, TaskSent
    <3> QED BY <2>1, <3>1, <3>2, <3>3
  <2>3. Len(tasks'[u].got) = 0 /\ 0 <= JoinAttempts BY <1>3, SessionAssumption
  <2>4. \A i \in 1..Len(tasks'[u].got) : FALSE BY <2>3
  <2>5. \A what \in What :
          /\ AtMostOne(to_agent', GetsOf(u, what)) /\ AtMostOne(to_client', RepliesOf(u, what))
          /\ Lacks(to_agent', GetsOf(u, what)) \/ Lacks(to_client', RepliesOf(u, what))
    BY <2>2
  <2>6. tasks'[u].at = "three" /\ tasks'[u].tries <= JoinAttempts /\ Len(tasks'[u].got) <= 2
    BY <1>3, <2>3
  <2> QED BY <2>4, <2>5, <2>6 DEF ReadingOf
<1>4. CASE u # t
  <2>1. \A what \in What :
          /\ Lacks(to_agent', GetsOf(u, what)) <=> Lacks(to_agent, GetsOf(u, what))
          /\ AtMostOne(to_agent', GetsOf(u, what)) <=> AtMostOne(to_agent, GetsOf(u, what))
    BY <1>4, TaskSent
  <2>2. ReadsOnce(u)' BY <1>2, <2>1 DEF ReadsOnce, ReadingOf
  <2> QED BY <1>2, <1>4, <2>1, <2>2, ReadingUntouched
<1> QED BY <1>3, <1>4

\* No task reads at first.
LEMMA ReadingAtFirst ==
  ASSUME Init PROVE Reading
<1>1. SUFFICES ASSUME NEW t \in Tasks PROVE ReadingOf(t) BY DEF Reading
<1>2. to_agent = <<>> /\ to_client = <<>> /\ tasks[t] = Idle BY DEF Init
<1>3. Len(tasks[t].got) = 0 /\ tasks[t].tries <= JoinAttempts
  BY <1>2, IdleFields, SessionAssumption
<1>4. \A i \in 1..Len(tasks[t].got) : FALSE BY <1>3
<1> QED BY <1>2, <1>3, <1>4, NothingSent, IdleFields DEF ReadingOf, Reads

\* The agent answers what it was asked, and otherwise leaves it alone.
LEMMA ReadingByAgent ==
  ASSUME Typed, Record, Onward, Reading, Publishes \/ AgentHears \/ \E w \in Watches : Pushes(w)
  PROVE  Reading'
<1>1. SUFFICES ASSUME NEW u \in Tasks PROVE ReadingOf(u)' BY DEF Reading
<1>2. ReadingOf(u) /\ ReadsOnce(u) BY DEF Reading, ReadingOf, ReadsOnce
<1>3. CASE Publishes
  <2>1. UNCHANGED <<to_agent, to_client, tasks>> BY <1>3 DEF Publishes, wires
  <2> QED BY <1>2, <2>1, ReadingUntouched DEF ReadsOnce
<1>4. CASE AgentHears
  <2>1. PICK m \in ToAgent :
           /\ m = Head(to_agent) /\ to_agent # <<>> /\ to_agent' = Tail(to_agent)
           /\ UNCHANGED <<reading, listeners, cache, tasks, resynced, open>>
           /\ \/ m \in Gets /\ Answers(m)
              \/ m.watch \in Watches /\ m \in CallsFor(m.watch) /\ Watched(m)
              \/ m.watch \in Watches /\ m \in ReleasesOf(m.watch) /\ Released(m)
              \/ m.watch \in Watches /\ m.taken \in BOOLEAN /\ m \in AnswersOf(m.watch) /\ Answered(m)
              \/ m.kind = "void" /\ UNCHANGED <<agent, to_client>>
    BY <1>4, AgentCases
  <2>2. ASSUME NEW what \in What
        PROVE  /\ Lacks(to_agent, GetsOf(u, what)) => Lacks(to_agent', GetsOf(u, what))
               /\ AtMostOne(to_agent', GetsOf(u, what))
               /\ m \in GetsOf(u, what) => ~Lacks(to_agent, GetsOf(u, what)) /\ Lacks(to_agent', GetsOf(u, what))
    BY <1>2, <2>1, AgentWire DEF ReadsOnce
  <2>3. CASE m \in Gets /\ Answers(m)
    <3>1. PICK reply \in Replies : /\ reply = Reply(m)
                                   /\ reply.task = m.task /\ reply.what = m.what
      BY <2>3, ReplyFields DEF Record, Latest
    <3>2. to_client' = Append(to_client, reply) /\ reply \in ToClient
      BY <2>3, <3>1, AReply DEF Answers
    <3>3. ASSUME NEW what \in What
          PROVE  /\ reply \in RepliesOf(u, what) <=> m \in GetsOf(u, what)
                 /\ Lacks(to_client', RepliesOf(u, what)) <=>
                      Lacks(to_client, RepliesOf(u, what)) /\ reply \notin RepliesOf(u, what)
                 /\ AtMostOne(to_client', RepliesOf(u, what)) <=>
                      /\ AtMostOne(to_client, RepliesOf(u, what))
                      /\ (reply \in RepliesOf(u, what) => Lacks(to_client, RepliesOf(u, what)))
      <4>1. m.kind = "get" /\ m \in ToAgent BY <2>3 DEF Gets, ToAgent
      <4>2. m \in GetsOf(u, what) <=> m.task = u /\ m.what = what BY <4>1 DEF GetsOf
      <4>3. reply \in RepliesOf(u, what) <=> m.task = u /\ m.what = what BY <3>1, AReply
      <4> QED BY <3>2, <4>2, <4>3, ClientSent
    <3>4. ReadsOnce(u)' BY <1>2, <2>2, <3>3 DEF ReadsOnce
    <3>5. \A what \in What :
           /\ Lacks(to_agent, GetsOf(u, what)) => Lacks(to_agent', GetsOf(u, what))
           /\ Lacks(to_client, RepliesOf(u, what)) =>
                Lacks(to_client', RepliesOf(u, what)) \/ ~Lacks(to_agent, GetsOf(u, what))
      BY <2>2, <3>3
    <3> QED BY <1>2, <2>1, <3>4, <3>5, ReadingUntouched
  <2>4. CASE \A what \in What :
               /\ Lacks(to_client', RepliesOf(u, what)) <=> Lacks(to_client, RepliesOf(u, what))
               /\ AtMostOne(to_client', RepliesOf(u, what)) <=> AtMostOne(to_client, RepliesOf(u, what))
    <3>1. ReadsOnce(u)' BY <1>2, <2>2, <2>4 DEF ReadsOnce
    <3> QED BY <1>2, <2>1, <2>2, <2>4, <3>1, ReadingUntouched
  <2>5. CASE m.watch \in Watches /\ Watched(m)
    <3>1. PICK w \in Watches : w = m.watch BY <2>5
    <3>2. PICK taken \in BOOLEAN : taken = ~Full OBVIOUS
    <3> DEFINE watching == [kind |-> "watching", watch |-> w, taken |-> taken]
    <3>3. to_client' = Append(to_client, watching) BY <2>5, <3>1, <3>2 DEF Watched
    <3>4. watching \in ToClient /\ \A what : watching \notin RepliesOf(u, what) BY AWatching
    <3> HIDE DEF watching
    <3> QED BY <2>4, <3>3, <3>4, ClientSent
  <2>6. CASE UNCHANGED to_client BY <2>4, <2>6
  <2> QED BY <2>1, <2>3, <2>5, <2>6 DEF Released, Answered
<1>5. ASSUME NEW w \in Watches, Pushes(w)
      PROVE  ReadingOf(u)'
  <2>1. PICK m \in Updates : to_client' = Append(to_client, m) BY <1>5, PushSent
  <2>2. m \in ToClient /\ \A what : m \notin RepliesOf(u, what) BY AnUpdate
  <2>3. \A what \in What :
          /\ Lacks(to_client', RepliesOf(u, what)) <=> Lacks(to_client, RepliesOf(u, what))
          /\ AtMostOne(to_client', RepliesOf(u, what)) <=> AtMostOne(to_client, RepliesOf(u, what))
    BY <2>1, <2>2, ClientSent
  <2>4. UNCHANGED <<to_agent, tasks>> BY <1>5 DEF Pushes
  <2>5. ReadsOnce(u)' BY <1>2, <2>3, <2>4 DEF ReadsOnce
  <2> QED BY <1>2, <2>3, <2>4, <2>5, ReadingUntouched
<1> QED BY <1>3, <1>4, <1>5

\* An answer that comes is of a task that waits for it, and it waits for
\* nothing else when it goes on.
LEMMA AnswerAwaited ==
  ASSUME Typed, Reading, to_client # <<>>, NEW m \in Replies, m = Head(to_client),
         NEW t, t = m.task
  PROVE  /\ t \in Tasks /\ tasks[t].at \in {"three", "processes", "states"}
         /\ m.what \in What /\ Reads(t, m.what)
         /\ Lacks(to_agent, GetsOf(t, m.what))
         /\ tasks[t].at # "three" => m.what = tasks[t].at
         /\ Len(Got(t, m)) \in 1..3 /\ Got(t, m) \in Seq(Replies)
         /\ \A i \in 1..Len(Got(t, m)) :
              /\ \/ i \in 1..Len(tasks[t].got) /\ Got(t, m)[i] = tasks[t].got[i]
                 \/ i = Len(Got(t, m)) /\ Got(t, m)[i] = m
              /\ \A j \in 1..Len(Got(t, m)) : Got(t, m)[i].what = Got(t, m)[j].what => i = j
         /\ (tasks[t].at = "three" => Len(Got(t, m)) = 3) =>
              \A what \in What : what # m.what => ~Reads(t, what)
         /\ tasks[t].at # "three" => Len(Got(t, m)) = 1
<1>1. t \in Tasks /\ m.what \in What /\ m \in RepliesOf(t, m.what) BY AReply
<1>2. tasks[t] \in Task /\ tasks[t].got \in Seq(Replies) /\ to_client \in Seq(ToClient) /\ ReadingOf(t)
  BY <1>1 DEF Typed, Task, Reading
<1>3. ~Lacks(to_client, RepliesOf(t, m.what)) BY <1>1, <1>2, LacksTail
<1>4. Reads(t, m.what) /\ Lacks(to_agent, GetsOf(t, m.what))
  BY <1>1, <1>2, <1>3 DEF Reads, ReadingOf
<1>5. tasks[t].at \in {"three", m.what} BY <1>1, <1>2, <1>4 DEF ReadingOf
<1>6. tasks[t].at \in {"three", "processes", "states"} /\ (tasks[t].at # "three" => m.what = tasks[t].at)
  BY <1>1, <1>2, <1>5 DEF Task, What
<1> DEFINE before == tasks[t].got
           n == Len(before)
           got == Got(t, m)
<1>7. /\ got \in Seq(Replies) /\ Len(got) = n + 1 /\ n \in Nat
      /\ \A i \in 1..n : got[i] = before[i]
      /\ got[n + 1] = m
      /\ \A i \in 1..(n + 1) : i \in 1..n \/ i = n + 1
  BY <1>2, OnAppend, SMTT(20) DEF Got
<1>8. n <= 2 /\ (tasks[t].at # "three" => n = 0) BY <1>2 DEF ReadingOf
<1>9. \A i \in 1..n : /\ before[i].what # m.what
                      /\ \A j \in 1..n : before[i].what = before[j].what => i = j
  BY <1>1, <1>2, <1>4 DEF ReadingOf
<1>10. \A i \in 1..n : /\ before[i].what \in What
                       /\ \A what \in What : Reads(t, what) => before[i].what # what
  <2>1. \A i \in 1..n : before[i].what \in What BY <1>2, AReply
  <2>2. \A i \in 1..n : \A what \in What : Reads(t, what) => before[i].what # what
    BY <1>2 DEF ReadingOf
  <2> QED BY <2>1, <2>2
<1> HIDE DEF before, n, got
<1>11. \A i \in 1..Len(got) :
         /\ (i \in 1..n /\ got[i] = before[i]) \/ (i = Len(got) /\ got[i] = m)
         /\ \A j \in 1..Len(got) : got[i].what = got[j].what => i = j
  <2>1. SUFFICES ASSUME NEW i \in 1..(n + 1)
                 PROVE  /\ (i \in 1..n /\ got[i] = before[i]) \/ (i = n + 1 /\ got[i] = m)
                        /\ \A j \in 1..(n + 1) : got[i].what = got[j].what => i = j
    BY <1>7
  <2>2. CASE i \in 1..n
    <3>1. ASSUME NEW j \in 1..(n + 1), got[i].what = got[j].what
          PROVE  i = j
      <4>1. CASE j \in 1..n BY <1>7, <1>9, <2>2, <3>1, <4>1
      <4>2. CASE j = n + 1 BY <1>7, <1>9, <2>2, <3>1, <4>2
      <4> QED BY <1>7, <4>1, <4>2
    <3> QED BY <1>7, <2>2, <3>1
  <2>3. CASE i = n + 1
    <3>1. ASSUME NEW j \in 1..(n + 1), got[i].what = got[j].what
          PROVE  i = j
      <4>1. CASE j \in 1..n BY <1>7, <1>9, <2>3, <3>1, <4>1
      <4>2. CASE j = n + 1 BY <2>3, <4>2
      <4> QED BY <1>7, <4>1, <4>2
    <3> QED BY <1>7, <2>3, <3>1
  <2> QED BY <1>7, <2>2, <2>3
<1>12. ASSUME tasks[t].at = "three" => Len(got) = 3, NEW what \in What, what # m.what
       PROVE  ~Reads(t, what)
  <2>1. CASE tasks[t].at # "three"
    <3>1. what # "three" BY DEF What
    <3> QED BY <1>2, <1>6, <1>12, <2>1 DEF ReadingOf
  <2>2. CASE tasks[t].at = "three"
    <3>1. n = 2 /\ 1 \in 1..n /\ 2 \in 1..n BY <1>7, <1>12, <2>2
    <3>2. before[1].what # before[2].what BY <1>9, <3>1
    <3>3. before[1].what # m.what /\ before[2].what # m.what BY <1>9, <3>1
    <3>4. before[1].what \in What /\ before[2].what \in What BY <1>10, <3>1
    <3>5. what = before[1].what \/ what = before[2].what BY <1>1, <1>12, <3>2, <3>3, <3>4 DEF What
    <3> QED BY <1>10, <3>1, <3>5
  <2> QED BY <2>1, <2>2
<1>13. Len(got) \in 1..3 /\ (tasks[t].at # "three" => Len(got) = 1) BY <1>7, <1>8
<1> QED BY <1>1, <1>4, <1>6, <1>7, <1>11, <1>12, <1>13 DEF before, n, got

\* What one task hears does not concern another.
LEMMA OthersUntouched ==
  ASSUME Typed, Reading, NEW u \in Tasks, tasks'[u] = tasks[u],
         to_client # <<>>, to_client' = Tail(to_client),
         \A what \in What :
           /\ Lacks(to_agent', GetsOf(u, what)) <=> Lacks(to_agent, GetsOf(u, what))
           /\ AtMostOne(to_agent', GetsOf(u, what)) <=> AtMostOne(to_agent, GetsOf(u, what))
  PROVE  ReadingOf(u)'
<1>1. ReadingOf(u) /\ ReadsOnce(u) BY DEF Reading, ReadingOf, ReadsOnce
<1>2. \A S : /\ Lacks(to_client, S) => Lacks(to_client', S)
             /\ AtMostOne(to_client, S) => AtMostOne(to_client', S)
  BY ClientWire
<1>3. ReadsOnce(u)' BY <1>1, <1>2 DEF ReadsOnce
<1> QED BY <1>1, <1>2, <1>3, ReadingUntouched

\* Once it goes on, a task waits for nothing of what it asked for before.
LEMMA AnswerHeard ==
  ASSUME Typed, Reading, to_client # <<>>, to_client' = Tail(to_client),
         NEW m \in Replies, m = Head(to_client), NEW t, t = m.task
  PROVE  /\ Lacks(to_agent, GetsOf(t, m.what)) /\ Lacks(to_client', RepliesOf(t, m.what))
         /\ \A what \in What : /\ AtMostOne(to_client', RepliesOf(t, what))
                               /\ AtMostOne(to_agent, GetsOf(t, what))
                               /\ Lacks(to_client, RepliesOf(t, what)) => Lacks(to_client', RepliesOf(t, what))
                               /\ Lacks(to_agent, GetsOf(t, what)) \/ Lacks(to_client', RepliesOf(t, what))
         /\ (tasks[t].at = "three" => Len(Got(t, m)) = 3) =>
              \A what \in What : /\ Lacks(to_agent, GetsOf(t, what))
                                 /\ Lacks(to_client', RepliesOf(t, what))
<1>1. t \in Tasks /\ m.what \in What /\ m \in RepliesOf(t, m.what) /\ Lacks(to_agent, GetsOf(t, m.what))
  BY AReply, AnswerAwaited
<1>2. ReadsOnce(t) BY <1>1 DEF Reading, ReadingOf, ReadsOnce
<1>3. \A S : /\ Lacks(to_client, S) => Lacks(to_client', S)
             /\ AtMostOne(to_client, S) => AtMostOne(to_client', S) /\ (m \in S => Lacks(to_client', S))
  BY ClientWire
<1>4. Lacks(to_client', RepliesOf(t, m.what)) BY <1>1, <1>2, <1>3 DEF ReadsOnce
<1>5. \A what \in What : /\ AtMostOne(to_client', RepliesOf(t, what))
                         /\ AtMostOne(to_agent, GetsOf(t, what))
                         /\ Lacks(to_client, RepliesOf(t, what)) => Lacks(to_client', RepliesOf(t, what))
                         /\ Lacks(to_agent, GetsOf(t, what)) \/ Lacks(to_client', RepliesOf(t, what))
  BY <1>2, <1>3 DEF ReadsOnce
<1>6. ASSUME tasks[t].at = "three" => Len(Got(t, m)) = 3, NEW what \in What
      PROVE  Lacks(to_agent, GetsOf(t, what)) /\ Lacks(to_client', RepliesOf(t, what))
  <2>1. CASE what = m.what BY <1>1, <1>4, <2>1
  <2>2. CASE what # m.what
    <3>1. ~Reads(t, what) BY <1>6, <2>2, AnswerAwaited
    <3> QED BY <1>5, <3>1 DEF Reads
  <2> QED BY <2>1, <2>2
<1> QED BY <1>1, <1>4, <1>5, <1>6

\* A task that got one of three waits for the others.
LEMMA ReadingCollects ==
  ASSUME Typed, Reading, to_client # <<>>, to_client' = Tail(to_client),
         NEW m \in Replies, m = Head(to_client), NEW t, t = m.task, Collects(t, m)
  PROVE  Reading'
<1>1. SUFFICES ASSUME NEW u \in Tasks PROVE ReadingOf(u)' BY DEF Reading
<1>2. /\ tasks[t].at = "three" /\ Len(Got(t, m)) # 3 /\ UNCHANGED to_agent
      /\ tasks' = [tasks EXCEPT ![t] = [tasks[t] EXCEPT !.got = Got(t, m)]]
  BY DEF Collects
<1>3. tasks \in [Tasks -> Task] /\ t \in Tasks /\ ReadingOf(t) /\ Got(t, m) \in Seq(Replies)
  BY AnswerAwaited DEF Typed, Reading
<1>4. CASE u # t
  <2>1. tasks'[u] = tasks[u] BY <1>2, <1>3, <1>4
  <2> QED BY <1>2, <2>1, OthersUntouched
<1>5. CASE u = t
  <2>1. /\ tasks'[t].at = "three" /\ tasks'[t].got = Got(t, m) /\ tasks'[t].tries = tasks[t].tries
    <3> DEFINE gots == Seq(Replies)
               next == [tasks[t] EXCEPT !.got = Got(t, m)]
    <3>1. tasks[t] \in [at : {"idle", "three", "processes", "states", "done"}, tries : Nat,
                        since : Nat, got : gots, sample : Nat, result : Snapshot \cup {None}]
      BY <1>3 DEF Task
    <3> HIDE DEF gots
    <3>2. next.at = "three" /\ next.got = Got(t, m) /\ next.tries = tasks[t].tries BY <1>2, <3>1
    <3>3. tasks' = [tasks EXCEPT ![t] = next] BY <1>2
    <3> HIDE DEF next
    <3> QED BY <1>3, <3>2, <3>3
  <2>2. Len(Got(t, m)) \in 1..3 /\ tasks[t].tries <= JoinAttempts
    BY <1>3, AnswerAwaited DEF ReadingOf
  <2>3. Len(tasks'[t].got) <= 2 /\ tasks'[t].tries <= JoinAttempts
    <3>1. PICK n \in 1..3 : n = Len(Got(t, m)) /\ n # 3 BY <1>2, <2>2
    <3>2. n <= 2
      <4>1. \A l \in 1..3 : l # 3 => l <= 2 OBVIOUS
      <4> QED BY <3>1, <4>1
    <3>3. Len(tasks'[t].got) = n BY <2>1, <3>1
    <3> QED BY <2>1, <2>2, <3>2, <3>3
  <2>4. \A what \in What :
          /\ AtMostOne(to_agent', GetsOf(t, what)) /\ AtMostOne(to_client', RepliesOf(t, what))
          /\ Lacks(to_agent', GetsOf(t, what)) \/ Lacks(to_client', RepliesOf(t, what))
          /\ Reads(t, what)' => Reads(t, what) /\ what # m.what
    BY <1>2, AnswerHeard DEF Reads
  <2>5. ASSUME NEW i \in 1..Len(Got(t, m))
        PROVE  /\ \A what \in What : Reads(t, what)' => Got(t, m)[i].what # what
               /\ \A j \in 1..Len(Got(t, m)) : Got(t, m)[i].what = Got(t, m)[j].what => i = j
    <3>1. /\ \/ i \in 1..Len(tasks[t].got) /\ Got(t, m)[i] = tasks[t].got[i]
             \/ Got(t, m)[i] = m
          /\ \A j \in 1..Len(Got(t, m)) : Got(t, m)[i].what = Got(t, m)[j].what => i = j
      BY AnswerAwaited
    <3>2. \A j \in 1..Len(tasks[t].got) : \A what \in What : Reads(t, what) => tasks[t].got[j].what # what
      BY <1>3 DEF ReadingOf
    <3> QED BY <2>4, <3>1, <3>2
  <2>6. ReadingOf(t)' BY <2>1, <2>3, <2>4, <2>5 DEF ReadingOf
  <2> QED BY <1>5, <2>6
<1> QED BY <1>4, <1>5

\* A task that reads nothing of what is on the wires.
LEMMA ReadingOfNothing ==
  ASSUME NEW t, tasks'[t].at \in {"idle", "done"}, tasks'[t].got = <<>>, tasks'[t].tries <= JoinAttempts,
         \A what \in What : Lacks(to_agent', GetsOf(t, what)) /\ Lacks(to_client', RepliesOf(t, what))
  PROVE  ReadingOf(t)'
<1>1. Len(tasks'[t].got) = 0 OBVIOUS
<1>2. \A i \in 1..Len(tasks'[t].got) : FALSE BY <1>1
<1>3. \A what \in What :
        /\ AtMostOne(to_agent', GetsOf(t, what)) /\ AtMostOne(to_client', RepliesOf(t, what))
        /\ ~Reads(t, what)'
  BY DEF Lacks, AtMostOne, Reads
<1> QED BY <1>1, <1>2, <1>3 DEF ReadingOf

\* A task that reads on asks for one thing more.
LEMMA ReadingReadsOn ==
  ASSUME Typed, Reading, to_client # <<>>, to_client' = Tail(to_client),
         NEW m \in Replies, m = Head(to_client), NEW t, t = m.task, NEW k \in Snapshot,
         tasks[t].at = "three" => Len(Got(t, m)) = 3, ReadsOn(t, k)
  PROVE  Reading'
<1>1. SUFFICES ASSUME NEW u \in Tasks PROVE ReadingOf(u)' BY DEF Reading
<1>2. PICK get : get = Get(t, FetchesNext(t), k) OBVIOUS
<1>3. PICK next : next = Goes(t, k) OBVIOUS
<1>4. /\ to_agent' = Append(to_agent, get) /\ tasks' = [tasks EXCEPT ![t] = next] /\ ~Over(t, k)
  BY <1>2, <1>3 DEF ReadsOn
<1>5. /\ tasks \in [Tasks -> Task] /\ t \in Tasks /\ tasks[t] \in Task /\ ReadingOf(t)
      /\ tasks[t].at \in {"three", "processes", "states"}
  BY AnswerAwaited DEF Typed, Reading
<1>6. FetchesNext(t) \in What /\ FetchesNext(t) \in {"processes", "states"}
  BY DEF FetchesNext, What
<1>7. get \in ToAgent /\ \A v, what : get \in GetsOf(v, what) <=> v = t /\ what = FetchesNext(t)
  BY <1>2, <1>5, <1>6, AGet
<1>8. \A v, what :
        /\ Lacks(to_agent', GetsOf(v, what)) <=>
             Lacks(to_agent, GetsOf(v, what)) /\ ~(v = t /\ what = FetchesNext(t))
        /\ AtMostOne(to_agent', GetsOf(v, what)) <=>
             /\ AtMostOne(to_agent, GetsOf(v, what))
             /\ (v = t /\ what = FetchesNext(t) => Lacks(to_agent, GetsOf(v, what)))
  BY <1>4, <1>7, AgentSent
<1>9. CASE u # t
  <2>1. tasks'[u] = tasks[u] BY <1>4, <1>5, <1>9
  <2> QED BY <1>8, <1>9, <2>1, OthersUntouched
<1>10. CASE u = t
  <2>1. /\ tasks'[t] = next /\ next.got = <<>> /\ next.at = FetchesNext(t)
        /\ next.tries = IF FetchesNext(t) = "processes" THEN tasks[t].tries + 1 ELSE tasks[t].tries
    BY <1>3, <1>4, <1>5, GoesFields
  <2>2. next.tries <= JoinAttempts
    <3>1. tasks[t].tries <= JoinAttempts /\ tasks[t].tries \in Nat BY <1>5 DEF ReadingOf, Task
    <3>2. CASE FetchesNext(t) = "processes"
      <4>1. tasks[t].at \in {"three", "states"} BY <1>5, <3>2 DEF FetchesNext
      <4>2. tasks[t].tries # JoinAttempts BY <1>4, <4>1 DEF Over
      <4> QED BY <2>1, <3>1, <3>2, <4>2, SessionAssumption
    <3> QED BY <2>1, <3>1, <3>2
  <2>3. \A what \in What : Lacks(to_agent, GetsOf(t, what)) /\ Lacks(to_client', RepliesOf(t, what))
                           /\ AtMostOne(to_client', RepliesOf(t, what)) /\ AtMostOne(to_agent, GetsOf(t, what))
    BY AnswerHeard
  <2>4. \A what \in What :
          /\ AtMostOne(to_agent', GetsOf(t, what)) /\ AtMostOne(to_client', RepliesOf(t, what))
          /\ Lacks(to_agent', GetsOf(t, what)) \/ Lacks(to_client', RepliesOf(t, what))
          /\ Reads(t, what)' => FetchesNext(t) = what
    BY <1>8, <2>3 DEF Reads
  <2>5. Len(tasks'[t].got) = 0 BY <2>1
  <2>6. \A i \in 1..Len(tasks'[t].got) : FALSE BY <2>5
  <2>7. ReadingOf(t)' BY <2>1, <2>2, <2>4, <2>5, <2>6 DEF ReadingOf
  <2> QED BY <1>10, <2>7
<1> QED BY <1>9, <1>10

\* A task that is over reads nothing.
LEMMA ReadingEnds ==
  ASSUME Typed, Reading, to_client # <<>>, to_client' = Tail(to_client),
         NEW m \in Replies, m = Head(to_client), NEW t, t = m.task, NEW k \in Snapshot,
         tasks[t].at = "three" => Len(Got(t, m)) = 3, Concludes(t, k) \/ Resyncs(t, k)
  PROVE  Reading'
<1>1. SUFFICES ASSUME NEW u \in Tasks PROVE ReadingOf(u)' BY DEF Reading
<1>2. PICK next \in {Goes(t, k), Idle} : tasks' = [tasks EXCEPT ![t] = next] /\ Over(t, k)
  BY DEF Concludes, Resyncs
<1>3. tasks \in [Tasks -> Task] /\ t \in Tasks /\ tasks[t] \in Task /\ ReadingOf(t)
  BY AnswerAwaited DEF Typed, Reading
<1>4. \A v, what : /\ Lacks(to_agent', GetsOf(v, what)) <=> Lacks(to_agent, GetsOf(v, what))
                   /\ AtMostOne(to_agent', GetsOf(v, what)) <=> AtMostOne(to_agent, GetsOf(v, what))
  <2>1. CASE UNCHANGED to_agent BY <2>1
  <2>2. CASE t \in Watches /\ \E d \in Delivery \cup {Failed} : HandsOver(t, d)
    <3>1. PICK d \in Delivery \cup {Failed} : HandsOver(t, d) BY <2>2
    <3>2. \A S : (\A x \in S : x.kind # "answer") =>
              /\ Lacks(to_agent', S) <=> Lacks(to_agent, S)
              /\ AtMostOne(to_agent', S) <=> AtMostOne(to_agent, S)
      BY <2>2, <3>1, HandsOverSent
    <3> QED BY <3>2, KindsOf
  <2>3. Resyncs(t, k) => t \in Watches /\ \E d \in Delivery \cup {Failed} : HandsOver(t, d)
    <3>1. tasks[t].sample \in Nat BY <1>3 DEF Task
    <3>2. Gives(tasks[t].sample, k, TRUE) \in Delivery BY <3>1, GivesFields, ZenonT(60)
    <3> QED BY <3>2 DEF Resyncs
  <2> QED BY <2>1, <2>2, <2>3 DEF Concludes
<1>5. CASE u # t
  <2>1. tasks'[u] = tasks[u] BY <1>2, <1>3, <1>5
  <2> QED BY <1>4, <2>1, OthersUntouched
<1>6. CASE u = t
  <2>1. tasks'[t] = next /\ next.at \in {"idle", "done"} /\ next.got = <<>>
        /\ next.tries \in {tasks[t].tries, 0}
    BY <1>2, <1>3, GoesFields, IdleFields
  <2>2. tasks[t].tries <= JoinAttempts /\ 0 <= JoinAttempts
    BY <1>3, SessionAssumption DEF ReadingOf
  <2>3. \A what \in What : Lacks(to_agent', GetsOf(t, what)) /\ Lacks(to_client', RepliesOf(t, what))
    BY <1>4, AnswerHeard
  <2>4. ReadingOf(t)' BY <2>1, <2>2, <2>3, ReadingOfNothing
  <2> QED BY <1>6, <2>4
<1> QED BY <1>5, <1>6

\* What the client hears, a task waited for or never asked.
LEMMA ReadingByHearing ==
  ASSUME Typed, Record, Reading, Turns, ClientHears
  PROVE  Reading'
<1>1. PICK m \in ToClient :
           /\ m = Head(to_client) /\ to_client # <<>> /\ to_client' = Tail(to_client)
           /\ UNCHANGED <<agent, open>>
           /\ \/ HearsWatching(m)
              \/ m \in Updates /\ HearsUpdate(m)
              \/ m \in Replies /\ HearsReply(m)
              \/ HearsNothing(m)
  BY ClientCases
<1>2. CASE UNCHANGED tasks /\ \A v, what :
             /\ Lacks(to_agent', GetsOf(v, what)) <=> Lacks(to_agent, GetsOf(v, what))
             /\ AtMostOne(to_agent', GetsOf(v, what)) <=> AtMostOne(to_agent, GetsOf(v, what))
  <2>1. SUFFICES ASSUME NEW u \in Tasks PROVE ReadingOf(u)' BY DEF Reading
  <2> QED BY <1>1, <1>2, OthersUntouched
<1>3. CASE HearsWatching(m) \/ HearsNothing(m)
  <2>1. UNCHANGED <<tasks, to_agent>> BY <1>3 DEF HearsWatching, HearsNothing
  <2> QED BY <1>2, <2>1
<1>4. CASE m \in Updates /\ HearsUpdate(m)
  <2>1. PICK w \in Watches : w = m.watch BY <1>4, AnUpdate
  <2>2. m \in UpdatesOf(w) /\ w \in Tasks BY <1>4, <2>1, AnUpdate DEF Tasks
  <2>3. PICK snapshot : snapshot = Decoded(IF listeners[w] # None THEN listeners[w] ELSE Cache, m.lists)
    OBVIOUS
  <2>4. snapshot \in Snapshot
    <3>1. m.lists \in UpdateLists BY <1>4, AnUpdate
    <3>2. (IF listeners[w] # None THEN listeners[w] ELSE Cache) \in Snapshot
      BY FirstTyped DEF Typed
    <3> QED BY <2>3, <3>1, <3>2, DecodedTyped
  <2>5. PICK full \in BOOLEAN : full = ~(listeners[w] # None) OBVIOUS
  <2>6. \/ HandsOver(w, Gives(m.sample, snapshot, full)) /\ UNCHANGED tasks
        \/ HandsOver(w, Failed) /\ UNCHANGED tasks
        \/ /\ tasks' = [tasks EXCEPT ![w] = [Asks(w) EXCEPT !.sample = m.sample]]
           /\ to_agent' = to_agent \o Three(w)
    BY <1>4, <2>1, <2>3, <2>5 DEF HearsUpdate
  <2>7. Gives(m.sample, snapshot, full) \in Delivery BY <1>4, <2>4, AnUpdate, GivesFields
  <2>8. CASE UNCHANGED tasks /\ \E d \in Delivery \cup {Failed} : HandsOver(w, d)
    <3>1. PICK d \in Delivery \cup {Failed} : HandsOver(w, d) BY <2>8
    <3>2. \A S : (\A x \in S : x.kind # "answer") =>
              /\ Lacks(to_agent', S) <=> Lacks(to_agent, S)
              /\ AtMostOne(to_agent', S) <=> AtMostOne(to_agent, S)
      BY <3>1, HandsOverSent
    <3> QED BY <1>2, <2>8, <3>2, KindsOf
  <2>9. CASE /\ tasks' = [tasks EXCEPT ![w] = [Asks(w) EXCEPT !.sample = m.sample]]
             /\ to_agent' = to_agent \o Three(w)
    <3>1. tasks[w].at = "idle"
      <4>1. ~Lacks(to_client, UpdatesOf(w)) BY <1>1, <2>2, ClientWire
      <4> QED BY <4>1 DEF Turns, TurnOf, OnItsWay, ReadAfresh
    <3>2. \A S : /\ Lacks(to_client, S) => Lacks(to_client', S)
                 /\ AtMostOne(to_client, S) => AtMostOne(to_client', S)
      BY <1>1, ClientWire
    <3> DEFINE asks == [Asks(w) EXCEPT !.sample = m.sample]
    <3>3. asks.at = "three" /\ asks.got = <<>> /\ asks.tries = 0 BY DEF Asks, Idle
    <3>4. tasks' = [tasks EXCEPT ![w] = asks] /\ tasks \in [Tasks -> Task] BY <2>9 DEF Typed
    <3> HIDE DEF asks
    <3>5. tasks'[w] = asks /\ \A u \in Tasks : u # w => tasks'[u] = tasks[u] BY <2>2, <3>4
    <3> QED BY <2>2, <2>9, <3>1, <3>2, <3>3, <3>5, TaskStarts
  <2> QED BY <2>6, <2>7, <2>8, <2>9
<1>5. CASE m \in Replies /\ HearsReply(m)
  <2>1. PICK t : t = m.task OBVIOUS
  <2>2. \/ Collects(t, m)
        \/ \E k \in Snapshot :
             /\ (tasks[t].at = "three" => Len(Got(t, m)) = 3)
             /\ ReadsOn(t, k) \/ Concludes(t, k) \/ Resyncs(t, k)
    BY <1>5, <2>1, ReplyCases
  <2>3. CASE Collects(t, m) BY <1>1, <1>5, <2>1, <2>3, ReadingCollects
  <2>4. CASE \E k \in Snapshot :
             /\ (tasks[t].at = "three" => Len(Got(t, m)) = 3)
             /\ ReadsOn(t, k) \/ Concludes(t, k) \/ Resyncs(t, k)
    <3>1. PICK k \in Snapshot : /\ (tasks[t].at = "three" => Len(Got(t, m)) = 3)
                                /\ ReadsOn(t, k) \/ Concludes(t, k) \/ Resyncs(t, k)
      BY <2>4
    <3>2. CASE ReadsOn(t, k) BY <1>1, <1>5, <2>1, <3>1, <3>2, ReadingReadsOn
    <3>3. CASE Concludes(t, k) \/ Resyncs(t, k) BY <1>1, <1>5, <2>1, <3>1, <3>3, ReadingEnds
    <3> QED BY <3>1, <3>2, <3>3
  <2> QED BY <2>2, <2>3, <2>4
<1> QED BY <1>1, <1>3, <1>4, <1>5

\* What the client does of itself: a call starts, or is left with all of it.
LEMMA ReadingByClient ==
  ASSUME Typed, Record, Reading,
         \/ \E t \in Callers : CallsSnapshot(t) \/ Leaves(t)
         \/ \E w \in Watches : CallsWatch(w) \/ Drops(w) \/ Takes(w)
         \/ Ends
  PROVE  Reading'
<1>1. ASSUME NEW t \in Callers, CallsSnapshot(t)
      PROVE  Reading'
  <2>1. t \in Tasks /\ tasks[t].at = "idle" /\ to_agent' = to_agent \o Three(t) /\ UNCHANGED to_client
    BY <1>1 DEF CallsSnapshot, Tasks
  <2>2. PICK asks : asks = Asks(t) OBVIOUS
  <2>3. asks.at = "three" /\ asks.got = <<>> /\ asks.tries = 0 BY <2>2, AsksFields DEF Record
  <2>4. tasks' = [tasks EXCEPT ![t] = asks] /\ tasks \in [Tasks -> Task]
    BY <1>1, <2>2 DEF CallsSnapshot, Typed
  <2>5. tasks'[t] = asks /\ \A u \in Tasks : u # t => tasks'[u] = tasks[u] BY <2>1, <2>4
  <2> QED BY <2>1, <2>3, <2>5, TaskStarts
<1>2. ASSUME NEW t \in Callers, Leaves(t)
      PROVE  Reading'
  <2>1. SUFFICES ASSUME NEW u \in Tasks PROVE ReadingOf(u)' BY DEF Reading
  <2>2. /\ tasks' = [tasks EXCEPT ![t] = Idle] /\ t \in Tasks
        /\ to_agent' = NotFor(t, to_agent) /\ to_client' = NotFor(t, to_client)
    BY <1>2 DEF Leaves, Tasks
  <2>3. \A v, what : Void \notin GetsOf(v, what) /\ Void \notin RepliesOf(v, what) BY AVoid
  <2>4. CASE u = t
    <3>1. tasks'[u] = Idle BY <2>2, <2>4 DEF Typed
    <3>2. ASSUME NEW what \in What
          PROVE  Lacks(to_agent', GetsOf(u, what)) /\ Lacks(to_client', RepliesOf(u, what))
      <4>1. /\ \A x \in GetsOf(u, what) : x.kind \in {"get", "reply"} /\ x.task = t
            /\ \A x \in RepliesOf(u, what) : x.kind \in {"get", "reply"} /\ x.task = t
        BY <2>4, KindsOf
      <4> QED BY <2>2, <2>3, <4>1, CallerLeft
    <3> QED BY <3>1, <3>2, IdleFields, SessionAssumption, ReadingOfNothing
  <2>5. CASE u # t
    <3>1. tasks'[u] = tasks[u] /\ ReadingOf(u) /\ ReadsOnce(u)
      BY <2>2, <2>5 DEF Typed, Reading, ReadingOf, ReadsOnce
    <3>2. \A what : /\ Lacks(to_agent, GetsOf(u, what)) => Lacks(to_agent', GetsOf(u, what))
                    /\ AtMostOne(to_agent, GetsOf(u, what)) => AtMostOne(to_agent', GetsOf(u, what))
                    /\ Lacks(to_client, RepliesOf(u, what)) => Lacks(to_client', RepliesOf(u, what))
                    /\ AtMostOne(to_client, RepliesOf(u, what)) => AtMostOne(to_client', RepliesOf(u, what))
      BY <2>2, <2>3, CallerLeft
    <3>3. ReadsOnce(u)' BY <3>1, <3>2 DEF ReadsOnce
    <3> QED BY <3>1, <3>2, <3>3, ReadingUntouched
  <2> QED BY <2>4, <2>5
<1>3. ASSUME UNCHANGED <<tasks, to_client>>,
             \A v, what :
               /\ Lacks(to_agent', GetsOf(v, what)) <=> Lacks(to_agent, GetsOf(v, what))
               /\ AtMostOne(to_agent', GetsOf(v, what)) <=> AtMostOne(to_agent, GetsOf(v, what))
      PROVE  Reading'
  <2>1. SUFFICES ASSUME NEW u \in Tasks PROVE ReadingOf(u)' BY DEF Reading
  <2>2. ReadingOf(u) /\ ReadsOnce(u) /\ tasks'[u] = tasks[u]
    BY <1>3 DEF Reading, ReadingOf, ReadsOnce
  <2>3. ReadsOnce(u)' BY <1>3, <2>2 DEF ReadsOnce
  <2> QED BY <1>3, <2>2, <2>3, ReadingUntouched
<1>4. ASSUME NEW w \in Watches, CallsWatch(w)
      PROVE  Reading'
  <2>1. PICK call : call = [kind |-> "watch", watch |-> w] OBVIOUS
  <2>2. call \in ToAgent /\ \A v, what : call \notin GetsOf(v, what) BY <2>1, ACall
  <2>3. to_agent' = Append(to_agent, call) /\ UNCHANGED <<tasks, to_client>>
    BY <1>4, <2>1 DEF CallsWatch
  <2> QED BY <1>3, <2>2, <2>3, AgentSent
<1>5. ASSUME NEW w \in Watches, Drops(w)
      PROVE  Reading'
  <2>1. UNCHANGED <<tasks, to_client>> BY <1>5 DEF Drops
  <2>2. \A v, what : \A x \in GetsOf(v, what) : x.kind \notin {"answer", "release"} BY KindsOf
  <2> QED BY <1>3, <1>5, <2>1, <2>2, DropsOthers
<1>6. ASSUME NEW w \in Watches, Takes(w)
      PROVE  Reading'
  <2>1. PICK taken \in BOOLEAN : taken = ~waiting[w].failed OBVIOUS
  <2>2. PICK answer : answer = Answer(w, taken) OBVIOUS
  <2>3. answer \in ToAgent /\ \A v, what : answer \notin GetsOf(v, what) BY <2>2, AnAnswer
  <2>4. to_agent' = Append(to_agent, answer) /\ UNCHANGED <<tasks, to_client>>
    BY <1>6, <2>1, <2>2 DEF Takes
  <2> QED BY <1>3, <2>3, <2>4, AgentSent
<1>7. CASE Ends
  <2>1. SUFFICES ASSUME NEW u \in Tasks PROVE ReadingOf(u)' BY DEF Reading
  <2>2. to_agent' = <<>> /\ to_client' = <<>> /\ tasks'[u] = Idle BY <1>7 DEF Ends
  <2> QED BY <2>2, NothingSent, IdleFields, SessionAssumption, ReadingOfNothing
<1> QED BY <1>1, <1>2, <1>4, <1>5, <1>6, <1>7

\* A step leaves each task reading what it asked for, once.
LEMMA ReadingKept ==
  ASSUME Typed, Record, Onward, Reading, Turns, [Next]_vars
  PROVE  Reading'
<1>1. CASE UNCHANGED vars
  <2>1. UNCHANGED <<to_agent, to_client, tasks>> BY <1>1 DEF vars, wires
  <2> QED BY <2>1, ReadingUntouched DEF Reading, ReadingOf, ReadsOnce
<1> QED BY <1>1, ReadingByAgent, ReadingByHearing, ReadingByClient DEF Next, Agent, Client

-----------------------------------------------------------------------------
(***************************************************************************)
(* What is told of moves on.                                               *)
(***************************************************************************)
\* Nothing has been told at first.
LEMMA OnwardAtFirst ==
  ASSUME Init PROVE Onward
<1>1. SUFFICES ASSUME NEW w \in Watches
               PROVE  /\ pushes[w].before <= pushes[w].last
                      /\ pushes[w].last <= slots[w] /\ slots[w] <= Len(published)
                      /\ pushes[w].at = "none" => pushes[w].last = 0
                      /\ pushes[w].at = "sent" => pushes[w].last # 0
  BY DEF Onward
<1>2. pushes[w] = NoPush /\ slots[w] = 0 /\ Len(published) = 1 BY DEF Init
<1> QED BY <1>2, PushFields

\* A push that is over, and one that nothing happened to.
LEMMA OnwardStays ==
  ASSUME Typed, Onward, NEW w \in Watches, Len(published') \in Nat,
         \/ pushes'[w] = EndedPush /\ slots'[w] = 0
         \/ /\ pushes'[w] = pushes[w] /\ Len(published) <= Len(published')
            /\ slots'[w] = slots[w] \/ slots'[w] = Len(published')
  PROVE  /\ pushes'[w].before <= pushes'[w].last
         /\ pushes'[w].last <= slots'[w] /\ slots'[w] <= Len(published')
         /\ pushes'[w].at = "none" => pushes'[w].last = 0
         /\ pushes'[w].at = "sent" => pushes'[w].last # 0
<1>1. pushes[w] \in Push /\ slots[w] \in Nat BY DEF Typed, Push
<1>2. pushes[w].last \in Nat /\ pushes[w].before \in Nat BY <1>1 DEF Push
<1>3. /\ pushes[w].before <= pushes[w].last
      /\ pushes[w].last <= slots[w] /\ slots[w] <= Len(published)
      /\ pushes[w].at = "none" => pushes[w].last = 0
      /\ pushes[w].at = "sent" => pushes[w].last # 0
  BY DEF Onward
<1>4. CASE pushes'[w] = EndedPush /\ slots'[w] = 0 BY <1>4, PushFields
<1>5. CASE /\ pushes'[w] = pushes[w] /\ Len(published) <= Len(published')
           /\ slots'[w] = slots[w] \/ slots'[w] = Len(published')
  <2>1. Len(published) \in Nat \/ Len(published) \notin Nat OBVIOUS
  <2> QED BY <1>1, <1>2, <1>3, <1>5
<1> QED BY <1>4, <1>5

\* A step leaves what is told moving on.
LEMMA OnwardKept ==
  ASSUME Typed, Record, Record', Turns, Onward, [Next]_vars
  PROVE  Onward'
<1>1. SUFFICES ASSUME NEW v \in Watches
               PROVE  /\ pushes'[v].before <= pushes'[v].last
                      /\ pushes'[v].last <= slots'[v] /\ slots'[v] <= Len(published')
                      /\ pushes'[v].at = "none" => pushes'[v].last = 0
                      /\ pushes'[v].at = "sent" => pushes'[v].last # 0
  BY DEF Onward
<1>2. Len(published) \in Nat /\ Len(published') \in Nat BY DEF Record
<1>3. /\ pushes[v].before <= pushes[v].last
      /\ pushes[v].last <= slots[v] /\ slots[v] <= Len(published)
      /\ pushes[v].at = "none" => pushes[v].last = 0
      /\ pushes[v].before \in Nat /\ pushes[v].last \in Nat /\ slots[v] \in Nat
      /\ pushes \in [Watches -> Push] /\ slots \in [Watches -> Nat]
  <2>1. pushes \in [Watches -> Push] /\ slots \in [Watches -> Nat] BY DEF Typed, Push
  <2> QED BY <2>1 DEF Onward, Push
<1>4. CASE UNCHANGED <<pushes, slots, published>> BY <1>2, <1>4, OnwardStays
<1>5. CASE Publishes
  <2>1. pushes' = pushes BY <1>5 DEF Publishes
  <2>2. PICK after : published' = Append(published, after) /\ after \in Moved(Latest, Len(published) + 1)
    BY <1>5 DEF Publishes
  <2>3. Len(published') = Len(published) + 1 BY <2>2 DEF Record
  <2>4. slots'[v] = slots[v] \/ slots'[v] = Len(published') BY <1>5, <2>3 DEF Publishes
  <2> QED BY <1>2, <2>1, <2>3, <2>4, OnwardStays
<1>6. CASE AgentHears
  <2>1. PICK m \in ToAgent :
           /\ m = Head(to_agent) /\ to_agent # <<>>
           /\ \/ m \in Gets /\ Answers(m)
              \/ m.watch \in Watches /\ m \in CallsFor(m.watch) /\ Watched(m)
              \/ m.watch \in Watches /\ m \in ReleasesOf(m.watch) /\ Released(m)
              \/ m.watch \in Watches /\ m.taken \in BOOLEAN /\ m \in AnswersOf(m.watch) /\ Answered(m)
              \/ m.kind = "void" /\ UNCHANGED <<agent, to_client>>
           /\ to_agent' = Tail(to_agent)
    BY <1>6, AgentCases
  <2>2. CASE (m \in Gets /\ Answers(m)) \/ (m.kind = "void" /\ UNCHANGED <<agent, to_client>>)
    BY <1>4, <2>2 DEF Answers, agent
  <2>3. CASE m.watch \in Watches /\ m \in CallsFor(m.watch) /\ Watched(m)
    <3>1. PICK w \in Watches : w = m.watch BY <2>3
    <3>2. CASE Full BY <1>4, <2>3, <3>2 DEF Watched, agent
    <3>3. CASE ~Full
      <4>1. /\ pushes' = [pushes EXCEPT ![w].at = "next"] /\ UNCHANGED published
            /\ \E delivered \in {0, Len(published)} : slots' = [slots EXCEPT ![w] = delivered]
        BY <2>3, <3>1, <3>3 DEF Watched
      <4>2. ~Lacks(to_agent, CallsFor(w)) BY <2>1, <2>3, <3>1, AgentWire
      <4>3. pushes[w].at = "none" BY <4>2 DEF Turns, TurnOf, Calling
      <4>4. /\ pushes'[w].at = "next" /\ pushes'[w].last = pushes[w].last
            /\ pushes'[w].before \in {pushes[w].before, pushes[w].last}
            /\ \A u \in Watches : u # w => pushes'[u] = pushes[u]
        BY <4>1, PushesNext
      <4>5. CASE v = w
        <5>1. pushes[v].last = 0 /\ pushes[v].before = 0 BY <1>3, <4>3, <4>5
        <5>2. slots'[v] \in {0, Len(published)} BY <1>3, <4>1, <4>5
        <5>3. pushes'[v].at = "next" /\ pushes'[v].last = 0 /\ pushes'[v].before = 0
          BY <4>4, <4>5, <5>1
        <5> QED BY <1>2, <4>1, <5>2, <5>3
      <4>6. CASE v # w
        <5>1. pushes'[v] = pushes[v] /\ slots'[v] = slots[v] /\ published' = published
          BY <1>3, <4>1, <4>4, <4>6
        <5> QED BY <1>2, <5>1, OnwardStays
      <4> QED BY <4>5, <4>6
    <3> QED BY <3>2, <3>3
  <2>4. CASE m.watch \in Watches /\ Released(m)
    <3>1. published' = published BY <2>4 DEF Released
    <3>2. \/ UNCHANGED <<pushes, slots>>
          \/ /\ pushes' = [pushes EXCEPT ![m.watch] = EndedPush]
             /\ slots' = [slots EXCEPT ![m.watch] = 0]
      BY <2>4 DEF Released
    <3>3. \/ pushes'[v] = EndedPush /\ slots'[v] = 0
          \/ pushes'[v] = pushes[v] /\ slots'[v] = slots[v]
      BY <1>3, <3>2
    <3> QED BY <1>2, <3>1, <3>3, OnwardStays
  <2>5. CASE m.watch \in Watches /\ m \in AnswersOf(m.watch) /\ Answered(m)
    <3>1. PICK w \in Watches : w = m.watch BY <2>5
    <3>2. published' = published BY <2>5 DEF Answered
    <3>3. \/ UNCHANGED <<pushes, slots>>
          \/ /\ pushes' = [pushes EXCEPT ![w] = [@ EXCEPT !.at = "next", !.before = BeforeOf(w)]]
             /\ UNCHANGED slots
          \/ /\ pushes' = [pushes EXCEPT ![w] = EndedPush]
             /\ slots' = [slots EXCEPT ![w] = 0]
      BY <2>5, <3>1 DEF Answered
    <3>4. CASE /\ pushes' = [pushes EXCEPT ![w] = [@ EXCEPT !.at = "next", !.before = BeforeOf(w)]]
               /\ UNCHANGED slots
      <4>1. /\ pushes'[w].at = "next" /\ pushes'[w].last = pushes[w].last
            /\ pushes'[w].before \in {pushes[w].before, pushes[w].last}
            /\ \A u \in Watches : u # w => pushes'[u] = pushes[u]
        BY <3>4, PushesNext
      <4>2. CASE v = w BY <1>3, <3>2, <3>4, <4>1, <4>2
      <4>3. CASE v # w
        <5>1. pushes'[v] = pushes[v] /\ slots'[v] = slots[v] BY <3>4, <4>1, <4>3
        <5> QED BY <1>2, <3>2, <5>1, OnwardStays
      <4> QED BY <4>2, <4>3
    <3>5. CASE \/ UNCHANGED <<pushes, slots>>
               \/ /\ pushes' = [pushes EXCEPT ![w] = EndedPush]
                  /\ slots' = [slots EXCEPT ![w] = 0]
      <4>1. \/ pushes'[v] = EndedPush /\ slots'[v] = 0
            \/ pushes'[v] = pushes[v] /\ slots'[v] = slots[v]
        BY <1>3, <3>5
      <4> QED BY <1>2, <3>2, <4>1, OnwardStays
    <3> QED BY <3>3, <3>4, <3>5
  <2> QED BY <2>1, <2>2, <2>3, <2>4, <2>5
<1>7. ASSUME NEW w \in Watches, Pushes(w)
      PROVE  /\ pushes'[v].before <= pushes'[v].last
             /\ pushes'[v].last <= slots'[v] /\ slots'[v] <= Len(published')
             /\ pushes'[v].at = "none" => pushes'[v].last = 0
             /\ pushes'[v].at = "sent" => pushes'[v].last # 0
  <2>1. UNCHANGED <<slots, published>> BY <1>7 DEF Pushes
  <2>2. /\ slots[w] \in 1..Len(published) /\ slots[w] > pushes[w].last
        /\ pushes'[w].at = "sent" /\ pushes'[w].last = slots[w] /\ pushes'[w].before = pushes[w].before
        /\ \A u \in Watches : u # w => pushes'[u] = pushes[u]
    BY <1>7, PushSent
  <2>3. CASE v = w BY <1>2, <1>3, <2>1, <2>2, <2>3
  <2>4. CASE v # w
    <3>1. pushes'[v] = pushes[v] /\ slots'[v] = slots[v] /\ published' = published
      BY <2>1, <2>2, <2>4
    <3> QED BY <1>2, <3>1, OnwardStays
  <2> QED BY <2>3, <2>4
<1>8. CASE Ends
  <2>1. pushes'[v] = EndedPush /\ slots'[v] = 0 BY <1>8 DEF Ends
  <2> QED BY <1>2, <2>1, OnwardStays
<1>9. CASE ClientHears \/ (\E t \in Callers : CallsSnapshot(t) \/ Leaves(t))
           \/ (\E w \in Watches : CallsWatch(w) \/ Drops(w) \/ Takes(w)) \/ UNCHANGED vars
  <2>1. UNCHANGED agent
    BY <1>9 DEF ClientHears, CallsSnapshot, Leaves, CallsWatch, Drops, Takes, vars
  <2> QED BY <1>4, <2>1 DEF agent
<1> QED BY <1>5, <1>6, <1>7, <1>8, <1>9 DEF Next, Agent, Client

-----------------------------------------------------------------------------
(***************************************************************************)
(* A watch follows what was published.                                     *)
(***************************************************************************)
\* A listener that was told nothing holds nothing.
LEMMA FollowsAtFirst ==
  ASSUME Init PROVE Follows
<1>1. SUFFICES ASSUME NEW w \in Watches PROVE FollowsOf(w) BY DEF Follows
<1>2. /\ to_client = <<>> /\ listeners[w] = None /\ waiting[w] = None /\ pushes[w] = NoPush
      /\ tasks[w] = Idle /\ Len(published) = 1
  BY DEF Init, Tasks
<1>3. FollowsFrom(w, 0) BY <1>2, PushFields DEF FollowsFrom, Shown, ToldFrom
<1>4. 0 \in 0..Len(published) BY <1>2
<1> QED BY <1>2, <1>3, <1>4, IdleFields DEF FollowsOf, ReadAfresh, Waits

\* The updates on their way to a watch stay, whatever else is sent, heard or left.
LEMMA UpdatesLeft ==
  ASSUME Typed, NEW w \in Watches,
         \/ UNCHANGED to_client
         \/ \E m \in ToClient : m \notin UpdatesOf(w) /\ to_client' = Append(to_client, m)
         \/ to_client # <<>> /\ Head(to_client) \notin UpdatesOf(w) /\ to_client' = Tail(to_client)
         \/ \E t : to_client' = NotFor(t, to_client)
  PROVE  UpdatesStay(w)
<1>1. to_client \in Seq(ToClient) BY DEF Typed
<1>2. CASE UNCHANGED to_client BY <1>2 DEF UpdatesStay
<1>3. ASSUME NEW m \in ToClient, m \notin UpdatesOf(w), to_client' = Append(to_client, m)
      PROVE  UpdatesStay(w)
  <2>1. Lacks(to_client', UpdatesOf(w)) => Lacks(to_client, UpdatesOf(w)) BY <1>3, ClientSent
  <2>2. /\ Len(to_client') = Len(to_client) + 1
        /\ \A i \in 1..Len(to_client) : to_client'[i] = to_client[i]
        /\ to_client'[Len(to_client) + 1] = m
        /\ \A i \in 1..(Len(to_client) + 1) : i \in 1..Len(to_client) \/ i = Len(to_client) + 1
    BY <1>1, <1>3, OnAppend
  <2> QED BY <1>3, <2>1, <2>2 DEF UpdatesStay
<1>4. ASSUME to_client # <<>>, Head(to_client) \notin UpdatesOf(w), to_client' = Tail(to_client)
      PROVE  UpdatesStay(w)
  <2>1. Lacks(to_client', UpdatesOf(w)) => Lacks(to_client, UpdatesOf(w)) BY <1>4, ClientWire
  <2>2. \A i \in 1..Len(to_client') : i + 1 \in 1..Len(to_client) /\ to_client'[i] = to_client[i + 1]
    BY <1>1, <1>4, OnTail
  <2> QED BY <2>1, <2>2 DEF UpdatesStay
<1>5. ASSUME NEW t, to_client' = NotFor(t, to_client)
      PROVE  UpdatesStay(w)
  <2>1. /\ Len(to_client') = Len(to_client)
        /\ \A i \in 1..Len(to_client) : to_client'[i] = Void \/ to_client'[i] = to_client[i]
    BY <1>1, <1>5, AVoid, OnNotFor
  <2>2. Void \notin UpdatesOf(w) BY AVoid
  <2>3. Lacks(to_client', UpdatesOf(w)) => Lacks(to_client, UpdatesOf(w))
    <3>1. \A m \in UpdatesOf(w) : m.kind \notin {"get", "reply"} BY KindsOf
    <3> QED BY <1>1, <1>5, <2>2, <3>1, AVoid, LacksNotFor
  <2> QED BY <2>1, <2>2, <2>3 DEF UpdatesStay
<1> QED BY <1>2, <1>3, <1>4, <1>5

\* A step of others, or one by which a watch ends, or is let go of.
LEMMA FollowsUntouched ==
  ASSUME Record, NEW w \in Watches, FollowsOf(w), UpdatesStay(w),
         Len(published') \in Nat, Len(published) <= Len(published'),
         \A i \in 1..Len(published) : published'[i] = published[i],
         tasks'[w] = tasks[w], listeners'[w] = listeners[w],
         waiting'[w] \in {waiting[w], None}, pushes'[w] \in {pushes[w], EndedPush}
  PROVE  FollowsOf(w)'
<1>1. PICK n \in 0..Len(published) : FollowsFrom(w, n) BY DEF FollowsOf
<1>2. Len(published) \in Nat BY DEF Record
<1>3. /\ n \in 0..Len(published') /\ (n # 0 => published'[n] = published[n])
      /\ \A i \in 1..Len(published) : i \in 1..Len(published')
  BY <1>1, <1>2
<1>4. Shown(n)' = Shown(n) /\ Base(n)' = Base(n) BY <1>3 DEF Shown, Base
<1>5. ASSUME NEW i \in 1..Len(to_client'), to_client'[i] \in UpdatesOf(w)
      PROVE  /\ to_client'[i].sample \in 1..Len(published')
             /\ pushes'[w].at = "sent" => to_client'[i].sample = pushes'[w].last
             /\ to_client'[i].lists = Update(n # 0, Base(n)', published'[to_client'[i].sample])
  <2>1. PICK j \in 1..Len(to_client) : to_client[j] = to_client'[i] BY <1>5 DEF UpdatesStay
  <2>2. /\ to_client[j].sample \in 1..Len(published)
        /\ pushes[w].at = "sent" => to_client[j].sample = pushes[w].last
        /\ to_client[j].lists = Update(n # 0, Base(n), published[to_client[j].sample])
    BY <1>1, <1>5, <2>1 DEF FollowsFrom, ToldFrom
  <2>3. pushes'[w].at = "sent" => pushes'[w] = pushes[w] BY PushFields
  <2> QED BY <1>3, <1>4, <2>1, <2>2, <2>3
<1>6. ToldFrom(w, n)' BY <1>5 DEF ToldFrom
<1>7. /\ pushes'[w].at = "none" => n = 0
      /\ pushes'[w].at = "next" => n = pushes'[w].before
      /\ pushes'[w].at = "sent" /\ ~OnItsWay(w)' => n = pushes'[w].last
  <2>1. CASE pushes'[w] = EndedPush BY <2>1, PushFields
  <2>2. CASE pushes'[w] = pushes[w] BY <1>1, <2>2 DEF FollowsFrom, UpdatesStay, OnItsWay
  <2> QED BY <2>1, <2>2
<1>8. FollowsFrom(w, n)' BY <1>1, <1>4, <1>6, <1>7 DEF FollowsFrom
<1>9. Waits(w)' => /\ ~waiting'[w].failed /\ waiting'[w].sample \in 1..Len(published')
                   /\ waiting'[w].snapshot = published'[waiting'[w].sample]
  <2>1. ASSUME Waits(w)'
        PROVE  waiting'[w] = waiting[w] /\ Waits(w)
    BY <2>1 DEF Waits
  <2> QED BY <1>3, <2>1 DEF FollowsOf
<1> QED BY <1>3, <1>8, <1>9 DEF FollowsOf, ReadAfresh

\* An update that comes to a watch that follows tells just what was published.
LEMMA UpdateFollows ==
  ASSUME Typed, Record, NEW n \in 0..Len(published), NEW s \in 1..Len(published),
         NEW lists, lists = Update(n # 0, Base(n), published[s])
  PROVE  /\ n # 0 => Shown(n) # None
         /\ n = 0 => Shown(n) = None
         /\ Understood(n # 0, IF n # 0 THEN Shown(n) ELSE Cache, lists)
         /\ Decoded(IF n # 0 THEN Shown(n) ELSE Cache, lists) = published[s]
<1>1. published \in Seq(Snapshot) /\ Len(published) \in Nat BY DEF Record
<1>2. published[s] \in Snapshot /\ Coherent(published[s]) BY <1>1 DEF Record
<1>3. Snapshots(Row) = Snapshot BY DEF Snapshots, Snapshot, ProcessList, StateList
<1>4. CASE n # 0
  <2>1. n \in 1..Len(published) BY <1>1, <1>4
  <2>2. published[n] \in Snapshot /\ Coherent(published[n]) BY <1>1, <2>1 DEF Record
  <2>3. TagsName(published[n], published[s])
    <3>1. CASE n <= s BY <2>1, <3>1 DEF Record, Later, TagsName
    <3>2. CASE s <= n BY <2>1, <3>2 DEF Record, Later, TagsName
    <3> QED BY <1>1, <3>1, <3>2
  <2>4. /\ Understood(TRUE, published[n], Update(TRUE, published[n], published[s]))
        /\ Decoded(published[n], Update(TRUE, published[n], published[s])) = published[s]
    BY <1>2, <1>3, <2>2, <2>3, UpdateRebuilds
  <2>5. Shown(n) = published[n] /\ Base(n) = published[n] /\ (n # 0) = TRUE BY <1>4 DEF Shown, Base
  <2>6. published[n] # None BY <2>2, NoneAssumption
  <2> QED BY <1>4, <2>4, <2>5, <2>6
<1>5. CASE n = 0
  <2>1. /\ Understood(FALSE, Cache, Update(FALSE, Cache, published[s]))
        /\ Decoded(Cache, Update(FALSE, Cache, published[s])) = published[s]
    BY <1>2, <1>3, FirstUpdateTellsAll
  <2>2. Update(FALSE, Base(n), published[s]) = Update(FALSE, Cache, published[s]) BY DEF Update
  <2>3. Shown(n) = None /\ (n # 0) = FALSE BY <1>5 DEF Shown
  <2> QED BY <1>5, <2>1, <2>2, <2>3
<1> QED BY <1>4, <1>5

\* The agent hears that an update was taken, or of the watch itself: what it
\* tells next is told against what the client holds.
LEMMA FollowsByAgent ==
  ASSUME Typed, Record, Onward, Turns, Follows, AgentHears
  PROVE  Follows'
<1>1. SUFFICES ASSUME NEW v \in Watches, v \notin resynced' PROVE FollowsOf(v)' BY DEF Follows
<1>2. PICK m \in ToAgent :
         /\ m = Head(to_agent) /\ to_agent # <<>> /\ to_agent' = Tail(to_agent)
         /\ UNCHANGED <<reading, listeners, cache, tasks, resynced, open>>
         /\ \/ m \in Gets /\ Answers(m)
            \/ m.watch \in Watches /\ m \in CallsFor(m.watch) /\ Watched(m)
            \/ m.watch \in Watches /\ m \in ReleasesOf(m.watch) /\ Released(m)
            \/ m.watch \in Watches /\ m.taken \in BOOLEAN /\ m \in AnswersOf(m.watch) /\ Answered(m)
            \/ m.kind = "void" /\ UNCHANGED <<agent, to_client>>
  BY AgentCases
<1>3. /\ FollowsOf(v) /\ TurnOf(v) /\ UNCHANGED <<tasks, listeners, waiting>>
      /\ pushes \in [Watches -> Push]
  BY <1>1, <1>2 DEF Follows, Turns, reading, Typed, Push
<1>4. published' = published /\ Len(published) \in Nat
  BY <1>2 DEF Answers, Watched, Released, Answered, agent, Record
<1>5. UpdatesStay(v)
  <2>1. CASE UNCHANGED to_client BY <2>1, UpdatesLeft
  <2>2. CASE m \in Gets /\ Answers(m)
    <3>1. PICK reply : reply = Reply(m) OBVIOUS
    <3>2. published \in Seq(Snapshot) /\ published # <<>> BY DEF Record
    <3>3. Latest \in Snapshot /\ Len(published) \in Nat BY <3>2 DEF Latest
    <3>4. reply \in Replies BY <2>2, <3>1, <3>3, ReplyFields
    <3>5. reply \in ToClient /\ reply \notin UpdatesOf(v) BY <3>4, AReply
    <3>6. to_client' = Append(to_client, reply) BY <2>2, <3>1 DEF Answers
    <3> QED BY <3>5, <3>6, UpdatesLeft
  <2>3. CASE m.watch \in Watches /\ Watched(m)
    <3>1. PICK w \in Watches : w = m.watch BY <2>3
    <3>2. PICK taken \in BOOLEAN : taken = ~Full OBVIOUS
    <3>3. PICK watching : watching = [kind |-> "watching", watch |-> w, taken |-> taken] OBVIOUS
    <3>4. watching \in ToClient /\ watching \notin UpdatesOf(v) BY <3>3, AWatching
    <3>5. to_client' = Append(to_client, watching) BY <2>3, <3>1, <3>2, <3>3 DEF Watched
    <3> QED BY <3>4, <3>5, UpdatesLeft
  <2> QED BY <1>2, <2>1, <2>2, <2>3 DEF Released, Answered
<1>6. CASE pushes'[v] \in {pushes[v], EndedPush} BY <1>3, <1>4, <1>5, <1>6, FollowsUntouched
<1>7. ASSUME NEW n \in 0..Len(published), pushes'[v].at = "next", pushes'[v].before = n,
             listeners[v] = Shown(n), ~OnItsWay(v)
      PROVE  FollowsOf(v)'
  <2>1. \A i \in 1..Len(to_client') : to_client'[i] \notin UpdatesOf(v)
    BY <1>5, <1>7 DEF UpdatesStay, OnItsWay, Lacks
  <2>2. Shown(n)' = Shown(n) BY <1>4 DEF Shown
  <2>3. FollowsFrom(v, n)' BY <1>3, <1>7, <2>1, <2>2 DEF FollowsFrom, ToldFrom
  <2> QED BY <1>3, <1>4, <2>3 DEF FollowsOf, ReadAfresh, Waits
<1>8. CASE m.watch \in Watches /\ m \in CallsFor(m.watch) /\ Watched(m)
  <2>1. PICK w \in Watches : w = m.watch BY <1>8
  <2>2. UNCHANGED pushes \/ pushes' = [pushes EXCEPT ![w].at = "next"]
    BY <1>8, <2>1 DEF Watched, agent
  <2>3. CASE UNCHANGED pushes \/ v # w
    <3>1. pushes'[v] = pushes[v] BY <1>3, <2>2, <2>3
    <3> QED BY <1>6, <3>1
  <2>4. CASE v = w /\ pushes' = [pushes EXCEPT ![w].at = "next"]
    <3>1. ~Lacks(to_agent, CallsFor(v)) BY <1>2, <1>8, <2>1, <2>4, AgentWire
    <3>2. pushes[v].at = "none" /\ ~OnItsWay(v) BY <1>3, <3>1 DEF TurnOf, Calling
    <3>3. pushes[v].last = 0 /\ pushes[v].before = 0
      <4>1. pushes[v].last = 0 /\ pushes[v].before <= pushes[v].last /\ pushes[v].before \in Nat
        BY <1>3, <3>2 DEF Onward, Push
      <4> QED BY <4>1
    <3>4. pushes'[v].at = "next" /\ pushes'[v].before \in {pushes[v].before, pushes[v].last}
      BY <2>4, PushesNext
    <3>5. listeners[v] = Shown(0) BY <1>3, <3>2 DEF FollowsOf, FollowsFrom
    <3>6. pushes'[v].before = 0 /\ 0 \in 0..Len(published) BY <1>4, <3>3, <3>4
    <3> QED BY <1>7, <3>2, <3>4, <3>5, <3>6
  <2> QED BY <2>2, <2>3, <2>4
<1>9. CASE m.watch \in Watches /\ m \in AnswersOf(m.watch) /\ Answered(m)
  <2>1. PICK w \in Watches : w = m.watch BY <1>9
  <2>2. \/ UNCHANGED pushes
        \/ /\ pushes[w].at = "sent"
           /\ pushes' = [pushes EXCEPT ![w] = [@ EXCEPT !.at = "next", !.before = BeforeOf(w)]]
        \/ pushes' = [pushes EXCEPT ![w] = EndedPush]
    BY <1>9, <2>1 DEF Answered
  <2>3. CASE UNCHANGED pushes \/ pushes' = [pushes EXCEPT ![w] = EndedPush] \/ v # w
    <3>1. pushes'[v] \in {pushes[v], EndedPush} BY <1>3, <2>2, <2>3
    <3> QED BY <1>6, <3>1
  <2>4. CASE /\ v = w /\ pushes[w].at = "sent"
             /\ pushes' = [pushes EXCEPT ![w] = [@ EXCEPT !.at = "next", !.before = BeforeOf(w)]]
    <3>1. ~Lacks(to_agent, AnswersOf(v)) BY <1>2, <1>9, <2>1, <2>4, AgentWire
    <3>2. ~OnItsWay(v) BY <1>3, <3>1 DEF TurnOf, IsAnswered
    <3>3. PICK n \in 0..Len(published) : FollowsFrom(v, n) BY <1>3 DEF FollowsOf
    <3>4. n = pushes[v].last /\ listeners[v] = Shown(n) BY <2>4, <3>2, <3>3 DEF FollowsFrom
    <3>5. pushes'[v].at = "next" /\ pushes'[v].before = pushes[v].last
      <4>1. pushes[v] \in Push BY <1>3
      <4> DEFINE told == [pushes[v] EXCEPT !.at = "next", !.before = pushes[v].last]
      <4>2. told.at = "next" /\ told.before = pushes[v].last BY <4>1 DEF Push
      <4>3. pushes' = [pushes EXCEPT ![v] = told] BY <1>3, <2>4 DEF BeforeOf
      <4> HIDE DEF told
      <4> QED BY <1>3, <4>2, <4>3
    <3> QED BY <1>7, <3>2, <3>4, <3>5
  <2> QED BY <2>2, <2>3, <2>4
<1>10. CASE (m \in Gets /\ Answers(m)) \/ (m.kind = "void" /\ UNCHANGED <<agent, to_client>>)
            \/ (m.watch \in Watches /\ Released(m))
  <2>1. UNCHANGED pushes \/ pushes' = [pushes EXCEPT ![m.watch] = EndedPush]
    BY <1>10 DEF Answers, Released, agent
  <2>2. pushes'[v] \in {pushes[v], EndedPush} BY <1>3, <2>1
  <2> QED BY <1>6, <2>2
<1> QED BY <1>2, <1>8, <1>9, <1>10

\* What is sent is told against what the client holds.
LEMMA FollowsBySending ==
  ASSUME Typed, Record, Onward, Turns, Follows, NEW w \in Watches, Pushes(w)
  PROVE  Follows'
<1>1. SUFFICES ASSUME NEW v \in Watches, v \notin resynced' PROVE FollowsOf(v)' BY DEF Follows
<1>2. PICK m \in Updates :
           /\ to_client' = Append(to_client, m)
           /\ m.watch = w /\ m.sample = slots[w]
           /\ m.lists = Update(pushes[w].before # 0, Base(pushes[w].before), published[slots[w]])
           /\ slots[w] \in 1..Len(published)
           /\ pushes'[w].at = "sent" /\ pushes'[w].last = slots[w]
           /\ \A u \in Watches : u # w => pushes'[u] = pushes[u]
  BY PushSent
<1>3. UNCHANGED <<published, slots, tasks, listeners, waiting, resynced>> /\ pushes[w].at = "next"
  BY DEF Pushes, reading
<1>4. FollowsOf(v) /\ TurnOf(v) /\ Len(published) \in Nat /\ to_client \in Seq(ToClient)
  BY <1>1, <1>3 DEF Follows, Turns, Record, Typed
<1>5. m \in ToClient /\ \A u : m \in UpdatesOf(u) <=> u = w BY <1>2, AnUpdate
<1>6. CASE v # w
  <2>1. UpdatesStay(v) BY <1>2, <1>5, <1>6, UpdatesLeft
  <2>2. pushes'[v] = pushes[v] BY <1>2, <1>6
  <2> QED BY <1>3, <1>4, <2>1, <2>2, FollowsUntouched
<1>7. CASE v = w
  <2>1. ~OnItsWay(v) BY <1>3, <1>4, <1>7 DEF TurnOf
  <2>2. PICK n \in 0..Len(published) : FollowsFrom(v, n) BY <1>4 DEF FollowsOf
  <2>3. n = pushes[v].before /\ listeners[v] = Shown(n) BY <1>3, <1>7, <2>2 DEF FollowsFrom
  <2>4. /\ Len(to_client') = Len(to_client) + 1
        /\ \A i \in 1..Len(to_client) : to_client'[i] = to_client[i]
        /\ to_client'[Len(to_client) + 1] = m
        /\ \A i \in 1..(Len(to_client) + 1) : i \in 1..Len(to_client) \/ i = Len(to_client) + 1
        /\ Len(to_client) \in Nat
    BY <1>2, <1>4, <1>5, OnAppend
  <2>5. ASSUME NEW i \in 1..Len(to_client'), to_client'[i] \in UpdatesOf(v)
        PROVE  to_client'[i] = m
    BY <2>1, <2>4, <2>5 DEF OnItsWay, Lacks
  <2>6. Shown(n)' = Shown(n) /\ Base(n)' = Base(n) BY <1>3 DEF Shown, Base
  <2>7. ToldFrom(v, n)'
    <3>1. ASSUME NEW i \in 1..Len(to_client'), to_client'[i] \in UpdatesOf(v)
          PROVE  /\ to_client'[i].sample \in 1..Len(published')
                 /\ pushes'[v].at = "sent" => to_client'[i].sample = pushes'[v].last
                 /\ to_client'[i].lists = Update(n # 0, Base(n)', published'[to_client'[i].sample])
      <4>1. to_client'[i] = m BY <2>5, <3>1
      <4>2. m.sample \in 1..Len(published') /\ m.sample = pushes'[v].last BY <1>2, <1>3, <1>7
      <4>3. m.lists = Update(n # 0, Base(n)', published'[m.sample]) BY <1>2, <1>3, <1>7, <2>3, <2>6
      <4> QED BY <4>1, <4>2, <4>3
    <3> QED BY <3>1 DEF ToldFrom
  <2>8. OnItsWay(v)'
    <3>1. Lacks(to_client', UpdatesOf(v)) <=> Lacks(to_client, UpdatesOf(v)) /\ m \notin UpdatesOf(v)
      BY <1>2, <1>5, ClientSent
    <3> QED BY <1>5, <1>7, <3>1 DEF OnItsWay
  <2>9. FollowsFrom(v, n)' BY <1>2, <1>3, <1>7, <2>3, <2>6, <2>7, <2>8 DEF FollowsFrom
  <2> QED BY <1>3, <1>4, <2>9 DEF FollowsOf, ReadAfresh, Waits
<1> QED BY <1>6, <1>7

\* What is handed over, of a watch and of the others.
LEMMA HandsOverWaits ==
  ASSUME Typed, NEW w \in Watches, NEW d, HandsOver(w, d)
  PROVE  /\ waiting'[w] \in {waiting[w], d}
         /\ \A v \in Watches : v # w => waiting'[v] = waiting[v]
BY DEF HandsOver, Typed

\* An update that comes is understood, and the watch then holds what it tells of.
LEMMA FollowsByUpdate ==
  ASSUME Typed, Record, Turns, Follows, to_client # <<>>, to_client' = Tail(to_client),
         UNCHANGED agent, NEW m \in Updates, m = Head(to_client), HearsUpdate(m)
  PROVE  Follows'
<1>1. SUFFICES ASSUME NEW v \in Watches, v \notin resynced' PROVE FollowsOf(v)' BY DEF Follows
<1>2. PICK w \in Watches : w = m.watch BY AnUpdate
<1>3. \A u : m \in UpdatesOf(u) <=> u = w BY <1>2, AnUpdate
<1>4. UNCHANGED <<published, pushes>> /\ Len(published) \in Nat /\ published \in Seq(Snapshot)
  BY DEF agent, Record
<1>5. v \notin resynced /\ (v = w => m.known) BY <1>1, <1>2 DEF HearsUpdate
<1>6. FollowsOf(v) /\ TurnOf(v) /\ v \in Tasks BY <1>5 DEF Follows, Turns, Tasks
<1>7. CASE v # w
  <2>1. UpdatesStay(v) BY <1>3, <1>7, UpdatesLeft
  <2>2. tasks'[v] = tasks[v] /\ listeners'[v] = listeners[v]
    BY <1>2, <1>6, <1>7 DEF HearsUpdate, Typed
  <2>3. \/ UNCHANGED waiting
        \/ \E d : HandsOver(w, d)
    BY <1>2 DEF HearsUpdate
  <2>4. waiting'[v] = waiting[v] BY <1>7, <2>3, HandsOverWaits
  <2> QED BY <1>4, <1>6, <2>1, <2>2, <2>4, FollowsUntouched
<1>8. CASE v = w
  <2>1. PICK n \in 0..Len(published) : FollowsFrom(v, n) BY <1>6 DEF FollowsOf
  <2>2. /\ ~Lacks(to_client, UpdatesOf(v)) /\ Lacks(to_client', UpdatesOf(v))
    BY <1>3, <1>6, <1>8, ClientWire DEF TurnOf
  <2>3. pushes[v].at \notin {"none", "next"} /\ ~Waits(v) BY <1>6, <2>2 DEF TurnOf, OnItsWay
  <2>4. PICK s : s = m.sample OBVIOUS
  <2>5. /\ s \in 1..Len(published) /\ (pushes[v].at = "sent" => s = pushes[v].last)
        /\ m.lists = Update(n # 0, Base(n), published[s])
    <3>1. 1 \in 1..Len(to_client) /\ to_client[1] = m BY OnTail DEF Typed
    <3>2. to_client[1] \in UpdatesOf(v) BY <1>3, <1>8, <3>1
    <3> QED BY <2>1, <2>4, <3>1, <3>2 DEF FollowsFrom, ToldFrom
  <2>6. /\ n # 0 => Shown(n) # None
        /\ n = 0 => Shown(n) = None
        /\ Understood(n # 0, IF n # 0 THEN Shown(n) ELSE Cache, m.lists)
        /\ Decoded(IF n # 0 THEN Shown(n) ELSE Cache, m.lists) = published[s]
    BY <2>5, UpdateFollows
  <2>7. listeners[v] = Shown(n) BY <2>1 DEF FollowsFrom
  <2>8. PICK holds \in BOOLEAN : holds = (listeners[v] # None) OBVIOUS
  <2>9. PICK before : before = IF holds THEN listeners[v] ELSE Cache OBVIOUS
  <2>10. holds = (n # 0) /\ before = IF n # 0 THEN Shown(n) ELSE Cache BY <2>6, <2>7, <2>8, <2>9
  <2>11. Understood(holds, before, m.lists) /\ Decoded(before, m.lists) = published[s]
    BY <2>6, <2>10
  <2>12. /\ listeners' = [listeners EXCEPT ![v] = Decoded(before, m.lists)]
         /\ HandsOver(v, Gives(s, Decoded(before, m.lists), ~holds))
         /\ UNCHANGED tasks
    BY <1>2, <1>5, <1>8, <2>4, <2>8, <2>9, <2>11 DEF HearsUpdate
  <2>13. listeners'[v] = published[s] BY <2>11, <2>12 DEF Typed
  <2>14. PICK gives : gives = Gives(s, published[s], ~holds) OBVIOUS
  <2>15. gives # None /\ ~gives.failed /\ gives.sample = s /\ gives.snapshot = published[s]
    <3>1. s \in Nat /\ published[s] \in Snapshot BY <1>4, <2>5
    <3>2. PICK full \in BOOLEAN : full = ~holds OBVIOUS
    <3>3. gives = Gives(s, published[s], full) BY <2>14, <3>2
    <3> QED BY <3>1, <3>3, GivesFields
  <2>16. waiting'[v] \in {waiting[v], gives} BY <2>11, <2>12, <2>14, HandsOverWaits
  <2>17. Waits(v)' => /\ ~waiting'[v].failed /\ waiting'[v].sample \in 1..Len(published')
                      /\ waiting'[v].snapshot = published'[waiting'[v].sample]
    BY <1>4, <2>3, <2>5, <2>15, <2>16 DEF Waits
  <2>18. s \in 0..Len(published') /\ s # 0 BY <1>4, <2>5
  <2>19. FollowsFrom(v, s)'
    <3>1. Shown(s)' = published[s] BY <1>4, <2>18 DEF Shown
    <3>2. ToldFrom(v, s)' BY <2>2 DEF ToldFrom, Lacks
    <3>3. /\ pushes'[v].at \notin {"none", "next"}
          /\ pushes'[v].at = "sent" => s = pushes'[v].last
      BY <1>4, <2>3, <2>5
    <3> QED BY <2>13, <3>1, <3>2, <3>3 DEF FollowsFrom
  <2>20. ~ReadAfresh(v)' BY <1>6, <2>12 DEF FollowsOf, ReadAfresh
  <2> QED BY <2>17, <2>18, <2>19, <2>20 DEF FollowsOf
<1> QED BY <1>7, <1>8

\* What is read afresh is of another watch, or of a caller.
LEMMA FollowsByHearing ==
  ASSUME Typed, Record, Reading, Turns, Follows, ClientHears
  PROVE  Follows'
<1>1. PICK m \in ToClient :
           /\ m = Head(to_client) /\ to_client # <<>> /\ to_client' = Tail(to_client)
           /\ UNCHANGED <<agent, open>>
           /\ \/ HearsWatching(m)
              \/ m \in Updates /\ HearsUpdate(m)
              \/ m \in Replies /\ HearsReply(m)
              \/ HearsNothing(m)
  BY ClientCases
<1>2. CASE m \in Updates /\ HearsUpdate(m) BY <1>1, <1>2, FollowsByUpdate
<1>3. CASE HearsWatching(m) \/ HearsNothing(m) \/ (m \in Replies /\ HearsReply(m))
  <2>1. SUFFICES ASSUME NEW v \in Watches, v \notin resynced' PROVE FollowsOf(v)'
    BY SMTT(20) DEF Follows
  <2>2. resynced' = resynced BY <1>3 DEF HearsWatching, HearsNothing, HearsReply
  <2>3. FollowsOf(v) /\ v \in Tasks /\ tasks \in [Tasks -> Task]
    BY <2>1, <2>2 DEF Follows, Tasks, Typed
  <2>4. UNCHANGED <<published, pushes>> /\ Len(published) \in Nat BY <1>1 DEF agent, Record
  <2>5. m \notin UpdatesOf(v)
    <3>1. m.kind # "update" BY <1>3 DEF HearsWatching, HearsNothing, HearsReply
    <3> QED BY <3>1, KindsOf, SMTT(20)
  <2>6. UpdatesStay(v) BY <1>1, <2>5, UpdatesLeft
  <2>7. CASE HearsWatching(m) \/ HearsNothing(m)
    <3>1. UNCHANGED <<tasks, listeners, waiting>> BY <2>7 DEF HearsWatching, HearsNothing, reading
    <3> QED BY <2>3, <2>4, <2>6, <3>1, FollowsUntouched
  <2>8. CASE m \in Replies /\ HearsReply(m)
    <3>1. PICK t : t = m.task OBVIOUS
    <3>2. t \in Tasks /\ tasks[t].at \in {"three", "processes", "states"}
      BY <1>1, <2>8, <3>1, AnswerAwaited
    <3>3. t # v BY <2>3, <3>2 DEF FollowsOf, ReadAfresh
    <3>4. \/ Collects(t, m)
          \/ \E k \in Snapshot : ReadsOn(t, k) \/ Concludes(t, k) \/ Resyncs(t, k)
      BY <2>8, <3>1, ReplyCases
    <3>5. tasks'[v] = tasks[v] /\ listeners'[v] = listeners[v]
      BY <2>3, <3>3, <3>4 DEF Collects, ReadsOn, Concludes, Resyncs, Typed
    <3>6. UNCHANGED waiting \/ (t \in Watches /\ \E d : HandsOver(t, d))
      BY <3>4 DEF Collects, ReadsOn, Concludes, Resyncs
    <3>7. waiting'[v] = waiting[v] BY <3>3, <3>6, HandsOverWaits
    <3> QED BY <2>3, <2>4, <2>6, <3>5, <3>7, FollowsUntouched
  <2> QED BY <1>3, <2>7, <2>8
<1> QED BY <1>1, <1>2, <1>3

\* What the client does of itself, and the end.
LEMMA FollowsByClient ==
  ASSUME Typed, Record, Follows,
         \/ \E t \in Callers : CallsSnapshot(t) \/ Leaves(t)
         \/ \E w \in Watches : CallsWatch(w) \/ Drops(w) \/ Takes(w)
         \/ Ends
  PROVE  Follows'
<1>1. SUFFICES ASSUME NEW v \in Watches, v \notin resynced' PROVE FollowsOf(v)' BY DEF Follows
<1>2. CASE Ends
  <2>1. /\ to_client' = <<>> /\ listeners'[v] = None /\ waiting'[v] = None /\ pushes'[v] = EndedPush
        /\ tasks'[v] = Idle /\ published' = published
    BY <1>2 DEF Ends, Tasks
  <2>2. Len(to_client') = 0 BY <2>1
  <2>3. \A i \in 1..Len(to_client') : FALSE BY <2>2
  <2>4. FollowsFrom(v, 0)' BY <2>1, <2>3, PushFields DEF FollowsFrom, Shown, ToldFrom
  <2>5. Len(published') \in Nat BY <2>1 DEF Record
  <2>6. 0 \in 0..Len(published') BY <2>5
  <2> QED BY <2>1, <2>4, <2>6, IdleFields DEF FollowsOf, ReadAfresh, Waits
<1>3. CASE \/ \E t \in Callers : CallsSnapshot(t) \/ Leaves(t)
           \/ \E w \in Watches : CallsWatch(w) \/ Drops(w) \/ Takes(w)
  <2>1. FollowsOf(v) /\ v \in Tasks /\ v \notin Callers
    <3>1. UNCHANGED resynced BY <1>3 DEF CallsSnapshot, Leaves, CallsWatch, Drops, Takes
    <3> QED BY <1>1, <3>1, SessionAssumption DEF Follows, Tasks
  <2>2. UNCHANGED <<published, pushes, listeners>> /\ Len(published) \in Nat
    <3>1. ASSUME NEW t \in Callers, CallsSnapshot(t) \/ Leaves(t)
          PROVE  UNCHANGED <<published, pushes, listeners>>
      BY <3>1 DEF CallsSnapshot, Leaves, agent
    <3>2. ASSUME NEW w \in Watches, CallsWatch(w) \/ Drops(w) \/ Takes(w)
          PROVE  UNCHANGED <<published, pushes, listeners>>
      BY <3>2 DEF CallsWatch, Drops, Takes, agent
    <3>3. Len(published) \in Nat BY DEF Record
    <3> QED BY <1>3, <3>1, <3>2, <3>3
  <2>3. tasks'[v] = tasks[v] /\ waiting'[v] \in {waiting[v], None}
    <3>1. \/ \E t \in Callers : \E next : tasks' = [tasks EXCEPT ![t] = next] /\ UNCHANGED waiting
          \/ \E w : waiting' = [waiting EXCEPT ![w] = None] /\ UNCHANGED tasks
          \/ UNCHANGED <<tasks, waiting>>
      BY <1>3 DEF CallsSnapshot, Leaves, CallsWatch, Drops, Takes, reading
    <3>2. tasks \in [Tasks -> Task] /\ waiting \in [Watches -> Delivery \cup {Failed, None}]
      BY DEF Typed
    <3> QED BY <2>1, <3>1, <3>2
  <2>4. UNCHANGED to_client \/ \E t : to_client' = NotFor(t, to_client)
    BY <1>3 DEF CallsSnapshot, Leaves, CallsWatch, Drops, Takes
  <2>5. UpdatesStay(v) BY <2>4, UpdatesLeft
  <2> QED BY <2>1, <2>2, <2>3, <2>5, FollowsUntouched
<1> QED BY <1>2, <1>3

\* A step leaves each watch at the snapshot it was told last.
LEMMA FollowsKept ==
  ASSUME Typed, Record, Record', Onward, Reading, Turns, Follows, [Next]_vars
  PROVE  Follows'
<1>1. CASE Publishes \/ UNCHANGED vars
  <2>1. SUFFICES ASSUME NEW v \in Watches, v \notin resynced' PROVE FollowsOf(v)' BY DEF Follows
  <2>2. FollowsOf(v) /\ UNCHANGED <<to_client, tasks, listeners, waiting, pushes>>
    BY <1>1, <2>1 DEF Follows, Publishes, vars, agent, wires, reading
  <2>3. /\ Len(published') \in Nat /\ Len(published) <= Len(published')
        /\ \A i \in 1..Len(published) : published'[i] = published[i]
    <3>1. published \in Seq(Snapshot) /\ published' \in Seq(Snapshot) BY DEF Record
    <3>2. CASE Publishes
      <4>1. PICK after : published' = Append(published, after) BY <3>2 DEF Publishes
      <4> QED BY <3>1, <4>1
    <3>3. CASE UNCHANGED vars BY <3>1, <3>3 DEF vars, agent
    <3> QED BY <1>1, <3>2, <3>3
  <2>4. UpdatesStay(v) BY <2>2, UpdatesLeft
  <2> QED BY <2>2, <2>3, <2>4, FollowsUntouched
<1> QED
  BY <1>1, FollowsByAgent, FollowsBySending, FollowsByHearing, FollowsByClient DEF Next, Agent, Client

-----------------------------------------------------------------------------
(***************************************************************************)
(* What is read under its tag is what was published under it.              *)
(***************************************************************************)
\* A new session keeps nothing.
LEMMA CachingAtFirst ==
  ASSUME Init PROVE Caching
<1>1. to_agent = <<>> /\ to_client = <<>> /\ cache = Cache /\ tasks = [t \in Tasks |-> Idle]
  BY DEF Init
<1>2. On(<<>>) = {}
  <2>1. Len(<<>>) = 0 OBVIOUS
  <2>2. \A i \in 1..Len(<<>>) : FALSE BY <2>1
  <2> QED BY <2>2 DEF On
<1>3. WellKept(Cache)
  <2>1. \A what \in What : Etag(Cache, what) = 0 BY DEF Etag, Cache, Nothing, What
  <2> QED BY <2>1 DEF WellKept
<1>4. WellRead(Idle) BY <1>2, IdleFields DEF WellRead
<1> QED BY <1>1, <1>2, <1>3, <1>4 DEF Caching

\* What was published stays so.
LEMMA TaggedGrows ==
  ASSUME Len(published) \in Nat, Len(published') \in Nat, Len(published) <= Len(published'),
         \A i \in 1..Len(published) : published'[i] = published[i]
  PROVE  /\ \A what, part : Tagged(what, part) => Tagged(what, part)'
         /\ \A s : AsPublished(s) => AsPublished(s)'
<1>1. ASSUME NEW what, NEW part, Tagged(what, part)
      PROVE  Tagged(what, part)'
  <2>1. PICK n \in 1..Len(published) : Part(published[n], what) = part BY <1>1 DEF Tagged
  <2>2. n \in 1..Len(published') /\ Part(published'[n], what) = part BY <2>1
  <2> QED BY <2>2 DEF Tagged
<1> QED BY <1>1 DEF AsPublished

\* Nothing is published under no tag.
LEMMA TaggedHas ==
  ASSUME Record, NEW what \in What, NEW part, Tagged(what, part), NEW c \in Snapshot
  PROVE  /\ part # None
         /\ what = "services" => part \in Nat /\ part # 0
         /\ what = "processes" => part \in ProcessList /\ part.etag # 0
         /\ what = "states" => part \in StateList /\ part.etag # 0
<1>1. PICK n \in 1..Len(published) : Part(published[n], what) = part BY DEF Tagged
<1>2. published[n] \in Snapshot /\ Within(published[n], n) /\ n \in Nat BY DEF Record
<1>3. /\ published[n].services \in 1..n /\ published[n].processes.etag \in 1..n
      /\ published[n].states.etag \in 1..n
  BY <1>2 DEF Within
<1>4. /\ what = "services" => part = published[n].services
      /\ what = "processes" => part = published[n].processes
      /\ what = "states" => part = published[n].states
  BY <1>1 DEF Part
<1>5. /\ what = "services" => part \in Nat /\ part # 0
      /\ what = "processes" => part \in ProcessList /\ part.etag # 0
      /\ what = "states" => part \in StateList /\ part.etag # 0
  BY <1>2, <1>3, <1>4 DEF Snapshot
<1> QED BY <1>5, NoneAssumption DEF What

\* keep_services, keep_processes, keep_states: what comes is kept.
LEMMA KeptWell ==
  ASSUME Record, NEW c \in Snapshot, WellKept(c), NEW m \in Replies,
         m.part = None => Etag(c, m.what) # 0,
         m.part # None => Tagged(m.what, m.part),
         NEW k, k = Kept(c, m)
  PROVE  /\ k \in Snapshot /\ WellKept(k) /\ Etag(k, m.what) # 0
         /\ \A what \in What : Etag(c, what) # 0 => Etag(k, what) # 0
<1>1. k \in Snapshot /\ m.what \in What BY KeptTyped, AReply
<1>2. CASE m.part = None BY <1>1, <1>2 DEF Kept
<1>3. CASE m.part # None
  <2>1. Tagged(m.what, m.part) BY <1>3
  <2>2. /\ m.what = "services" => m.part \in Nat /\ m.part # 0
        /\ m.what = "processes" => m.part \in ProcessList /\ m.part.etag # 0
        /\ m.what = "states" => m.part \in StateList /\ m.part.etag # 0
    BY <1>1, <2>1, TaggedHas
  <2>3. /\ m.what = "services" =>
             k.services = m.part /\ k.processes = c.processes /\ k.states = c.states
        /\ m.what = "processes" =>
             k.services = c.services /\ k.processes = m.part /\ k.states = c.states
        /\ m.what = "states" =>
             k.services = c.services /\ k.processes = c.processes /\ k.states = m.part
    BY <1>3 DEF Kept, Snapshot
  <2>4. Part(k, m.what) = m.part /\ \A what \in What : what # m.what => Part(k, what) = Part(c, what)
    BY <1>1, <2>3 DEF Part, What
  <2>5. Etag(k, m.what) # 0 /\ \A what \in What : what # m.what => Etag(k, what) = Etag(c, what)
    BY <1>1, <2>2, <2>3 DEF Etag, What
  <2>6. WellKept(k) BY <2>1, <2>4, <2>5 DEF WellKept
  <2> QED BY <1>1, <2>5, <2>6
<1> QED BY <1>2, <1>3

\* When a task goes on everything is kept under a tag, as it was published.
LEMMA WholeKept ==
  ASSUME Typed, Record, Reading, Caching, to_client # <<>>, NEW m \in Replies, m = Head(to_client),
         NEW t, t = m.task, tasks[t].at = "three" => Len(Got(t, m)) = 3,
         NEW k, k = KeptOf(t, m)
  PROVE  /\ k \in Snapshot /\ WellKept(k) /\ \A what \in What : Etag(k, what) # 0
         /\ \A reply \in On(Got(t, m)) : WellAnswered(reply)
<1>1. /\ t \in Tasks /\ tasks[t].at \in {"three", "processes", "states"}
      /\ Len(Got(t, m)) \in 1..3 /\ Got(t, m) \in Seq(Replies)
      /\ \A i \in 1..Len(Got(t, m)) :
           /\ \/ i \in 1..Len(tasks[t].got) /\ Got(t, m)[i] = tasks[t].got[i]
              \/ Got(t, m)[i] = m
           /\ \A j \in 1..Len(Got(t, m)) : Got(t, m)[i].what = Got(t, m)[j].what => i = j
      /\ tasks[t].at # "three" => Len(Got(t, m)) = 1
  BY AnswerAwaited
<1>2. cache \in Snapshot /\ WellKept(cache) /\ tasks[t] \in Task BY <1>1 DEF Typed, Caching
<1>3. WellRead(tasks[t]) BY <1>1 DEF Caching
<1>4. WellAnswered(m)
  <2>1. 1 \in 1..Len(to_client) /\ to_client[1] = m BY OnTail DEF Typed
  <2>2. m \in On(to_client) /\ m.kind = "reply" BY <2>1, AReply DEF On
  <2> QED BY <2>2 DEF Caching
<1>5. PICK got \in Seq(Replies) : got = Got(t, m) BY <1>1
<1>6. \A i \in 1..Len(got) : got[i] \in Replies /\ WellAnswered(got[i])
  <2>1. \A i \in 1..Len(tasks[t].got) : WellAnswered(tasks[t].got[i]) BY <1>3 DEF WellRead, On
  <2> QED BY <1>1, <1>4, <1>5, <2>1
<1>7. \A i \in 1..Len(got) : /\ got[i].part = None => Etag(cache, got[i].what) # 0
                             /\ got[i].part # None => Tagged(got[i].what, got[i].part)
                             /\ got[i].what \in What
  BY <1>6, AReply DEF WellAnswered, Has
<1>8. CASE tasks[t].at # "three"
  <2>1. 1 \in 1..Len(got)
    <3>1. Len(got) = 1 BY <1>1, <1>5, <1>8
    <3> QED BY <3>1
  <2>2. PICK reply \in Replies : reply = got[1] BY <1>6, <2>1
  <2>3. k = Kept(cache, reply) BY <1>5, <1>8, <2>2 DEF KeptOf
  <2>4. \A what \in What : Etag(cache, what) # 0 BY <1>1, <1>3, <1>8 DEF WellRead, Has
  <2>5. k \in Snapshot /\ WellKept(k) /\ \A what \in What : Etag(cache, what) # 0 => Etag(k, what) # 0
    BY <1>2, <1>7, <2>1, <2>2, <2>3, KeptWell
  <2> QED BY <1>5, <1>6, <2>4, <2>5 DEF On
<1>9. CASE tasks[t].at = "three"
  <2>1. 1 \in 1..Len(got) /\ 2 \in 1..Len(got) /\ 3 \in 1..Len(got)
    <3>1. Len(got) = 3 BY <1>5, <1>9
    <3> QED BY <3>1
  <2>2. PICK a \in Replies, b \in Replies, c \in Replies : a = got[1] /\ b = got[2] /\ c = got[3]
    BY <1>6, <2>1
  <2>3. PICK one : one = Kept(cache, a) OBVIOUS
  <2>4. /\ one \in Snapshot /\ WellKept(one) /\ Etag(one, a.what) # 0
        /\ \A what \in What : Etag(cache, what) # 0 => Etag(one, what) # 0
    BY <1>2, <1>7, <2>1, <2>2, <2>3, KeptWell
  <2>5. PICK two : two = Kept(one, b) OBVIOUS
  <2>6. /\ two \in Snapshot /\ WellKept(two) /\ Etag(two, b.what) # 0
        /\ \A what \in What : Etag(one, what) # 0 => Etag(two, what) # 0
    <3>1. b.part = None => Etag(one, b.what) # 0 BY <1>7, <2>1, <2>2, <2>4
    <3>2. b.part # None => Tagged(b.what, b.part) BY <1>7, <2>1, <2>2
    <3> QED BY <2>4, <2>5, <3>1, <3>2, KeptWell
  <2>7. k = Kept(two, c) BY <1>5, <1>9, <2>2, <2>3, <2>5 DEF KeptOf
  <2>8. /\ k \in Snapshot /\ WellKept(k) /\ Etag(k, c.what) # 0
        /\ \A what \in What : Etag(two, what) # 0 => Etag(k, what) # 0
    <3>1. c.part = None => Etag(two, c.what) # 0 BY <1>7, <2>1, <2>2, <2>4, <2>6
    <3>2. c.part # None => Tagged(c.what, c.part) BY <1>7, <2>1, <2>2
    <3> QED BY <2>6, <2>7, <3>1, <3>2, KeptWell
  <2>9. /\ a.what \in What /\ b.what \in What /\ c.what \in What
        /\ a.what # b.what /\ a.what # c.what /\ b.what # c.what
    BY <1>1, <1>5, <1>7, <2>1, <2>2
  <2>10. \A what \in What : what = a.what \/ what = b.what \/ what = c.what BY <2>9 DEF What
  <2>11. \A what \in What : Etag(k, what) # 0 BY <2>4, <2>6, <2>8, <2>9, <2>10
  <2> QED BY <1>5, <1>6, <2>8, <2>11 DEF On
<1> QED BY <1>8, <1>9

\* What is kept and joins is a snapshot as it was published.
LEMMA JoinedAsPublished ==
  ASSUME NEW k, WellKept(k), \A what \in What : Etag(k, what) # 0, Joined(k)
  PROVE  AsPublished(k)
BY DEF WellKept, Joined, AsPublished, What, Part

\* The messages of a wire, as one comes or goes.
LEMMA OnWire ==
  ASSUME NEW T, NEW queue \in Seq(T)
  PROVE  /\ \A m \in T : On(Append(queue, m)) = On(queue) \cup {m}
         /\ queue # <<>> => Head(queue) \in On(queue) /\ On(Tail(queue)) \subseteq On(queue)
         /\ Void \in T => \A t : On(NotFor(t, queue)) \subseteq On(queue) \cup {Void}
         /\ On(<<>>) = {}
<1>1. ASSUME NEW m \in T
      PROVE  On(Append(queue, m)) = On(queue) \cup {m}
  <2>1. PICK more : more = Append(queue, m) OBVIOUS
  <2>2. /\ Len(more) = Len(queue) + 1 /\ Len(queue) \in Nat
        /\ \A i \in 1..Len(queue) : more[i] = queue[i]
        /\ more[Len(queue) + 1] = m
        /\ \A i \in 1..(Len(queue) + 1) : i \in 1..Len(queue) \/ i = Len(queue) + 1
    BY <2>1, OnAppend
  <2>3. Len(queue) + 1 \in 1..(Len(queue) + 1) /\ \A i \in 1..Len(queue) : i \in 1..(Len(queue) + 1)
    BY <2>2
  <2>4. On(more) = On(queue) \cup {m} BY <2>2, <2>3 DEF On
  <2> QED BY <2>1, <2>4
<1>2. ASSUME queue # <<>>
      PROVE  Head(queue) \in On(queue) /\ On(Tail(queue)) \subseteq On(queue)
  <2>1. /\ Head(queue) = queue[1] /\ Len(queue) \in Nat /\ Len(queue) >= 1
        /\ \A i \in 1..Len(Tail(queue)) : i + 1 \in 1..Len(queue) /\ Tail(queue)[i] = queue[i + 1]
    BY <1>2, OnTail
  <2>2. 1 \in 1..Len(queue) BY <2>1
  <2> QED BY <2>1, <2>2 DEF On
<1>3. ASSUME Void \in T, NEW t
      PROVE  On(NotFor(t, queue)) \subseteq On(queue) \cup {Void}
  <2>1. PICK left : left = NotFor(t, queue) OBVIOUS
  <2>2. /\ Len(left) = Len(queue)
        /\ \A i \in 1..Len(queue) : left[i] = Void \/ left[i] = queue[i]
    BY <1>3, <2>1, OnNotFor
  <2>3. On(left) \subseteq On(queue) \cup {Void} BY <2>2 DEF On
  <2> QED BY <2>1, <2>3
<1>4. On(<<>>) = {}
  <2>1. \A i \in 1..Len(<<>>) : FALSE
    <3>1. Len(<<>>) = 0 OBVIOUS
    <3> QED BY <3>1
  <2> QED BY <2>1 DEF On
<1> QED BY <1>1, <1>2, <1>3, <1>4

\* The messages on a wire are of its kinds.
LEMMA OnTyped ==
  ASSUME Typed
  PROVE  /\ On(to_agent) \subseteq ToAgent /\ On(to_client) \subseteq ToClient
         /\ \A m \in On(to_agent) : m.kind = "get" => m.what \in What
         /\ \A m \in On(to_client) : m.kind = "reply" => m.what \in What
         /\ \A t \in Tasks : \A m \in On(tasks[t].got) : m \in Replies /\ m.what \in What
<1>1. On(to_agent) \subseteq ToAgent /\ On(to_client) \subseteq ToClient BY DEF Typed, On
<1>2. \A m \in On(to_agent) : m.kind = "get" => m.what \in What BY <1>1, AgentHearsOf DEF Gets
<1>3. \A m \in On(to_client) : m.kind = "reply" => m.what \in What BY <1>1, ClientHearsOf, AReply
<1>4. ASSUME NEW t \in Tasks, NEW m \in On(tasks[t].got)
      PROVE  m \in Replies /\ m.what \in What
  <2>1. tasks[t].got \in Seq(Replies) BY DEF Typed, Task
  <2>2. m \in Replies BY <1>4, <2>1 DEF On
  <2> QED BY <2>2, AReply
<1> QED BY <1>1, <1>2, <1>3, <1>4

\* A step that keeps what it has, and sends nothing that is not well asked or
\* answered.
LEMMA CachingStays ==
  ASSUME Typed, Record, Caching,
         Len(published') \in Nat, Len(published) <= Len(published'),
         \A i \in 1..Len(published) : published'[i] = published[i],
         cache' = cache \/ (\A what \in What : Etag(cache', what) # 0),
         \A c \in {cache'} : c = cache \/ WellKept(c)',
         \A m \in On(to_agent') : m \in On(to_agent) \/ WellAsked(m)' \/ m.kind # "get",
         \A m \in On(to_client') : m \in On(to_client) \/ m.kind # "reply" \/ WellAnswered(m)',
         \A t \in Tasks : tasks'[t] = tasks[t] \/ \A task \in {tasks'[t]} : WellRead(task)'
  PROVE  Caching'
<1>1. /\ \A what, part : Tagged(what, part) => Tagged(what, part)'
      /\ \A s : AsPublished(s) => AsPublished(s)'
  BY TaggedGrows DEF Record
<1>2. \A what \in What : Has(what) => Has(what)' BY DEF Has
<1>9. /\ \A m \in On(to_agent) : m.kind = "get" => m.what \in What
      /\ \A m \in On(to_client) : m.kind = "reply" => m.what \in What
      /\ \A t \in Tasks : \A m \in On(tasks[t].got) : m.what \in What
  BY OnTyped
<1>3. \A m : m.what \in What /\ WellAnswered(m) => WellAnswered(m)' BY <1>1, <1>2 DEF WellAnswered
<1>4. \A c \in {cache'} : WellKept(c)' BY <1>1 DEF Caching, WellKept
<1>5. \A m \in On(to_agent') : WellAsked(m)' BY <1>2, <1>9 DEF Caching, WellAsked
<1>6. \A m \in On(to_client') : m.kind = "reply" => WellAnswered(m)' BY <1>3, <1>9 DEF Caching
<1>7. ASSUME NEW t \in Tasks, NEW task, task = tasks'[t]
      PROVE  WellRead(task)'
  <2>1. CASE task = tasks[t]
    <3>1. WellRead(task) /\ \A m \in On(task.got) : m.what \in What BY <1>9, <2>1 DEF Caching
    <3> QED BY <1>1, <1>2, <1>3, <3>1 DEF WellRead
  <2> QED BY <1>7, <2>1
<1> QED BY <1>4, <1>5, <1>6, <1>7 DEF Caching

\* The agent answers with what was published last, or that the client has it.
LEMMA CachingByAgent ==
  ASSUME Typed, Record, Caching, AgentHears
  PROVE  Caching'
<1>1. PICK call \in ToAgent :
         /\ call = Head(to_agent) /\ to_agent # <<>> /\ to_agent' = Tail(to_agent)
         /\ UNCHANGED <<reading, listeners, cache, tasks, resynced, open>>
         /\ \/ call \in Gets /\ Answers(call)
            \/ call.watch \in Watches /\ call \in CallsFor(call.watch) /\ Watched(call)
            \/ call.watch \in Watches /\ call \in ReleasesOf(call.watch) /\ Released(call)
            \/ call.watch \in Watches /\ call.taken \in BOOLEAN /\ call \in AnswersOf(call.watch)
                 /\ Answered(call)
            \/ call.kind = "void" /\ UNCHANGED <<agent, to_client>>
  BY AgentCases
<1>2. to_agent \in Seq(ToAgent) /\ to_client \in Seq(ToClient) BY DEF Typed
<1>3. call \in On(to_agent) /\ On(to_agent') \subseteq On(to_agent) BY <1>1, <1>2, OnWire
<1>4. published' = published /\ Len(published) \in Nat /\ published \in Seq(Snapshot) /\ published # <<>>
  BY <1>1 DEF Answers, Watched, Released, Answered, agent, Record
<1>5. \A m \in On(to_client') : m \in On(to_client) \/ m.kind # "reply" \/ WellAnswered(m)'
  <2>1. CASE UNCHANGED to_client BY <2>1
  <2>2. CASE call \in Gets /\ Answers(call)
    <3>1. PICK reply : reply = Reply(call) OBVIOUS
    <3>2. Latest = published[Len(published)] /\ Latest \in Snapshot BY <1>4 DEF Latest
    <3>3. /\ reply \in Replies /\ reply.what = call.what
          /\ reply.part = IF NotModified(call.tag, call.what) THEN None ELSE Part(Latest, call.what)
      BY <1>4, <2>2, <3>1, <3>2, ReplyFields
    <3>4. WellAnswered(reply)
      <4>1. call.kind = "get" /\ call.what \in What BY <2>2 DEF Gets
      <4>2. CASE NotModified(call.tag, call.what)
        <5>1. WellAsked(call) /\ call.tag # 0 BY <1>3, <4>2 DEF Caching, NotModified
        <5>2. Has(call.what) BY <4>1, <5>1 DEF WellAsked
        <5> QED BY <3>3, <4>2, <5>2 DEF WellAnswered
      <4>3. CASE ~NotModified(call.tag, call.what)
        <5>1. Len(published) \in 1..Len(published) BY <1>4
        <5>2. Tagged(reply.what, reply.part) BY <3>2, <3>3, <4>3, <5>1 DEF Tagged
        <5>3. reply.part # None BY <3>2, <3>3, <4>1, <5>2, TaggedHas
        <5> QED BY <5>2, <5>3 DEF WellAnswered
      <4> QED BY <4>2, <4>3
    <3>5. WellAnswered(reply)' BY <1>1, <1>4, <3>4 DEF WellAnswered, Has, Tagged
    <3>6. to_client' = Append(to_client, reply) /\ reply \in ToClient
      BY <2>2, <3>1, <3>3, AReply DEF Answers
    <3>7. On(to_client') = On(to_client) \cup {reply} BY <1>2, <3>6, OnWire
    <3> QED BY <3>5, <3>7
  <2>3. CASE call.watch \in Watches /\ Watched(call)
    <3>1. PICK w \in Watches : w = call.watch BY <2>3
    <3>2. PICK taken \in BOOLEAN : taken = ~Full OBVIOUS
    <3>3. PICK watching : watching = [kind |-> "watching", watch |-> w, taken |-> taken] OBVIOUS
    <3>4. watching \in ToClient /\ watching.kind = "watching" BY <3>3, AWatching
    <3>5. to_client' = Append(to_client, watching) BY <2>3, <3>1, <3>2, <3>3 DEF Watched
    <3>6. On(to_client') = On(to_client) \cup {watching} BY <1>2, <3>4, <3>5, OnWire
    <3> QED BY <3>4, <3>6
  <2> QED BY <1>1, <2>1, <2>2, <2>3 DEF Released, Answered
<1> QED BY <1>1, <1>3, <1>4, <1>5, CachingStays

\* What asks under the tags of the cache is well asked.
LEMMA ThreeWellAsked ==
  ASSUME Typed, NEW t \in Tasks, to_agent' = to_agent \o Three(t), UNCHANGED cache
  PROVE  \A m \in On(to_agent') : m \in On(to_agent) \/ WellAsked(m)'
<1>1. PICK a, b, c : /\ a = Get(t, "services", cache) /\ b = Get(t, "processes", cache)
                     /\ c = Get(t, "states", cache)
  OBVIOUS
<1>2. /\ a \in ToAgent /\ a.what = "services" /\ a.tag = Etag(cache, "services")
      /\ b \in ToAgent /\ b.what = "processes" /\ b.tag = Etag(cache, "processes")
      /\ c \in ToAgent /\ c.what = "states" /\ c.tag = Etag(cache, "states")
  BY <1>1, AGet DEF Typed, What
<1>3. to_agent' = Append(Append(Append(to_agent, a), b), c) BY <1>1, ThreeSent
<1>4. PICK one : one = Append(to_agent, a) OBVIOUS
<1>5. PICK two : two = Append(one, b) OBVIOUS
<1>6. to_agent \in Seq(ToAgent) /\ one \in Seq(ToAgent) /\ two \in Seq(ToAgent)
  BY <1>2, <1>4, <1>5 DEF Typed
<1>7. /\ On(one) = On(to_agent) \cup {a} /\ On(two) = On(one) \cup {b}
      /\ On(to_agent') = On(two) \cup {c}
  <2>1. On(Append(to_agent, a)) = On(to_agent) \cup {a} BY <1>2, <1>6, OnWire
  <2>2. On(Append(one, b)) = On(one) \cup {b} BY <1>2, <1>6, OnWire
  <2>3. On(Append(two, c)) = On(two) \cup {c} BY <1>2, <1>6, OnWire
  <2> QED BY <1>3, <1>4, <1>5, <2>1, <2>2, <2>3
<1>8. WellAsked(a)' /\ WellAsked(b)' /\ WellAsked(c)' BY <1>2 DEF WellAsked, Has
<1> QED BY <1>7, <1>8

\* What is answered asks for nothing.
LEMMA HandsOverAsks ==
  ASSUME Typed, NEW w \in Watches, NEW d, HandsOver(w, d)
  PROVE  \A m \in On(to_agent') : m \in On(to_agent) \/ m.kind # "get"
<1>1. PICK answer : answer = Answer(w, FALSE) OBVIOUS
<1>2. answer \in ToAgent /\ answer.kind = "answer" /\ to_agent \in Seq(ToAgent)
  BY <1>1, AnAnswer DEF Typed
<1>3. to_agent' = to_agent \/ to_agent' = Append(to_agent, answer) BY <1>1 DEF HandsOver
<1>4. On(Append(to_agent, answer)) = On(to_agent) \cup {answer} BY <1>2, OnWire
<1> QED BY <1>2, <1>3, <1>4

\* An answer to a task: what it kept so far, and what it reads on under.
LEMMA CachingByReply ==
  ASSUME Typed, Record, Reading, Caching, to_client # <<>>, to_client' = Tail(to_client),
         UNCHANGED agent, NEW m \in Replies, m = Head(to_client), HearsReply(m)
  PROVE  Caching'
<1>1. PICK t : t = m.task OBVIOUS
<1>2. /\ t \in Tasks /\ tasks \in [Tasks -> Task] /\ tasks[t] \in Task
      /\ tasks[t].at \in {"three", "processes", "states"}
      /\ to_agent \in Seq(ToAgent) /\ to_client \in Seq(ToClient)
  BY <1>1, AnswerAwaited DEF Typed
<1>3. published' = published /\ Len(published) \in Nat BY DEF agent, Record
<1>4. m \in On(to_client) /\ On(to_client') \subseteq On(to_client) BY <1>2, OnWire
<1>5. WellAnswered(m) /\ WellRead(tasks[t]) BY <1>2, <1>4, AReply DEF Caching
<1>6. \A s : AsPublished(s) => AsPublished(s)' BY <1>3, TaggedGrows
<1>7. CASE Collects(t, m)
  <2>1. PICK got : got = Got(t, m) OBVIOUS
  <2>2. On(got) = On(tasks[t].got) \cup {m} BY <1>2, <2>1, OnWire DEF Got, Task
  <2>3. PICK next : next = [tasks[t] EXCEPT !.got = got] OBVIOUS
  <2>4. /\ next.at = tasks[t].at /\ next.got = got /\ next.result = tasks[t].result
    <3> DEFINE gots == Seq(Replies)
    <3>1. tasks[t] \in [at : {"idle", "three", "processes", "states", "done"}, tries : Nat,
                        since : Nat, got : gots, sample : Nat, result : Snapshot \cup {None}]
      BY <1>2 DEF Task
    <3> HIDE DEF gots
    <3> QED BY <2>3, <3>1
  <2>5. UNCHANGED <<to_agent, cache>> /\ tasks' = [tasks EXCEPT ![t] = next]
    BY <1>7, <2>1, <2>3 DEF Collects
  <2>6. WellRead(next) BY <1>5, <2>2, <2>4 DEF WellRead
  <2>7. WellRead(next)' BY <1>3, <1>6, <2>5, <2>6 DEF WellRead, WellAnswered, Has, Tagged
  <2>8. \A u \in Tasks : tasks'[u] = tasks[u] \/ tasks'[u] = next BY <1>2, <2>5
  <2> QED BY <1>3, <1>4, <2>5, <2>7, <2>8, CachingStays
<1>8. ASSUME NEW k \in Snapshot, k = KeptOf(t, m), tasks[t].at = "three" => Len(Got(t, m)) = 3,
             ReadsOn(t, k) \/ Concludes(t, k) \/ Resyncs(t, k)
      PROVE  Caching'
  <2>1. WellKept(k) /\ \A what \in What : Etag(k, what) # 0 BY <1>1, <1>8, WholeKept
  <2>2. cache' = k /\ WellKept(k)' /\ \A what \in What : Has(what)'
    <3>1. cache' = k BY <1>8 DEF ReadsOn, Concludes, Resyncs
    <3>2. WellKept(k)' BY <1>3, <2>1 DEF WellKept, Tagged
    <3> QED BY <2>1, <3>1, <3>2 DEF Has
  <2>3. PICK next : next = IF Resyncs(t, k) THEN Idle ELSE Goes(t, k) OBVIOUS
  <2>4. next.got = <<>> /\ next.result \in {None, tasks[t].result, k}
        /\ (next.result = k => Joined(k) \/ next.result = tasks[t].result)
    <3>1. CASE Resyncs(t, k) BY <2>3, <3>1, IdleFields, NoneAssumption
    <3>2. CASE ~Resyncs(t, k)
      <4>1. next = Goes(t, k) BY <2>3, <3>2
      <4>2. k # None BY NoneAssumption
      <4> QED BY <1>2, <4>1, <4>2, GoesFields
    <3> QED BY <3>1, <3>2
  <2>5. WellRead(next)'
    <3>1. On(next.got) = {}
      <4>1. On(<<>>) = {} BY <1>2, OnWire
      <4> QED BY <2>4, <4>1
    <3>2. Joined(k) => AsPublished(k)' BY <1>6, <2>1, JoinedAsPublished
    <3>3. tasks[t].result # None => AsPublished(tasks[t].result) BY <1>5 DEF WellRead
    <3>4. next.result # None => AsPublished(next.result)' BY <1>6, <2>4, <3>2, <3>3
    <3> QED BY <2>2, <3>1, <3>4 DEF WellRead
  <2>6. tasks' = [tasks EXCEPT ![t] = next]
    <3>1. CASE Resyncs(t, k) BY <2>3, <3>1 DEF Resyncs
    <3>2. CASE ~Resyncs(t, k) BY <1>8, <2>3, <3>2 DEF ReadsOn, Concludes
    <3> QED BY <3>1, <3>2
  <2>7. \A u \in Tasks : tasks'[u] = tasks[u] \/ tasks'[u] = next BY <1>2, <2>6
  <2>8. \A x \in On(to_agent') : x \in On(to_agent) \/ WellAsked(x)' \/ x.kind # "get"
    <3>1. CASE ReadsOn(t, k)
      <4>1. PICK get : get = Get(t, FetchesNext(t), k) OBVIOUS
      <4>2. FetchesNext(t) \in What BY DEF FetchesNext, What
      <4>3. get \in ToAgent /\ get.what = FetchesNext(t) BY <1>2, <4>1, <4>2, AGet
      <4>4. On(Append(to_agent, get)) = On(to_agent) \cup {get} BY <1>2, <4>3, OnWire
      <4>5. to_agent' = Append(to_agent, get) BY <3>1, <4>1 DEF ReadsOn
      <4>6. WellAsked(get)' BY <2>2, <4>2, <4>3 DEF WellAsked
      <4> QED BY <4>4, <4>5, <4>6
    <3>2. CASE Concludes(t, k) BY <3>2 DEF Concludes
    <3>3. CASE Resyncs(t, k)
      <4>1. t \in Watches /\ \E d : HandsOver(t, d) BY <3>3 DEF Resyncs
      <4> QED BY <4>1, HandsOverAsks
    <3> QED BY <1>8, <3>1, <3>2, <3>3
  <2> QED BY <1>3, <1>4, <2>1, <2>2, <2>5, <2>7, <2>8, CachingStays
<1> QED BY <1>1, <1>7, <1>8, ReplyCases

\* What the client hears that is no answer to a task keeps nothing.
LEMMA CachingByHearing ==
  ASSUME Typed, Record, Reading, Caching, ClientHears
  PROVE  Caching'
<1>1. PICK m \in ToClient :
           /\ m = Head(to_client) /\ to_client # <<>> /\ to_client' = Tail(to_client)
           /\ UNCHANGED <<agent, open>>
           /\ \/ HearsWatching(m)
              \/ m \in Updates /\ HearsUpdate(m)
              \/ m \in Replies /\ HearsReply(m)
              \/ HearsNothing(m)
  BY ClientCases
<1>2. published' = published /\ Len(published) \in Nat /\ to_client \in Seq(ToClient)
      /\ tasks \in [Tasks -> Task]
  BY <1>1 DEF agent, Record, Typed
<1>3. On(to_client') \subseteq On(to_client) BY <1>1, <1>2, OnWire
<1>4. CASE HearsWatching(m) \/ HearsNothing(m)
  <2>1. UNCHANGED <<to_agent, tasks, cache>> BY <1>4 DEF HearsWatching, HearsNothing
  <2> QED BY <1>2, <1>3, <2>1, CachingStays
<1>5. CASE m \in Updates /\ HearsUpdate(m)
  <2>1. PICK w \in Watches : w = m.watch BY <1>5, AnUpdate
  <2>2. w \in Tasks /\ UNCHANGED cache BY <1>5 DEF Tasks, HearsUpdate
  <2>3. PICK next : next = [Asks(w) EXCEPT !.sample = m.sample] OBVIOUS
  <2>4. next.at = "three" /\ next.got = <<>> /\ next.result = None BY <2>3 DEF Asks, Idle
  <2>5. \/ UNCHANGED tasks /\ \E d : HandsOver(w, d)
        \/ tasks' = [tasks EXCEPT ![w] = next] /\ to_agent' = to_agent \o Three(w)
    BY <1>5, <2>1, <2>3 DEF HearsUpdate
  <2>6. WellRead(next)'
    <3>1. On(<<>>) = {} BY <1>2, OnWire
    <3> QED BY <2>4, <3>1 DEF WellRead
  <2>7. \A u \in Tasks : tasks'[u] = tasks[u] \/ tasks'[u] = next BY <1>2, <2>5
  <2>8. \A x \in On(to_agent') : x \in On(to_agent) \/ WellAsked(x)' \/ x.kind # "get"
    BY <2>2, <2>5, HandsOverAsks, ThreeWellAsked
  <2> QED BY <1>2, <1>3, <2>2, <2>6, <2>7, <2>8, CachingStays
<1> QED BY <1>1, <1>4, <1>5, CachingByReply

\* What the client does of itself, and the end.
LEMMA CachingByClient ==
  ASSUME Typed, Record, Caching,
         \/ \E t \in Callers : CallsSnapshot(t) \/ Leaves(t)
         \/ \E w \in Watches : CallsWatch(w) \/ Drops(w) \/ Takes(w)
         \/ Ends
  PROVE  Caching'
<1>1. /\ to_agent \in Seq(ToAgent) /\ to_client \in Seq(ToClient) /\ tasks \in [Tasks -> Task]
      /\ Len(published) \in Nat /\ On(<<>>) = {}
  <2>1. to_agent \in Seq(ToAgent) /\ to_client \in Seq(ToClient) /\ tasks \in [Tasks -> Task]
        /\ Len(published) \in Nat
    BY DEF Typed, Record
  <2> QED BY <2>1, OnWire
<1>2. ASSUME NEW t \in Callers, CallsSnapshot(t)
      PROVE  Caching'
  <2>1. /\ UNCHANGED <<published, to_client, cache>> /\ to_agent' = to_agent \o Three(t)
        /\ tasks' = [tasks EXCEPT ![t] = Asks(t)] /\ t \in Tasks
    BY <1>2 DEF CallsSnapshot, agent, Tasks
  <2>2. PICK next : next = Asks(t) OBVIOUS
  <2>3. next.at = "three" /\ next.got = <<>> /\ next.result = None BY <2>2, AsksFields DEF Record
  <2>4. WellRead(next)' BY <1>1, <2>3 DEF WellRead
  <2>5. \A u \in Tasks : tasks'[u] = tasks[u] \/ tasks'[u] = next BY <1>1, <2>1, <2>2
  <2> QED BY <1>1, <2>1, <2>4, <2>5, ThreeWellAsked, CachingStays
<1>3. WellRead(Idle)' BY <1>1, IdleFields DEF WellRead
<1>4. ASSUME NEW t \in Callers, Leaves(t)
      PROVE  Caching'
  <2>1. /\ UNCHANGED <<published, cache>> /\ tasks' = [tasks EXCEPT ![t] = Idle]
        /\ to_agent' = NotFor(t, to_agent) /\ to_client' = NotFor(t, to_client)
    BY <1>4 DEF Leaves, agent
  <2>2. On(to_agent') \subseteq On(to_agent) \cup {Void} BY <1>1, <2>1, AVoid, OnWire
  <2>3. On(to_client') \subseteq On(to_client) \cup {Void} BY <1>1, <2>1, AVoid, OnWire
  <2>4. \A u \in Tasks : tasks'[u] = tasks[u] \/ tasks'[u] = Idle BY <1>1, <2>1
  <2> QED BY <1>1, <1>3, <2>1, <2>2, <2>3, <2>4, AVoid, CachingStays
<1>5. ASSUME UNCHANGED <<published, to_client, cache, tasks>>,
             \A m \in On(to_agent') : m \in On(to_agent) \/ m.kind # "get"
      PROVE  Caching'
  BY <1>1, <1>5, CachingStays
<1>6. ASSUME NEW w \in Watches, CallsWatch(w)
      PROVE  Caching'
  <2>1. PICK call : call = [kind |-> "watch", watch |-> w] OBVIOUS
  <2>2. call \in ToAgent /\ call.kind = "watch" BY <2>1, ACall
  <2>3. to_agent' = Append(to_agent, call) /\ UNCHANGED <<published, to_client, cache, tasks>>
    BY <1>6, <2>1 DEF CallsWatch, agent
  <2>4. On(Append(to_agent, call)) = On(to_agent) \cup {call} BY <1>1, <2>2, OnWire
  <2> QED BY <1>5, <2>2, <2>3, <2>4
<1>7. ASSUME NEW w \in Watches, Drops(w)
      PROVE  Caching'
  <2>1. PICK answer, release : answer = Answer(w, FALSE) /\ release = [kind |-> "release", watch |-> w]
    OBVIOUS
  <2>2. answer \in ToAgent /\ answer.kind = "answer" /\ release \in ToAgent /\ release.kind = "release"
    <3>1. answer \in ToAgent /\ answer.kind = "answer" BY <2>1, AnAnswer
    <3>2. release \in ToAgent /\ release.kind = "release" BY <2>1, ARelease
    <3> QED BY <3>1, <3>2
  <2>3. PICK one : one = Append(to_agent, answer) OBVIOUS
  <2>4. one \in Seq(ToAgent) BY <1>1, <2>2, <2>3
  <2>5. On(one) = On(to_agent) \cup {answer} BY <1>1, <2>2, <2>3, OnWire
  <2>6. On(Append(to_agent, release)) = On(to_agent) \cup {release} BY <1>1, <2>2, OnWire
  <2>7. On(Append(one, release)) = On(one) \cup {release} BY <2>2, <2>4, OnWire
  <2>8. to_agent' = Append(to_agent, release) \/ to_agent' = Append(one, release)
    BY <1>7, <2>1, <2>3, DropsSends
  <2>9. UNCHANGED <<published, to_client, cache, tasks>> BY <1>7 DEF Drops, agent
  <2>10. \A m \in On(to_agent') : m \in On(to_agent) \/ m.kind # "get"
    BY <2>2, <2>5, <2>6, <2>7, <2>8
  <2> QED BY <1>5, <2>9, <2>10
<1>8. ASSUME NEW w \in Watches, Takes(w)
      PROVE  Caching'
  <2>1. PICK taken \in BOOLEAN : taken = ~waiting[w].failed OBVIOUS
  <2>2. PICK answer : answer = Answer(w, taken) OBVIOUS
  <2>3. answer \in ToAgent /\ answer.kind = "answer" BY <2>2, AnAnswer
  <2>4. to_agent' = Append(to_agent, answer) /\ UNCHANGED <<published, to_client, cache, tasks>>
    BY <1>8, <2>1, <2>2 DEF Takes, agent
  <2>5. On(Append(to_agent, answer)) = On(to_agent) \cup {answer} BY <1>1, <2>3, OnWire
  <2> QED BY <1>5, <2>3, <2>4, <2>5
<1>9. CASE Ends
  <2>1. to_agent' = <<>> /\ to_client' = <<>> /\ cache' = Cache /\ \A t \in Tasks : tasks'[t] = Idle
    BY <1>9 DEF Ends
  <2>2. WellKept(Cache)'
    <3>1. \A what \in What : Etag(Cache, what) = 0 BY DEF Etag, Cache, Nothing, What
    <3> QED BY <3>1 DEF WellKept
  <2> QED BY <1>1, <1>3, <2>1, <2>2 DEF Caching
<1> QED BY <1>2, <1>4, <1>6, <1>7, <1>8, <1>9

\* A step leaves what is kept, asked and answered well.
LEMMA CachingKept ==
  ASSUME Typed, Record, Record', Onward, Reading, Caching, [Next]_vars
  PROVE  Caching'
<1>1. CASE Publishes \/ UNCHANGED vars
  <2>1. UNCHANGED <<to_agent, to_client, tasks, cache>> BY <1>1 DEF Publishes, vars, wires
  <2>2. /\ Len(published) \in Nat /\ Len(published') \in Nat /\ Len(published) <= Len(published')
        /\ \A i \in 1..Len(published) : published'[i] = published[i]
    <3>1. published \in Seq(Snapshot) /\ published' \in Seq(Snapshot) BY DEF Record
    <3>2. CASE Publishes
      <4>1. PICK after : published' = Append(published, after) BY <3>2 DEF Publishes
      <4> QED BY <3>1, <4>1
    <3>3. CASE UNCHANGED vars BY <3>1, <3>3 DEF vars, agent
    <3> QED BY <1>1, <3>2, <3>3
  <2> QED BY <2>1, <2>2, CachingStays
<1>2. ASSUME NEW w \in Watches, Pushes(w)
      PROVE  Caching'
  <2>1. PICK m \in Updates : to_client' = Append(to_client, m) BY <1>2, PushSent
  <2>2. m \in ToClient /\ m.kind = "update" /\ to_client \in Seq(ToClient) /\ Len(published) \in Nat
    BY AnUpdate DEF Typed, Record
  <2>3. On(Append(to_client, m)) = On(to_client) \cup {m} BY <2>2, OnWire
  <2>4. UNCHANGED <<published, to_agent, tasks, cache>> BY <1>2 DEF Pushes
  <2> QED BY <2>1, <2>2, <2>3, <2>4, CachingStays
<1> QED BY <1>1, <1>2, CachingByAgent, CachingByHearing, CachingByClient DEF Next, Agent, Client

-----------------------------------------------------------------------------
(***************************************************************************)
(* The places of a session.                                                *)
(***************************************************************************)
\* One more message.
LEMMA SameCallsAppend ==
  ASSUME NEW queue \in Seq(ToAgent), NEW one \in Seq(ToAgent), SameCalls(queue, one), NEW m \in ToAgent
  PROVE  /\ SameCalls(queue, Append(one, m))
         /\ NoMoreCalls(queue, one) /\ NeitherCall(m) => NoMoreCalls(queue, Append(one, m))
<1>1. PICK more : more = Append(one, m) OBVIOUS
<1>2. /\ Len(more) = Len(one) + 1 /\ Len(one) \in Nat /\ Len(queue) \in Nat
      /\ \A i \in 1..Len(one) : more[i] = one[i]
      /\ more[Len(one) + 1] = m
      /\ \A i \in 1..(Len(one) + 1) : i \in 1..Len(one) \/ i = Len(one) + 1
  BY <1>1, OnAppend
<1>3. \A i \in 1..Len(queue) : i \in 1..Len(one) BY <1>2 DEF SameCalls
<1>4. SameCalls(queue, more) BY <1>2, <1>3 DEF SameCalls
<1>5. NoMoreCalls(queue, one) /\ NeitherCall(m) => NoMoreCalls(queue, more) BY <1>2 DEF NoMoreCalls
<1> QED BY <1>1, <1>4, <1>5

\* None, or what is not for a caller any more.
LEMMA SameCallsSelf ==
  ASSUME NEW queue \in Seq(ToAgent)
  PROVE  /\ SameCalls(queue, queue) /\ NoMoreCalls(queue, queue)
         /\ \A t : SameCalls(queue, NotFor(t, queue)) /\ NoMoreCalls(queue, NotFor(t, queue))
<1>1. Len(queue) \in Nat OBVIOUS
<1>2. SameCalls(queue, queue) /\ NoMoreCalls(queue, queue) BY <1>1 DEF SameCalls, NoMoreCalls
<1>3. ASSUME NEW t
      PROVE  SameCalls(queue, NotFor(t, queue)) /\ NoMoreCalls(queue, NotFor(t, queue))
  <2>1. PICK left : left = NotFor(t, queue) OBVIOUS
  <2>2. /\ Len(left) = Len(queue)
        /\ \A i \in 1..Len(queue) :
             \/ left[i] = queue[i]
             \/ left[i] = Void /\ queue[i].kind \in {"get", "reply"}
    <3>1. /\ Len(left) = Len(queue)
          /\ \A i \in 1..Len(queue) : left[i] = queue[i] \/ left[i] = Void
          /\ \A i \in 1..Len(queue) :
              ~(queue[i].kind \in {"get", "reply"} /\ queue[i].task = t) => left[i] = queue[i]
      BY <2>1, AVoid, OnNotFor
    <3> QED BY <3>1
  <2>3. ASSUME NEW i \in 1..Len(queue), NEW v \in Watches
        PROVE  /\ left[i] \in CallsFor(v) <=> queue[i] \in CallsFor(v)
               /\ left[i] \in ReleasesOf(v) <=> queue[i] \in ReleasesOf(v)
    <3>1. CASE left[i] = queue[i] BY <3>1
    <3>2. CASE left[i] = Void /\ queue[i].kind \in {"get", "reply"} BY <3>2, AVoid, KindsOf
    <3> QED BY <2>2, <3>1, <3>2
  <2>4. SameCalls(queue, left) /\ NoMoreCalls(queue, left)
    BY <1>1, <2>2, <2>3 DEF SameCalls, NoMoreCalls
  <2> QED BY <2>1, <2>4
<1> QED BY <1>2, <1>3

\* Who is beside a call is who was.
LEMMA SameBeside ==
  ASSUME NEW queue \in Seq(ToAgent), NEW after \in Seq(ToAgent), SameCalls(queue, after),
         NEW holding, NEW i \in 1..(Len(queue) + 1)
  PROVE  Beside(after, holding, i) = Beside(queue, holding, i)
<1>1. Len(queue) \in Nat /\ \A j \in 1..(i - 1) : j \in 1..Len(queue) OBVIOUS
<1>2. ASSUME NEW v \in Watches
      PROVE  /\ Before(after, CallsFor(v), i) <=> Before(queue, CallsFor(v), i)
             /\ Before(after, ReleasesOf(v), i) <=> Before(queue, ReleasesOf(v), i)
  BY <1>1 DEF Before, SameCalls
<1> QED BY <1>2 DEF Beside

\* And so is who called for a watch and let it go.
LEMMA SameLacks ==
  ASSUME NEW queue \in Seq(ToAgent), NEW after \in Seq(ToAgent), SameCalls(queue, after),
         NoMoreCalls(queue, after), NEW v \in Watches
  PROVE  /\ Lacks(after, CallsFor(v)) <=> Lacks(queue, CallsFor(v))
         /\ Lacks(after, ReleasesOf(v)) <=> Lacks(queue, ReleasesOf(v))
         /\ CalledFirst(queue, v) => CalledFirst(after, v)
         /\ \A holding, most : FewBeside(queue, holding, v, most) => FewBeside(after, holding, v, most)
<1>1. /\ Len(queue) \in Nat /\ Len(after) \in Nat
      /\ \A i \in 1..Len(queue) : i \in 1..Len(after) /\ i \in 1..(Len(queue) + 1)
      /\ \A i \in 1..Len(after) : i \in 1..Len(queue) \/ i > Len(queue)
  BY DEF SameCalls
<1>2. /\ Lacks(after, CallsFor(v)) <=> Lacks(queue, CallsFor(v))
      /\ Lacks(after, ReleasesOf(v)) <=> Lacks(queue, ReleasesOf(v))
  BY <1>1 DEF SameCalls, NoMoreCalls, NeitherCall, Lacks
<1>3. CalledFirst(queue, v) => CalledFirst(after, v)
  BY <1>1 DEF SameCalls, NoMoreCalls, NeitherCall, CalledFirst
<1>4. ASSUME NEW holding, NEW most, FewBeside(queue, holding, v, most), NEW i \in 1..Len(after),
             after[i] \in CallsFor(v)
      PROVE  Cardinality(Beside(after, holding, i)) <= most
  <2>1. i \in 1..Len(queue) /\ queue[i] \in CallsFor(v)
    BY <1>1, <1>4 DEF SameCalls, NoMoreCalls, NeitherCall
  <2>2. Beside(after, holding, i) = Beside(queue, holding, i) BY <1>1, <2>1, SameBeside
  <2> QED BY <1>4, <2>1, <2>2 DEF FewBeside
<1> QED BY <1>2, <1>3, <1>4 DEF FewBeside

\* A step that is about no place.
LEMMA PlacesStay ==
  ASSUME Typed, Typed', Places, UNCHANGED <<handles, held, watches>>,
         \A queue \in {to_agent} : \A after \in {to_agent'} :
           SameCalls(queue, after) /\ NoMoreCalls(queue, after),
         \A w \in Watches : Lacks(to_client, RefusalsOf(w)) => Lacks(to_client', RefusalsOf(w))
  PROVE  Places'
<1>1. PICK queue : queue = to_agent OBVIOUS
<1>2. PICK after : after = to_agent' OBVIOUS
<1>3. queue \in Seq(ToAgent) /\ after \in Seq(ToAgent) /\ SameCalls(queue, after) /\ NoMoreCalls(queue, after)
  BY <1>1, <1>2 DEF Typed
<1>4. PICK holding : holding = Holding OBVIOUS
<1>5. Holding' = holding BY <1>4 DEF Holding
<1>6. ASSUME NEW w \in Watches
      PROVE  PlaceOf(w)' /\ CalledFirst(after, w)
             /\ \A mine \in {watches[w]} : mine.at = "asked" => FewBeside(after, holding, w, mine.beside)
  <2>1. /\ Lacks(after, CallsFor(w)) <=> Lacks(queue, CallsFor(w))
        /\ Lacks(after, ReleasesOf(w)) <=> Lacks(queue, ReleasesOf(w))
        /\ CalledFirst(queue, w) => CalledFirst(after, w)
        /\ \A most : FewBeside(queue, holding, w, most) => FewBeside(after, holding, w, most)
    BY <1>3, SameLacks
  <2>2. /\ PlaceOf(w) /\ CalledFirst(queue, w)
        /\ \A mine \in {watches[w]} : mine.at = "asked" => FewBeside(queue, holding, w, mine.beside)
    BY <1>1, <1>4 DEF Places
  <2>3. (Calling(w)' <=> Calling(w)) /\ (LettingGo(w)' <=> LettingGo(w))
    BY <1>1, <1>2, <2>1 DEF Calling, LettingGo
  <2>4. ToBeRefused(w)' => ToBeRefused(w) BY DEF ToBeRefused
  <2>5. PlaceOf(w)' BY <2>2, <2>3, <2>4 DEF PlaceOf
  <2> QED BY <2>1, <2>2, <2>5
<1>7. held' = Cardinality(holding) /\ held' <= MaxHeld BY <1>4 DEF Places
<1> QED BY <1>2, <1>5, <1>6, <1>7 DEF Places

\* Where no watch has been called for, none has a place.
LEMMA PlacesAtFirst ==
  ASSUME Init PROVE Places
<1>1. /\ to_agent = <<>> /\ to_client = <<>> /\ held = 0
      /\ \A w \in Watches : handles[w] = "none" /\ watches[w] = [at |-> "new", beside |-> 0]
  BY DEF Init
<1>2. Holding = {} BY <1>1 DEF Holding
<1>3. held = Cardinality({}) /\ held <= MaxHeld BY <1>1, FS_EmptySet, SessionAssumption
<1>4. ASSUME NEW w \in Watches
      PROVE  PlaceOf(w)
  <2>1. ~Calling(w) /\ ~LettingGo(w) /\ ~ToBeRefused(w)
    BY <1>1, NothingSent DEF Calling, LettingGo, ToBeRefused
  <2>2. watches[w].at = "new" /\ handles[w] = "none" BY <1>1
  <2> QED BY <2>1, <2>2 DEF PlaceOf
<1>5. \A w \in Watches : CalledFirst(<<>>, w) /\ \A most : FewBeside(<<>>, {}, w, most)
  BY DEF CalledFirst, FewBeside
<1> QED BY <1>1, <1>2, <1>3, <1>4, <1>5 DEF Places

\* Once one call is heard there are no more beside another than there were.
LEMMA BesideLess ==
  ASSUME NEW queue \in Seq(ToAgent), queue # <<>>, NEW rest, rest = Tail(queue), NEW m, m = Head(queue),
         NEW holding, NEW left,
         \A v \in Watches : v \in left => v \in holding \/ m \in CallsFor(v),
         \A v \in Watches : m \in ReleasesOf(v) => v \notin left,
         \A v \in Watches : CalledFirst(queue, v),
         NEW w \in Watches
  PROVE  /\ CalledFirst(rest, w)
         /\ \A most \in Nat : FewBeside(queue, holding, w, most) => FewBeside(rest, left, w, most)
<1>1. /\ Len(queue) \in Nat /\ Len(queue) >= 1 /\ Len(rest) = Len(queue) - 1
      /\ m = queue[1]
      /\ \A i \in 1..Len(rest) : i + 1 \in 1..Len(queue) /\ rest[i] = queue[i + 1]
      /\ \A i \in 1..Len(queue) : i = 1 \/ (i - 1 \in 1..Len(rest) /\ rest[i - 1] = queue[i])
  BY OnTail
<1>2. CalledFirst(rest, w)
  <2>1. ASSUME NEW i \in 1..Len(rest), NEW j \in 1..Len(rest),
               rest[i] \in CallsFor(w), rest[j] \in ReleasesOf(w)
        PROVE  i < j
    <3>1. i + 1 \in 1..Len(queue) /\ j + 1 \in 1..Len(queue)
          /\ queue[i + 1] \in CallsFor(w) /\ queue[j + 1] \in ReleasesOf(w)
      BY <1>1, <2>1
    <3>2. i + 1 < j + 1 BY <3>1 DEF CalledFirst
    <3> QED BY <1>1, <3>2
  <2> QED BY <2>1 DEF CalledFirst
<1>3. ASSUME NEW i \in 1..Len(rest), NEW v \in Watches, v \in Beside(rest, left, i)
      PROVE  v \in Beside(queue, holding, i + 1)
  <2>1. \A j \in 1..(i - 1) : j \in 1..Len(rest) /\ j + 1 \in 1..i /\ j + 1 \in 2..Len(queue)
    BY <1>1
  <2>2. (i + 1) - 1 = i /\ i \in Nat /\ 1 \in 1..i BY <1>1
  <2>3. ASSUME NEW S, Before(rest, S, i)
        PROVE  \E j \in 2..Len(queue) : j \in 1..i /\ queue[j] \in S
    <3>1. PICK j \in 1..(i - 1) : rest[j] \in S BY <2>3 DEF Before
    <3>2. queue[j + 1] \in S BY <1>1, <2>1, <3>1
    <3> QED BY <2>1, <3>2
  <2>4. v \in holding \/ Before(queue, CallsFor(v), i + 1)
    <3>1. CASE v \in left BY <1>1, <2>2, <3>1 DEF Before
    <3>2. CASE Before(rest, CallsFor(v), i) BY <2>2, <2>3, <3>2 DEF Before
    <3> QED BY <1>3, <3>1, <3>2 DEF Beside
  <2>5. ASSUME NEW j \in 1..i, queue[j] \in ReleasesOf(v)
        PROVE  FALSE
    <3>1. CASE j = 1
      <4>1. v \notin left BY <1>1, <2>5, <3>1
      <4>2. PICK k \in 2..Len(queue) : queue[k] \in CallsFor(v) BY <1>3, <2>3, <4>1 DEF Beside
      <4>3. k \in 1..Len(queue) /\ 1 \in 1..Len(queue) /\ ~(k < 1) BY <1>1
      <4> QED BY <2>5, <3>1, <4>2, <4>3 DEF CalledFirst
    <3>2. CASE j # 1
      <4>1. j \in 1..Len(queue) /\ j - 1 \in 1..(i - 1) BY <1>1, <3>2
      <4>2. rest[j - 1] \in ReleasesOf(v) BY <1>1, <2>5, <3>2, <4>1
      <4>3. Before(rest, ReleasesOf(v), i) BY <4>1, <4>2 DEF Before
      <4> QED BY <1>3, <4>3 DEF Beside
    <3> QED BY <3>1, <3>2
  <2>6. ~Before(queue, ReleasesOf(v), i + 1) BY <2>2, <2>5 DEF Before
  <2> QED BY <2>4, <2>6 DEF Beside
<1>4. ASSUME NEW most \in Nat, FewBeside(queue, holding, w, most), NEW i \in 1..Len(rest),
             rest[i] \in CallsFor(w)
      PROVE  Cardinality(Beside(rest, left, i)) <= most
  <2>1. PICK k : k = i + 1 OBVIOUS
  <2>2. k \in 1..Len(queue) /\ queue[k] \in CallsFor(w) BY <1>1, <1>4, <2>1
  <2>3. PICK more : more = Beside(queue, holding, k) OBVIOUS
  <2>4. PICK less : less = Beside(rest, left, i) OBVIOUS
  <2>5. Cardinality(more) <= most BY <1>4, <2>2, <2>3 DEF FewBeside
  <2>6. more \subseteq Watches /\ less \in SUBSET more
    <3>1. less \subseteq Watches /\ more \subseteq Watches BY <2>3, <2>4 DEF Beside
    <3> QED BY <1>3, <2>1, <2>3, <2>4, <3>1
  <2>7. IsFiniteSet(more) /\ IsFiniteSet(less) BY <2>6, FS_Subset, SessionAssumption
  <2>8. Cardinality(less) <= Cardinality(more) BY <2>6, <2>7, FS_Subset
  <2>9. Cardinality(less) \in Nat /\ Cardinality(more) \in Nat BY <2>7, FS_CardinalityType
  <2> QED BY <2>4, <2>5, <2>8, <2>9
<1> QED BY <1>2, <1>4 DEF FewBeside

\* The places a session has taken are a finite set of its watches.
LEMMA HoldingFinite ==
  /\ Holding \subseteq Watches /\ IsFiniteSet(Holding)
  /\ \A holding \in {Holding} : Cardinality(holding) \in Nat
<1>1. Holding \subseteq Watches BY DEF Holding
<1>2. IsFiniteSet(Holding) BY <1>1, FS_Subset, SessionAssumption
<1> QED BY <1>1, <1>2, FS_CardinalityType

\* The agent hears what the client sent: a place is taken, refused or given
\* back.
LEMMA PlacesByAgent ==
  ASSUME Typed, Typed', Turns, Places, AgentHears
  PROVE  Places'
<1>1. PICK m \in ToAgent :
           /\ m = Head(to_agent) /\ to_agent # <<>> /\ to_agent' = Tail(to_agent)
           /\ UNCHANGED <<reading, listeners, cache, tasks, resynced, open>>
           /\ \/ m \in Gets /\ Answers(m)
              \/ m.watch \in Watches /\ m \in CallsFor(m.watch) /\ Watched(m)
              \/ m.watch \in Watches /\ m \in ReleasesOf(m.watch) /\ Released(m)
              \/ m.watch \in Watches /\ m.taken \in BOOLEAN /\ m \in AnswersOf(m.watch) /\ Answered(m)
              \/ m.kind = "void" /\ UNCHANGED <<agent, to_client>>
  BY AgentCases
<1>2. PICK queue : queue = to_agent OBVIOUS
<1>3. PICK holding : holding = Holding OBVIOUS
<1>4. /\ queue \in Seq(ToAgent) /\ queue # <<>> /\ m = Head(queue) /\ m = queue[1]
      /\ Len(queue) \in Nat /\ Len(queue) >= 1
  <2>1. queue \in Seq(ToAgent) /\ queue # <<>> /\ m = Head(queue) BY <1>1, <1>2 DEF Typed
  <2> QED BY <2>1, OnTail
<1>5. \A v \in Watches : CalledFirst(queue, v) /\ PlaceOf(v) BY <1>2 DEF Places
<1>6. watches' = watches /\ watches \in [Watches -> [at : {"new", "asked", "on", "refused", "dropped"}, beside : Nat]]
  BY <1>1 DEF reading, Typed
<1>7. ASSUME NEW v \in Watches
      PROVE  /\ Calling(v)' => Calling(v)
             /\ LettingGo(v)' => LettingGo(v)
             /\ m \in CallsFor(v) => Calling(v) /\ ~Calling(v)'
             /\ m \in ReleasesOf(v) => LettingGo(v) /\ ~Calling(v)
             /\ m \notin ReleasesOf(v) => (LettingGo(v)' <=> LettingGo(v))
  <2>1. /\ Calling(v)' => Calling(v)
        /\ LettingGo(v)' => LettingGo(v)
        /\ m \in CallsFor(v) => Calling(v) /\ ~Calling(v)'
        /\ m \in ReleasesOf(v) => LettingGo(v)
        /\ m \notin ReleasesOf(v) => (LettingGo(v)' <=> LettingGo(v))
    BY <1>1, AgentWire DEF Turns, TurnOf, Calling, LettingGo
  <2>2. ASSUME m \in ReleasesOf(v), NEW i \in 1..Len(queue), queue[i] \in CallsFor(v)
        PROVE  FALSE
    <3>1. 1 \in 1..Len(queue) /\ ~(i < 1) BY <1>4
    <3> QED BY <1>4, <1>5, <2>2, <3>1 DEF CalledFirst
  <2> QED BY <1>2, <2>1, <2>2 DEF Calling, Lacks
<1>8. ASSUME NEW left, left = Holding',
             \A v \in Watches : v \in left => v \in holding \/ m \in CallsFor(v),
             \A v \in Watches : m \in ReleasesOf(v) => v \notin left,
             held' = Cardinality(left), held' <= MaxHeld, \A v \in Watches : PlaceOf(v)'
      PROVE  Places'
  <2>1. PICK rest : rest = Tail(queue) OBVIOUS
  <2>2. rest = to_agent' BY <1>1, <1>2, <2>1
  <2>3. ASSUME NEW w \in Watches
        PROVE  /\ CalledFirst(rest, w)
               /\ \A most \in Nat : FewBeside(queue, holding, w, most) => FewBeside(rest, left, w, most)
    BY <1>4, <1>5, <1>8, <2>1, BesideLess
  <2>4. ASSUME NEW w \in Watches, NEW mine \in {watches[w]}, mine.at = "asked"
        PROVE  FewBeside(rest, left, w, mine.beside)
    <3>1. mine.beside \in Nat BY <1>6
    <3>2. FewBeside(queue, holding, w, mine.beside) BY <1>2, <1>3, <2>4 DEF Places
    <3> QED BY <2>3, <3>1, <3>2
  <2> QED BY <1>6, <1>8, <2>2, <2>3, <2>4 DEF Places
<1>9. ASSUME NEW v \in Watches, handles'[v] = handles[v],
             ToBeRefused(v)' => ToBeRefused(v),
             m \in ReleasesOf(v) => handles[v] # "held"
      PROVE  PlaceOf(v)'
  BY <1>5, <1>6, <1>7, <1>9 DEF PlaceOf
<1>10. ASSUME UNCHANGED <<handles, held>>, \A v \in Watches : ToBeRefused(v)' => ToBeRefused(v),
              \A v \in Watches : m \in ReleasesOf(v) => handles[v] # "held"
       PROVE  Places'
  <2>1. Holding' = holding BY <1>3, <1>10 DEF Holding
  <2>2. \A v \in Watches : m \in ReleasesOf(v) => v \notin holding BY <1>3, <1>10 DEF Holding
  <2>3. held' = Cardinality(holding) /\ held' <= MaxHeld BY <1>3, <1>10 DEF Places
  <2>4. \A v \in Watches : PlaceOf(v)' BY <1>9, <1>10
  <2> QED BY <1>8, <2>1, <2>2, <2>3, <2>4
<1>11. CASE m \in Gets /\ Answers(m)
  <2>1. PICK reply : reply = Reply(m) OBVIOUS
  <2>2. to_client' = Append(to_client, reply) /\ UNCHANGED <<handles, held>>
    BY <1>11, <2>1 DEF Answers, agent
  <2>3. reply.kind = "reply" /\ m.kind = "get" BY <1>11, <2>1 DEF Reply, Gets
  <2>4. \A u \in Watches : reply \notin RefusalsOf(u) /\ m \notin ReleasesOf(u) BY <2>3, KindsOf
  <2>5. ASSUME NEW v \in Watches
        PROVE  Lacks(Append(to_client, reply), RefusalsOf(v)) <=> Lacks(to_client, RefusalsOf(v))
    <3>1. to_client \in Seq(ToClient \cup {reply}) /\ reply \in ToClient \cup {reply} BY DEF Typed
    <3> QED BY <2>4, <3>1, LacksAppend
  <2> QED BY <1>10, <2>2, <2>4, <2>5 DEF ToBeRefused
<1>12. CASE m.watch \in Watches /\ m \in AnswersOf(m.watch) /\ Answered(m)
  <2>1. UNCHANGED <<handles, held, to_client>> /\ m.kind = "answer" BY <1>12 DEF Answered
  <2>2. \A v \in Watches : m \notin ReleasesOf(v) BY <2>1, KindsOf
  <2> QED BY <1>10, <2>1, <2>2 DEF ToBeRefused
<1>13. CASE m.kind = "void" /\ UNCHANGED <<agent, to_client>>
  <2>1. \A v \in Watches : m \notin ReleasesOf(v) BY <1>13, KindsOf
  <2> QED BY <1>10, <1>13, <2>1 DEF ToBeRefused, agent
<1>14. CASE m.watch \in Watches /\ m \in ReleasesOf(m.watch) /\ Released(m)
  <2>1. PICK w \in Watches : w = m.watch BY <1>14
  <2>2. \A v \in Watches : m \in ReleasesOf(v) <=> v = w BY <1>14, <2>1 DEF ReleasesOf
  <2>3. to_client' = to_client /\ held' = held - GivenBack(w)
        /\ (handles[w] = "held" => handles' = [handles EXCEPT ![w] = "dropped"])
        /\ (handles[w] # "held" => handles' = handles)
    BY <1>14, <2>1 DEF Released
  <2>4. CASE handles[w] # "held"
    <3>1. held' = held BY <2>3, <2>4 DEF GivenBack, Typed
    <3> QED BY <1>10, <2>2, <2>3, <2>4, <3>1 DEF ToBeRefused
  <2>5. CASE handles[w] = "held"
    <3>1. held' = held - 1 /\ handles' = [handles EXCEPT ![w] = "dropped"]
          /\ handles \in [Watches -> {"none", "held", "dropped"}]
      BY <2>3, <2>5 DEF GivenBack, Typed
    <3>2. PICK left : left = holding \ {w} OBVIOUS
    <3>3. Holding' = left /\ w \in holding BY <1>3, <2>5, <3>1, <3>2 DEF Holding
    <3>4. held' = Cardinality(left) /\ held' <= MaxHeld
      <4>1. Cardinality(left) = Cardinality(holding) - 1
        BY <1>3, <3>2, <3>3, HoldingFinite, FS_RemoveElement
      <4>2. held = Cardinality(holding) /\ Cardinality(holding) \in Nat /\ held <= MaxHeld
        BY <1>3, HoldingFinite DEF Places
      <4> QED BY <3>1, <4>1, <4>2, SessionAssumption
    <3>5. PlaceOf(w)'
      <4>1. handles'[w] = "dropped" /\ watches[w].at = "dropped" /\ ~Calling(w)'
        BY <1>5, <1>7, <2>2, <3>1 DEF PlaceOf
      <4> QED BY <1>5, <1>6, <1>7, <4>1 DEF PlaceOf
    <3>6. ASSUME NEW v \in Watches, v # w
          PROVE  PlaceOf(v)'
      <4>1. handles'[v] = handles[v] /\ (ToBeRefused(v)' => ToBeRefused(v))
        BY <2>3, <3>1, <3>6 DEF ToBeRefused
      <4> QED BY <1>9, <2>2, <3>6, <4>1
    <3>7. \A v \in Watches : v \in left => v \in holding BY <3>2
    <3>8. \A v \in Watches : m \in ReleasesOf(v) => v \notin left BY <2>2, <3>2
    <3> QED BY <1>8, <3>3, <3>4, <3>5, <3>6, <3>7, <3>8
  <2> QED BY <2>4, <2>5
<1>15. CASE m.watch \in Watches /\ m \in CallsFor(m.watch) /\ Watched(m)
  <2>1. PICK w \in Watches : w = m.watch BY <1>15
  <2>2. PICK taken \in BOOLEAN : taken = ~Full OBVIOUS
  <2>3. PICK answer : answer = [kind |-> "watching", watch |-> w, taken |-> taken] OBVIOUS
  <2>4. answer \in ToClient /\ \A v : answer \in RefusalsOf(v) <=> v = w /\ ~taken
    BY <2>3, AWatching
  <2>5. to_client' = Append(to_client, answer) BY <1>15, <2>1, <2>2, <2>3 DEF Watched
  <2>6. \A v \in Watches : ToBeRefused(v)' <=> ToBeRefused(v) \/ (v = w /\ ~taken)
    BY <2>4, <2>5, ClientSent DEF ToBeRefused
  <2>7. (\A v \in Watches : m \in CallsFor(v) <=> v = w) /\ \A v \in Watches : m \notin ReleasesOf(v)
    BY <1>15, <2>1 DEF CallsFor, ReleasesOf
  <2>8. Calling(w) /\ ~Calling(w)' /\ handles[w] = "none" /\ ~ToBeRefused(w) /\ watches[w].at # "new"
    BY <1>5, <1>7, <2>7 DEF PlaceOf
  <2>9. CASE taken
    <3>1. /\ held' = held + 1 /\ ~(held >= MaxHeld) /\ handles' = [handles EXCEPT ![w] = "held"]
          /\ handles \in [Watches -> {"none", "held", "dropped"}]
      BY <1>15, <2>1, <2>2, <2>9 DEF Watched, Full, Typed
    <3>2. PICK left : left = holding \cup {w} OBVIOUS
    <3>3. Holding' = left /\ w \notin holding BY <1>3, <2>8, <3>1, <3>2 DEF Holding
    <3>4. held' = Cardinality(left) /\ held' <= MaxHeld
      <4>1. Cardinality(left) = Cardinality(holding) + 1
        BY <1>3, <3>2, <3>3, HoldingFinite, FS_AddElement
      <4>2. held = Cardinality(holding) /\ Cardinality(holding) \in Nat
        BY <1>3, HoldingFinite DEF Places
      <4> QED BY <3>1, <4>1, <4>2, SessionAssumption
    <3>5. PlaceOf(w)'
      <4>1. handles'[w] = "held" /\ ~ToBeRefused(w)' /\ (LettingGo(w)' <=> LettingGo(w))
        BY <1>7, <2>6, <2>7, <2>8, <2>9, <3>1
      <4>2. watches'[w] = watches[w] BY <1>6
      <4> QED BY <1>5, <2>8, <4>1, <4>2 DEF PlaceOf
    <3>6. ASSUME NEW v \in Watches, v # w
          PROVE  PlaceOf(v)'
      <4>1. handles'[v] = handles[v] /\ (ToBeRefused(v)' => ToBeRefused(v)) BY <2>6, <3>1, <3>6
      <4> QED BY <1>9, <2>7, <4>1
    <3>7. \A v \in Watches : v \in left => v \in holding \/ m \in CallsFor(v) BY <2>7, <3>2
    <3> QED BY <1>8, <2>7, <3>3, <3>4, <3>5, <3>6, <3>7
  <2>10. CASE ~taken
    <3>1. UNCHANGED <<handles, held>> /\ held >= MaxHeld
      BY <1>15, <2>2, <2>10 DEF Watched, Full, agent
    <3>2. Holding' = holding BY <1>3, <3>1 DEF Holding
    <3>3. held = Cardinality(holding) /\ held <= MaxHeld BY <1>3 DEF Places
    <3>4. watches[w].at = "asked" => watches[w].beside >= MaxHeld
      <4>1. ASSUME watches[w].at = "asked"
            PROVE  Cardinality(Beside(queue, holding, 1)) <= watches[w].beside
        <5>1. FewBeside(queue, holding, w, watches[w].beside) BY <1>2, <1>3, <4>1 DEF Places
        <5>2. 1 \in 1..Len(queue) /\ queue[1] \in CallsFor(w) BY <1>4, <2>7
        <5> QED BY <5>1, <5>2 DEF FewBeside
      <4>2. Beside(queue, holding, 1) = holding
        <5>1. \A S : ~Before(queue, S, 1) BY DEF Before
        <5>2. holding \subseteq Watches BY <1>3, HoldingFinite
        <5> QED BY <5>1, <5>2 DEF Beside
      <4>3. watches[w].beside \in Nat /\ held \in Int BY <1>6 DEF Typed
      <4> QED BY <3>1, <3>3, <4>1, <4>2, <4>3, SessionAssumption
    <3>5. PlaceOf(w)'
      <4>1. handles'[w] = "none" /\ (LettingGo(w)' <=> LettingGo(w)) BY <1>7, <2>7, <2>8, <3>1
      <4>2. watches'[w] = watches[w] BY <1>6
      <4> QED BY <1>5, <2>8, <3>4, <4>1, <4>2 DEF PlaceOf
    <3>6. ASSUME NEW v \in Watches, v # w
          PROVE  PlaceOf(v)'
      <4>1. handles'[v] = handles[v] /\ (ToBeRefused(v)' => ToBeRefused(v)) BY <2>6, <3>1, <3>6
      <4> QED BY <1>9, <2>7, <4>1
    <3> QED BY <1>8, <2>7, <3>1, <3>2, <3>3, <3>5, <3>6
  <2> QED BY <2>9, <2>10
<1> QED BY <1>1, <1>11, <1>12, <1>13, <1>14, <1>15

\* What is handed over, read on and asked for is no call for a watch.
LEMMA SameCallsSent ==
  ASSUME Typed, NEW queue, queue = to_agent, NEW after, after = to_agent',
         \/ after = queue
         \/ \E m \in ToAgent : NeitherCall(m) /\ after = Append(queue, m)
         \/ \E t \in Tasks : to_agent' = to_agent \o Three(t)
         \/ \E t \in Callers : to_agent' = NotFor(t, to_agent)
  PROVE  SameCalls(queue, after) /\ NoMoreCalls(queue, after)
<1>1. queue \in Seq(ToAgent) /\ SameCalls(queue, queue) /\ NoMoreCalls(queue, queue)
  BY SameCallsSelf DEF Typed
<1>2. CASE after = queue BY <1>1, <1>2
<1>3. CASE \E m \in ToAgent : NeitherCall(m) /\ after = Append(queue, m)
  BY <1>1, <1>3, SameCallsAppend
<1>4. CASE \E t \in Tasks : to_agent' = to_agent \o Three(t)
  <2>1. PICK t \in Tasks : to_agent' = to_agent \o Three(t) BY <1>4
  <2>2. PICK a : a = Get(t, "services", cache) OBVIOUS
  <2>3. PICK b : b = Get(t, "processes", cache) OBVIOUS
  <2>4. PICK c : c = Get(t, "states", cache) OBVIOUS
  <2>5. cache \in Snapshot /\ "services" \in What /\ "processes" \in What /\ "states" \in What
    BY DEF Typed, What
  <2>6. a \in ToAgent /\ NeitherCall(a) BY <2>2, <2>5, AGet DEF NeitherCall
  <2>7. b \in ToAgent /\ NeitherCall(b) BY <2>3, <2>5, AGet DEF NeitherCall
  <2>8. c \in ToAgent /\ NeitherCall(c) BY <2>4, <2>5, AGet DEF NeitherCall
  <2>9. PICK one : one = Append(queue, a) OBVIOUS
  <2>10. PICK two : two = Append(one, b) OBVIOUS
  <2>11. after = Append(two, c) BY <2>1, <2>2, <2>3, <2>4, <2>9, <2>10, ThreeSent
  <2>12. one \in Seq(ToAgent) /\ SameCalls(queue, one) /\ NoMoreCalls(queue, one)
    BY <1>1, <2>6, <2>9, SameCallsAppend
  <2>13. two \in Seq(ToAgent) /\ SameCalls(queue, two) /\ NoMoreCalls(queue, two)
    BY <1>1, <2>7, <2>10, <2>12, SameCallsAppend
  <2> QED BY <1>1, <2>8, <2>11, <2>13, SameCallsAppend
<1>5. CASE \E t \in Callers : to_agent' = NotFor(t, to_agent) BY <1>1, <1>5, SameCallsSelf
<1> QED BY <1>2, <1>3, <1>4, <1>5

\* So a step that sends no more, and refuses nothing, moves no place.
LEMMA PlacesApart ==
  ASSUME Typed, Typed', Places, UNCHANGED <<handles, held, watches>>,
         \/ to_agent' = to_agent
         \/ \E m \in ToAgent : NeitherCall(m) /\ to_agent' = Append(to_agent, m)
         \/ \E t \in Tasks : to_agent' = to_agent \o Three(t)
         \/ \E t \in Callers : to_agent' = NotFor(t, to_agent),
         \A w \in Watches : Lacks(to_client, RefusalsOf(w)) => Lacks(to_client', RefusalsOf(w))
  PROVE  Places'
<1>1. PICK queue : queue = to_agent OBVIOUS
<1>2. PICK after : after = to_agent' OBVIOUS
<1>3. SameCalls(queue, after) /\ NoMoreCalls(queue, after) BY <1>1, <1>2, SameCallsSent
<1> QED BY <1>1, <1>2, <1>3, PlacesStay

\* The client hears whether it has a place, and of the rest.
LEMMA PlacesByHearing ==
  ASSUME Typed, Typed', Turns, Places, ClientHears
  PROVE  Places'
<1>1. PICK m \in ToClient :
           /\ m = Head(to_client) /\ to_client # <<>> /\ to_client' = Tail(to_client)
           /\ UNCHANGED <<agent, open>>
           /\ \/ HearsWatching(m)
              \/ m \in Updates /\ HearsUpdate(m)
              \/ m \in Replies /\ HearsReply(m)
              \/ HearsNothing(m)
  BY ClientCases
<1>2. UNCHANGED <<handles, held>> BY <1>1 DEF agent
<1>3. \A w \in Watches : /\ Lacks(to_client, RefusalsOf(w)) => Lacks(to_client', RefusalsOf(w))
                         /\ m \in RefusalsOf(w) => ToBeRefused(w)
  BY <1>1, ClientWire DEF ToBeRefused
<1>4. CASE HearsWatching(m)
  <2>1. to_agent' = to_agent BY <1>4 DEF HearsWatching
  <2>2. m.watch \in Watches /\ m.taken \in BOOLEAN /\ (~m.taken => m \in RefusalsOf(m.watch))
    BY <1>4, ClientHearsOf DEF HearsWatching
  <2>3. PICK w \in Watches : w = m.watch BY <2>2
  <2>4. CASE watches[w].at # "asked"
    <3>1. watches' = watches BY <1>4, <2>3, <2>4 DEF HearsWatching
    <3> QED BY <1>2, <1>3, <2>1, <3>1, PlacesApart
  <2>5. CASE watches[w].at = "asked"
    <3>1. watches \in [Watches -> [at : {"new", "asked", "on", "refused", "dropped"}, beside : Nat]]
      BY DEF Typed
    <3>2. PICK mine : mine = [watches[w] EXCEPT !.at = IF m.taken THEN "on" ELSE "refused"] OBVIOUS
    <3>3. mine.at = (IF m.taken THEN "on" ELSE "refused") /\ mine.beside = watches[w].beside
      BY <3>1, <3>2
    <3>4. watches' = [watches EXCEPT ![w] = mine] BY <1>4, <2>3, <2>5, <3>2 DEF HearsWatching
    <3>5. watches'[w] = mine /\ \A v \in Watches : v # w => watches'[v] = watches[v] BY <3>1, <3>4
    <3>6. Holding' = Holding BY <1>2 DEF Holding
    <3>7. ASSUME NEW v \in Watches
          PROVE  PlaceOf(v)'
      <4>1. PlaceOf(v) /\ (Calling(v)' <=> Calling(v)) /\ (LettingGo(v)' <=> LettingGo(v))
            /\ (ToBeRefused(v)' => ToBeRefused(v)) /\ handles' = handles
        BY <1>2, <1>3, <2>1 DEF Places, Calling, LettingGo, ToBeRefused
      <4>2. CASE v = w
        <5>1. ~m.taken => ToBeRefused(w) BY <1>3, <2>2, <2>3
        <5>2. ~LettingGo(w) /\ watches'[w].beside = watches[w].beside
              /\ watches'[w].at = (IF m.taken THEN "on" ELSE "refused")
          BY <2>5, <3>3, <3>5, <4>1, <4>2 DEF PlaceOf
        <5> QED BY <2>2, <2>3, <2>5, <4>1, <4>2, <5>1, <5>2 DEF PlaceOf
      <4>3. CASE v # w
        <5>1. watches'[v] = watches[v] BY <3>5, <4>3
        <5> QED BY <4>1, <5>1 DEF PlaceOf
      <4> QED BY <4>2, <4>3
    <3>8. ASSUME NEW queue, queue = to_agent, NEW holding, holding = Holding, NEW v \in Watches,
                 NEW its, its = watches'[v], its.at = "asked"
          PROVE  FewBeside(queue, holding, v, its.beside)
      <4>1. its = watches[v]
        <5>1. v # w BY <3>3, <3>5, <3>8
        <5> QED BY <3>5, <3>8, <5>1
      <4> QED BY <3>8, <4>1 DEF Places
    <3> QED BY <1>2, <2>1, <3>6, <3>7, <3>8 DEF Places
  <2> QED BY <2>4, <2>5
<1>5. ASSUME NEW w \in Watches, NEW d, HandsOver(w, d)
      PROVE  \/ to_agent' = to_agent
             \/ \E a \in ToAgent : NeitherCall(a) /\ to_agent' = Append(to_agent, a)
  <2>1. PICK answer : answer = Answer(w, FALSE) OBVIOUS
  <2>2. answer \in ToAgent /\ NeitherCall(answer) BY <2>1, AnAnswer DEF NeitherCall
  <2>3. to_agent' = to_agent \/ to_agent' = Append(to_agent, answer) BY <1>5, <2>1 DEF HandsOver
  <2> QED BY <2>2, <2>3
<1>6. CASE m \in Updates /\ HearsUpdate(m)
  <2>1. watches' = watches BY <1>6 DEF HearsUpdate
  <2>2. m.watch \in Watches /\ m.watch \in Tasks BY <1>6, AnUpdate DEF Tasks
  <2>3. \/ \E d : HandsOver(m.watch, d)
        \/ to_agent' = to_agent \o Three(m.watch)
    BY <1>6 DEF HearsUpdate
  <2> QED BY <1>2, <1>3, <1>5, <2>1, <2>2, <2>3, PlacesApart
<1>7. CASE m \in Replies /\ HearsReply(m)
  <2>1. PICK t : t = m.task OBVIOUS
  <2>2. watches' = watches /\ t \in Tasks BY <1>7, <2>1, ReplyCases
  <2>3. CASE Collects(t, m)
    <3>1. to_agent' = to_agent BY <2>3 DEF Collects
    <3> QED BY <1>2, <1>3, <2>2, <3>1, PlacesApart
  <2>4. ASSUME NEW k \in Snapshot, ReadsOn(t, k) \/ Concludes(t, k) \/ Resyncs(t, k)
        PROVE  Places'
    <3>1. CASE ReadsOn(t, k)
      <4>1. PICK ask : ask = Get(t, FetchesNext(t), k) OBVIOUS
      <4>2. FetchesNext(t) \in What BY DEF FetchesNext, What
      <4>3. ask \in ToAgent /\ NeitherCall(ask) BY <2>2, <4>1, <4>2, AGet DEF NeitherCall
      <4>4. to_agent' = Append(to_agent, ask) BY <3>1, <4>1 DEF ReadsOn
      <4> QED BY <1>2, <1>3, <2>2, <4>3, <4>4, PlacesApart
    <3>2. CASE Concludes(t, k)
      <4>1. to_agent' = to_agent BY <3>2 DEF Concludes
      <4> QED BY <1>2, <1>3, <2>2, <4>1, PlacesApart
    <3>3. CASE Resyncs(t, k)
      <4>1. t \in Watches /\ \E d : HandsOver(t, d) BY <3>3 DEF Resyncs
      <4> QED BY <1>2, <1>3, <1>5, <2>2, <4>1, PlacesApart
    <3> QED BY <2>4, <3>1, <3>2, <3>3
  <2> QED BY <1>7, <2>1, <2>3, <2>4, ReplyCases
<1>8. CASE HearsNothing(m)
  <2>1. UNCHANGED <<to_agent, watches>> BY <1>8 DEF HearsNothing, reading
  <2> QED BY <1>2, <1>3, <2>1, PlacesApart
<1> QED BY <1>1, <1>4, <1>6, <1>7, <1>8

\* A call for a watch, or a release, comes after what was sent before.
LEMMA SentLast ==
  ASSUME NEW queue \in Seq(ToAgent), NEW one \in Seq(ToAgent), SameCalls(queue, one),
         NoMoreCalls(queue, one), NEW m \in ToAgent, NEW after, after = Append(one, m),
         NEW v \in Watches
  PROVE  /\ \A holding, most : FewBeside(queue, holding, v, most) /\ m \notin CallsFor(v)
                                 => FewBeside(after, holding, v, most)
         /\ (m \in CallsFor(v) => m \notin ReleasesOf(v) /\ Lacks(queue, ReleasesOf(v)))
              => (CalledFirst(queue, v) => CalledFirst(after, v))
         /\ Lacks(after, CallsFor(v)) <=> Lacks(queue, CallsFor(v)) /\ m \notin CallsFor(v)
         /\ Lacks(after, ReleasesOf(v)) <=> Lacks(queue, ReleasesOf(v)) /\ m \notin ReleasesOf(v)
<1>1. /\ Len(after) = Len(one) + 1 /\ Len(one) \in Nat
      /\ \A i \in 1..Len(one) : after[i] = one[i]
      /\ after[Len(one) + 1] = m
      /\ \A i \in 1..(Len(one) + 1) : i \in 1..Len(one) \/ i = Len(one) + 1
      /\ after \in Seq(ToAgent)
  BY OnAppend
<1>2. SameCalls(one, one) BY SameCallsSelf
<1>3. SameCalls(one, after) BY <1>2, SameCallsAppend
<1>4. /\ Lacks(one, CallsFor(v)) <=> Lacks(queue, CallsFor(v))
      /\ Lacks(one, ReleasesOf(v)) <=> Lacks(queue, ReleasesOf(v))
      /\ CalledFirst(queue, v) => CalledFirst(one, v)
      /\ \A holding, most : FewBeside(queue, holding, v, most) => FewBeside(one, holding, v, most)
  BY SameLacks
<1>5. ASSUME NEW holding, NEW most, FewBeside(one, holding, v, most), m \notin CallsFor(v),
             NEW i \in 1..Len(after), after[i] \in CallsFor(v)
      PROVE  Cardinality(Beside(after, holding, i)) <= most
  <2>1. i \in 1..Len(one) /\ one[i] \in CallsFor(v) BY <1>1, <1>5
  <2>2. i \in 1..(Len(one) + 1) BY <1>1, <2>1
  <2>3. Beside(after, holding, i) = Beside(one, holding, i)
    BY <1>1, <1>3, <2>2, SameBeside, ZenonT(60)
  <2> QED BY <1>5, <2>1, <2>3 DEF FewBeside
<1>6. ASSUME CalledFirst(one, v), m \in CallsFor(v) => m \notin ReleasesOf(v) /\ Lacks(one, ReleasesOf(v)),
             NEW i \in 1..Len(after), NEW j \in 1..Len(after),
             after[i] \in CallsFor(v), after[j] \in ReleasesOf(v)
      PROVE  i < j
  <2>1. CASE i \in 1..Len(one) /\ j \in 1..Len(one) BY <1>1, <1>6, <2>1 DEF CalledFirst
  <2>2. CASE i \in 1..Len(one) /\ j = Len(one) + 1 BY <1>1, <2>2
  <2>3. CASE i = Len(one) + 1 BY <1>1, <1>6, <2>3 DEF Lacks
  <2> QED BY <1>1, <2>1, <2>2, <2>3
<1>7. /\ Lacks(after, CallsFor(v)) <=> Lacks(one, CallsFor(v)) /\ m \notin CallsFor(v)
      /\ Lacks(after, ReleasesOf(v)) <=> Lacks(one, ReleasesOf(v)) /\ m \notin ReleasesOf(v)
  BY LacksAppend
<1>8. \A holding, most : FewBeside(queue, holding, v, most) /\ m \notin CallsFor(v)
                           => FewBeside(after, holding, v, most)
  BY <1>4, <1>5 DEF FewBeside
<1>9. (m \in CallsFor(v) => m \notin ReleasesOf(v) /\ Lacks(queue, ReleasesOf(v)))
        => (CalledFirst(queue, v) => CalledFirst(after, v))
  BY <1>4, <1>6 DEF CalledFirst
<1> QED BY <1>4, <1>7, <1>8, <1>9

\* A call for a watch is made beside those the client may have.
LEMMA PlacesByCalling ==
  ASSUME Typed, Typed', Turns, Places, NEW w \in Watches, CallsWatch(w)
  PROVE  Places'
<1>1. PICK queue : queue = to_agent OBVIOUS
<1>2. PICK call : call = [kind |-> "watch", watch |-> w] OBVIOUS
<1>3. PICK after : after = Append(queue, call) OBVIOUS
<1>4. PICK holding : holding = Holding OBVIOUS
<1>5. PICK mine : mine = [at |-> "asked", beside |-> Cardinality(Wanted)] OBVIOUS
<1>6. /\ queue \in Seq(ToAgent)
      /\ call \in ToAgent /\ \A v : (call \in CallsFor(v) <=> v = w) /\ call \notin ReleasesOf(v)
  BY <1>1, <1>2, ACall DEF Typed
<1>7. /\ to_agent' = after /\ watches' = [watches EXCEPT ![w] = mine] /\ watches[w].at = "new"
      /\ UNCHANGED <<handles, held, to_client>>
      /\ watches \in [Watches -> [at : {"new", "asked", "on", "refused", "dropped"}, beside : Nat]]
  BY <1>1, <1>2, <1>3, <1>5 DEF CallsWatch, agent, Typed
<1>8. watches'[w] = mine /\ \A v \in Watches : v # w => watches'[v] = watches[v] BY <1>7
<1>9. Holding' = holding /\ held' = Cardinality(holding) /\ held' <= MaxHeld
  BY <1>4, <1>7 DEF Holding, Places
<1>10. SameCalls(queue, queue) /\ NoMoreCalls(queue, queue) BY <1>6, SameCallsSelf
<1>11. ASSUME NEW v \in Watches
       PROVE  /\ PlaceOf(v) /\ CalledFirst(queue, v)
              /\ \A its \in {watches[v]} : its.at = "asked" => FewBeside(queue, holding, v, its.beside)
  BY <1>1, <1>4 DEF Places
<1>12. handles[w] = "none" /\ ~Calling(w) /\ ~ToBeRefused(w) /\ ~LettingGo(w)
  BY <1>7, <1>11 DEF PlaceOf
<1>13. ASSUME NEW v \in Watches
       PROVE  /\ \A most : FewBeside(queue, holding, v, most) /\ call \notin CallsFor(v)
                             => FewBeside(after, holding, v, most)
              /\ CalledFirst(after, v)
              /\ Calling(v)' <=> Calling(v) \/ v = w
              /\ LettingGo(v)' <=> LettingGo(v)
              /\ ToBeRefused(v)' <=> ToBeRefused(v)
  <2>1. /\ \A most : FewBeside(queue, holding, v, most) /\ call \notin CallsFor(v)
                       => FewBeside(after, holding, v, most)
        /\ (call \in CallsFor(v) => call \notin ReleasesOf(v) /\ Lacks(queue, ReleasesOf(v)))
             => (CalledFirst(queue, v) => CalledFirst(after, v))
        /\ Lacks(after, CallsFor(v)) <=> Lacks(queue, CallsFor(v)) /\ call \notin CallsFor(v)
        /\ Lacks(after, ReleasesOf(v)) <=> Lacks(queue, ReleasesOf(v)) /\ call \notin ReleasesOf(v)
    BY <1>3, <1>6, <1>10, SentLast, ZenonT(60)
  <2>2. call \in CallsFor(v) => Lacks(queue, ReleasesOf(v)) BY <1>1, <1>6, <1>12 DEF LettingGo
  <2>3. CalledFirst(after, v) BY <1>6, <1>11, <2>1, <2>2
  <2> QED BY <1>1, <1>6, <1>7, <2>1, <2>3 DEF Calling, LettingGo, ToBeRefused
<1>14. ASSUME NEW v \in Watches
       PROVE  PlaceOf(v)'
  <2>1. CASE v = w
    <3>1. watches'[w].at = "asked" /\ handles' = handles BY <1>5, <1>7, <1>8
    <3> QED BY <1>12, <1>13, <2>1, <3>1 DEF PlaceOf
  <2>2. CASE v # w BY <1>7, <1>8, <1>11, <1>13, <2>2 DEF PlaceOf
  <2> QED BY <2>1, <2>2
<1>15. FewBeside(after, holding, w, mine.beside)
  <2>1. SUFFICES ASSUME NEW i \in 1..Len(after), after[i] \in CallsFor(w)
                 PROVE  Cardinality(Beside(after, holding, i)) <= mine.beside
    BY DEF FewBeside
  <2>2. /\ Len(after) = Len(queue) + 1 /\ Len(queue) \in Nat
        /\ \A k \in 1..Len(queue) : after[k] = queue[k]
        /\ \A k \in 1..(Len(queue) + 1) : k \in 1..Len(queue) \/ k = Len(queue) + 1
        /\ after \in Seq(ToAgent)
    BY <1>3, <1>6, OnAppend
  <2>3. i = Len(queue) + 1 BY <1>1, <1>12, <2>1, <2>2 DEF Calling, Lacks
  <2>4. SameCalls(queue, after) BY <1>3, <1>6, <1>10, SameCallsAppend
  <2>5. i \in 1..(Len(queue) + 1) BY <2>2, <2>3
  <2>6. Beside(after, holding, i) = Beside(queue, holding, i) BY <1>6, <2>2, <2>4, <2>5, SameBeside
  <2>7. ASSUME NEW v \in Beside(queue, holding, i)
        PROVE  v \in Wanted
    <3>1. v \in Watches /\ (v \in holding \/ Before(queue, CallsFor(v), i))
          /\ ~Before(queue, ReleasesOf(v), i)
      BY <2>7 DEF Beside
    <3>2. \A j \in 1..Len(queue) : j \in 1..(i - 1) BY <2>2, <2>3
    <3>3. \A j \in 1..(i - 1) : j \in 1..Len(queue) BY <2>2, <2>3
    <3>4. handles[v] = "held" \/ Calling(v)
      BY <1>1, <1>4, <3>1, <3>3 DEF Holding, Before, Calling, Lacks
    <3>5. ~LettingGo(v) BY <1>1, <3>1, <3>2 DEF Before, LettingGo, Lacks
    <3> QED BY <1>11, <3>1, <3>4, <3>5 DEF PlaceOf, Wanted
  <2>8. PICK wanted : wanted = Wanted OBVIOUS
  <2>9. IsFiniteSet(wanted)
    <3>1. wanted \subseteq Watches BY <2>8 DEF Wanted
    <3> QED BY <3>1, FS_Subset, SessionAssumption
  <2>10. Cardinality(Beside(queue, holding, i)) <= Cardinality(wanted)
    BY <2>7, <2>8, <2>9, FS_Subset
  <2>11. mine.beside = Cardinality(wanted) BY <1>5, <2>8
  <2> QED BY <2>6, <2>10, <2>11
<1>16. ASSUME NEW v \in Watches, NEW its, its = watches'[v], its.at = "asked"
       PROVE  FewBeside(after, holding, v, its.beside)
  <2>1. CASE v = w BY <1>8, <1>15, <1>16, <2>1
  <2>2. CASE v # w BY <1>6, <1>8, <1>11, <1>13, <1>16, <2>2
  <2> QED BY <2>1, <2>2
<1> QED BY <1>7, <1>9, <1>13, <1>14, <1>16 DEF Places

\* A watch that is dropped is let go after all that was sent for it.
LEMMA PlacesByDropping ==
  ASSUME Typed, Typed', Places, NEW w \in Watches, Drops(w)
  PROVE  Places'
<1>1. PICK queue : queue = to_agent OBVIOUS
<1>2. PICK release : release = [kind |-> "release", watch |-> w] OBVIOUS
<1>3. PICK answer : answer = Answer(w, FALSE) OBVIOUS
<1>4. PICK holding : holding = Holding OBVIOUS
<1>5. PICK mine : mine = [at |-> "dropped", beside |-> 0] OBVIOUS
<1>6. queue \in Seq(ToAgent) /\ answer \in ToAgent /\ NeitherCall(answer)
  BY <1>1, <1>3, AnAnswer DEF Typed, NeitherCall
<1>7. release \in ToAgent /\ \A v : (release \in ReleasesOf(v) <=> v = w) /\ release \notin CallsFor(v)
  BY <1>2, ARelease
<1>8. PICK one \in Seq(ToAgent) : /\ SameCalls(queue, one) /\ NoMoreCalls(queue, one)
                                  /\ to_agent' = Append(one, release)
  <2>1. SameCalls(queue, queue) /\ NoMoreCalls(queue, queue) BY <1>6, SameCallsSelf
  <2>2. PICK more : more = Append(queue, answer) OBVIOUS
  <2>3. more \in Seq(ToAgent) /\ SameCalls(queue, more) /\ NoMoreCalls(queue, more)
    BY <1>6, <2>1, <2>2, SameCallsAppend
  <2>4. to_agent' = Append(queue, release) \/ to_agent' = Append(more, release)
    BY <1>1, <1>2, <1>3, <2>2, DropsSends
  <2> QED BY <1>6, <2>1, <2>3, <2>4
<1>9. PICK after : after = Append(one, release) OBVIOUS
<1>10. /\ to_agent' = after /\ watches' = [watches EXCEPT ![w] = mine]
       /\ UNCHANGED <<handles, held, to_client>> /\ watches[w].at \in {"asked", "on"}
       /\ watches \in [Watches -> [at : {"new", "asked", "on", "refused", "dropped"}, beside : Nat]]
  BY <1>5, <1>8, <1>9 DEF Drops, agent, Typed, Wanted
<1>11. watches'[w] = mine /\ \A v \in Watches : v # w => watches'[v] = watches[v] BY <1>10
<1>12. Holding' = holding /\ held' = Cardinality(holding) /\ held' <= MaxHeld
  BY <1>4, <1>10 DEF Holding, Places
<1>13. ASSUME NEW v \in Watches
       PROVE  /\ PlaceOf(v) /\ CalledFirst(queue, v)
              /\ \A its \in {watches[v]} : its.at = "asked" => FewBeside(queue, holding, v, its.beside)
  BY <1>1, <1>4 DEF Places
<1>14. ASSUME NEW v \in Watches
       PROVE  /\ \A most : FewBeside(queue, holding, v, most) => FewBeside(after, holding, v, most)
              /\ CalledFirst(after, v)
              /\ Calling(v)' <=> Calling(v)
              /\ LettingGo(v)' <=> LettingGo(v) \/ v = w
              /\ ToBeRefused(v)' <=> ToBeRefused(v)
  <2>1. /\ \A most : FewBeside(queue, holding, v, most) /\ release \notin CallsFor(v)
                       => FewBeside(after, holding, v, most)
        /\ (release \in CallsFor(v) => release \notin ReleasesOf(v) /\ Lacks(queue, ReleasesOf(v)))
             => (CalledFirst(queue, v) => CalledFirst(after, v))
        /\ Lacks(after, CallsFor(v)) <=> Lacks(queue, CallsFor(v)) /\ release \notin CallsFor(v)
        /\ Lacks(after, ReleasesOf(v)) <=> Lacks(queue, ReleasesOf(v)) /\ release \notin ReleasesOf(v)
    <3>1. SameCalls(queue, one) /\ NoMoreCalls(queue, one) /\ queue \in Seq(ToAgent) /\ release \in ToAgent
      BY <1>6, <1>7, <1>8
    <3> QED BY <1>9, <3>1, SentLast
  <2>2. CalledFirst(after, v) BY <1>7, <1>13, <2>1
  <2> QED BY <1>1, <1>7, <1>10, <2>1, <2>2 DEF Calling, LettingGo, ToBeRefused
<1>15. ASSUME NEW v \in Watches
       PROVE  PlaceOf(v)'
  <2>1. CASE v = w
    <3>1. watches'[w].at = "dropped" /\ handles' = handles /\ LettingGo(w)'
      BY <1>5, <1>10, <1>11, <1>14
    <3>2. Calling(w)' => handles'[w] = "none" /\ ~ToBeRefused(w)'
      BY <1>10, <1>13, <1>14 DEF PlaceOf
    <3>3. ToBeRefused(w)' => handles'[w] # "held" BY <1>10, <1>13, <1>14 DEF PlaceOf
    <3> QED BY <2>1, <3>1, <3>2, <3>3 DEF PlaceOf
  <2>2. CASE v # w BY <1>10, <1>11, <1>13, <1>14, <2>2 DEF PlaceOf
  <2> QED BY <2>1, <2>2
<1>16. ASSUME NEW v \in Watches, NEW its, its = watches'[v], its.at = "asked"
       PROVE  FewBeside(after, holding, v, its.beside)
  <2>1. v # w BY <1>5, <1>11, <1>16
  <2> QED BY <1>11, <1>13, <1>14, <1>16, <2>1
<1> QED BY <1>10, <1>12, <1>14, <1>15, <1>16, SMTT(20) DEF Places

\* What else the client does of itself, and the end.
LEMMA PlacesByClient ==
  ASSUME Typed, Typed', Turns, Places,
         \/ \E t \in Callers : CallsSnapshot(t) \/ Leaves(t)
         \/ \E w \in Watches : CallsWatch(w) \/ Drops(w) \/ Takes(w)
         \/ Ends
  PROVE  Places'
<1>1. ASSUME NEW t \in Callers, CallsSnapshot(t)
      PROVE  Places'
  <2>1. t \in Tasks /\ to_agent' = to_agent \o Three(t) /\ UNCHANGED <<handles, held, watches, to_client>>
    BY <1>1 DEF CallsSnapshot, agent, Tasks
  <2> QED BY <2>1, PlacesApart
<1>2. ASSUME NEW t \in Callers, Leaves(t)
      PROVE  Places'
  <2>1. to_agent' = NotFor(t, to_agent) /\ to_client' = NotFor(t, to_client)
        /\ UNCHANGED <<handles, held, watches>>
    BY <1>2 DEF Leaves, agent, reading
  <2>2. \A w \in Watches : Lacks(to_client, RefusalsOf(w)) => Lacks(to_client', RefusalsOf(w))
    BY <2>1, CallerLeft, AVoid
  <2> QED BY <2>1, <2>2, PlacesApart
<1>3. ASSUME NEW w \in Watches, Takes(w)
      PROVE  Places'
  <2>1. PICK taken \in BOOLEAN : taken = ~waiting[w].failed OBVIOUS
  <2>2. PICK answer : answer = Answer(w, taken) OBVIOUS
  <2>3. answer \in ToAgent /\ NeitherCall(answer) BY <2>2, AnAnswer DEF NeitherCall
  <2>4. to_agent' = Append(to_agent, answer) /\ UNCHANGED <<handles, held, watches, to_client>>
    BY <1>3, <2>1, <2>2 DEF Takes, agent
  <2> QED BY <2>3, <2>4, PlacesApart
<1>4. CASE Ends
  <2>1. /\ to_agent' = <<>> /\ to_client' = <<>> /\ held' = 0
        /\ \A w \in Watches : handles'[w] = "dropped" /\ watches'[w].at = "dropped"
    BY <1>4 DEF Ends
  <2>2. Holding' = {} BY <2>1 DEF Holding
  <2>3. held' = Cardinality({}) /\ held' <= MaxHeld BY <2>1, FS_EmptySet, SessionAssumption
  <2>4. ASSUME NEW w \in Watches
        PROVE  PlaceOf(w)'
    <3>1. ~Calling(w)' /\ ~ToBeRefused(w)' BY <2>1, NothingSent DEF Calling, ToBeRefused
    <3>2. watches'[w].at = "dropped" /\ handles'[w] = "dropped" BY <2>1
    <3> QED BY <3>1, <3>2 DEF PlaceOf
  <2>5. \A w \in Watches : CalledFirst(<<>>, w) /\ \A most : FewBeside(<<>>, {}, w, most)
    BY DEF CalledFirst, FewBeside
  <2> QED BY <2>1, <2>2, <2>3, <2>4, <2>5 DEF Places
<1> QED BY <1>1, <1>2, <1>3, <1>4, PlacesByCalling, PlacesByDropping

\* A step leaves the places of a session right.
LEMMA PlacesKept ==
  ASSUME Typed, Typed', Record, Onward, Turns, Places, [Next]_vars
  PROVE  Places'
<1>1. CASE Publishes \/ UNCHANGED vars
  <2>1. UNCHANGED <<handles, held, watches, to_agent, to_client>>
    BY <1>1 DEF Publishes, vars, agent, wires, reading
  <2> QED BY <2>1, PlacesApart
<1>2. ASSUME NEW w \in Watches, Pushes(w)
      PROVE  Places'
  <2>1. PICK m \in Updates : to_client' = Append(to_client, m) BY <1>2, PushSent
  <2>2. m \in ToClient /\ \A v : m \notin RefusalsOf(v) BY AnUpdate
  <2>3. \A v \in Watches : Lacks(to_client', RefusalsOf(v)) <=> Lacks(to_client, RefusalsOf(v))
    BY <2>1, <2>2, ClientSent
  <2>4. UNCHANGED <<handles, held, watches, to_agent>> BY <1>2 DEF Pushes, reading
  <2> QED BY <2>3, <2>4, PlacesApart
<1> QED BY <1>1, <1>2, PlacesByAgent, PlacesByHearing, PlacesByClient DEF Next, Agent, Client

-----------------------------------------------------------------------------
(***************************************************************************)
(* All of it together, and what follows.                                   *)
(***************************************************************************)
\* A session starts so, and each step of either end leaves it so.
LEMMA InvAlways == Spec => []Inv
<1>1. Init => Inv
  BY TypedAtFirst, RecordAtFirst, OnwardAtFirst, ReadingAtFirst, TurnsAtFirst, FollowsAtFirst,
     CachingAtFirst, PlacesAtFirst
  DEF Inv
<1>2. ASSUME Inv, [Next]_vars
      PROVE  Inv'
  <2>1. Typed /\ Record /\ Onward /\ Reading /\ Turns /\ Follows /\ Caching /\ Places
    BY <1>2 DEF Inv
  <2>2. Typed' /\ Record' BY <1>2, <2>1, TypedKept, RecordKept
  <2>3. Onward' /\ Reading' /\ Turns' BY <1>2, <2>1, <2>2, OnwardKept, ReadingKept, TurnsKept
  <2>4. Follows' /\ Caching' /\ Places' BY <1>2, <2>1, <2>2, FollowsKept, CachingKept, PlacesKept
  <2> QED BY <2>2, <2>3, <2>4 DEF Inv
<1> QED BY <1>1, <1>2, PTL DEF Spec

\* A published snapshot is as published.
LEMMA PublishedIsSo ==
  ASSUME Record, NEW n \in 1..Len(published)
  PROVE  AsPublished(published[n])
<1>1. Coherent(published[n]) BY DEF Record
<1>2. published[n].states.passport_etag = published[n].processes.etag BY <1>1 DEF Coherent
<1> QED BY <1>2 DEF AsPublished, Tagged, Part

\* What the client holds, hands out and reads is what the agent published:
\* each watch that knows the forms it is told in follows the agent's snapshots
\* one by one, and each call returns lists of one process list, whatever is
\* dropped, reordered or asked again in between (lists and merge of
\* wire/decode.rs, update and resync of ListenerImpl, joined of Session).
THEOREM ListsAreAsPublished == Spec => []ListsAsPublished
<1>1. ASSUME Inv
      PROVE  ListsAsPublished
  <2>1. Typed /\ Record /\ Onward /\ Reading /\ Follows /\ Caching /\ Places BY <1>1 DEF Inv
  <2>2. TypeOK
    <3>1. slots \in [Watches -> 0..Len(published)]
      <4>1. Len(published) \in Nat /\ slots \in [Watches -> Nat]
            /\ \A w \in Watches : slots[w] <= Len(published)
        BY <2>1 DEF Record, Typed, Onward
      <4>2. \A w \in Watches : slots[w] \in 0..Len(published) BY <4>1
      <4> QED BY <4>1, <4>2
    <3>2. held \in 0..MaxHeld
      <4>1. PICK holding : holding = Holding OBVIOUS
      <4>2. held = Cardinality(holding) /\ Cardinality(holding) \in Nat /\ held <= MaxHeld
        BY <2>1, <4>1, HoldingFinite DEF Places
      <4> QED BY <4>2, SessionAssumption
    <3>3. \A w \in Watches :
            /\ pushes[w].at \in {"none", "next", "sent", "ended"}
            /\ pushes[w].before <= pushes[w].last /\ pushes[w].last <= slots[w]
            /\ watches[w].at \in {"new", "asked", "on", "refused", "dropped"}
      BY <2>1 DEF Typed, Onward
    <3>4. ASSUME NEW t \in Tasks
          PROVE  /\ tasks[t].at \in {"idle", "three", "processes", "states", "done"}
                 /\ tasks[t].tries \in 0..JoinAttempts
      <4>1. tasks[t] \in Task BY <2>1 DEF Typed
      <4>2. tasks[t].at \in {"idle", "three", "processes", "states", "done"} /\ tasks[t].tries \in Nat
        BY <4>1 DEF Task
      <4>3. tasks[t].tries <= JoinAttempts BY <2>1 DEF Reading, ReadingOf
      <4> QED BY <4>2, <4>3, SessionAssumption
    <3> QED BY <3>1, <3>2, <3>3, <3>4 DEF TypeOK
  <2>3. NothingRefused BY <2>1 DEF NothingRefused, Follows, FollowsOf, Waits
  <2>4. ASSUME NEW w \in Watches \ resynced
        PROVE  /\ listeners[w] # None => AsPublished(listeners[w])
               /\ waiting[w] # None /\ ~waiting[w].failed =>
                    waiting[w].snapshot = published[waiting[w].sample]
    <3>1. FollowsOf(w) BY <2>1 DEF Follows
    <3>2. PICK n \in 0..Len(published) : listeners[w] = Shown(n) BY <3>1 DEF FollowsOf, FollowsFrom
    <3>3. ASSUME listeners[w] # None
          PROVE  AsPublished(listeners[w])
      <4>1. n # 0 /\ listeners[w] = published[n] BY <3>2, <3>3 DEF Shown
      <4>2. n \in 1..Len(published) BY <4>1
      <4>3. AsPublished(published[n]) BY <2>1, <4>2, PublishedIsSo
      <4> QED BY <4>1, <4>3
    <3> QED BY <3>1, <3>3 DEF FollowsOf, Waits
  <2>5. \A t \in Callers : tasks[t].result # None => AsPublished(tasks[t].result)
    <3>1. \A t \in Callers : t \in Tasks BY DEF Tasks
    <3> QED BY <2>1, <3>1 DEF Caching, WellRead
  <2> QED BY <2>2, <2>3, <2>4, <2>5 DEF ListsAsPublished
<1> QED BY <1>1, InvAlways, PTL

\* A watch is refused only to a client that had as many as it may when it
\* asked for it: what it let go of before is not counted any more, in
\* whatever order answers, releases and time-outs cross (Holds, AgentImpl::watch).
THEOREM RefusedWhenFull == Spec => []RefusedOnlyWhenFull
<1>1. ASSUME Inv
      PROVE  RefusedOnlyWhenFull
  BY <1>1 DEF Inv, Places, PlaceOf, RefusedOnlyWhenFull
<1> QED BY <1>1, InvAlways, PTL

-----------------------------------------------------------------------------
(***************************************************************************)
(* What comes first on a queue, as messages come and go.                   *)
(***************************************************************************)
\* What is not there comes first, and last.
LEMMA PrecedesNone ==
  ASSUME NEW queue, NEW S, NEW R, Lacks(queue, S) \/ Lacks(queue, R)
  PROVE  Precedes(queue, S, R)
BY DEF Precedes, Lacks

\* One more message is the last.
LEMMA PrecedesAppend ==
  ASSUME NEW T, NEW queue \in Seq(T), NEW m \in T, NEW S, NEW R, m \notin S, Precedes(queue, S, R)
  PROVE  Precedes(Append(queue, m), S, R)
<1> DEFINE more == Append(queue, m)
           n == Len(queue)
<1>1. /\ Len(more) = n + 1 /\ n \in Nat
      /\ \A i \in 1..n : more[i] = queue[i]
      /\ more[n + 1] = m
      /\ \A i \in 1..(n + 1) : i \in 1..n \/ i = n + 1
  BY OnAppend
<1> HIDE DEF more, n
<1>2. SUFFICES ASSUME NEW i \in 1..(n + 1), NEW j \in 1..(n + 1), more[i] \in S, more[j] \in R
               PROVE  i < j
  BY <1>1 DEF Precedes, more
<1>3. i \in 1..n BY <1>1, <1>2
<1>4. CASE j \in 1..n
  <2>1. queue[i] \in S /\ queue[j] \in R BY <1>1, <1>2, <1>3, <1>4
  <2> QED BY <1>3, <1>4, <2>1 DEF Precedes, n
<1>5. CASE j = n + 1 BY <1>1, <1>3, <1>5
<1> QED BY <1>1, <1>4, <1>5

\* One message less was the first.
LEMMA PrecedesTail ==
  ASSUME NEW T, NEW queue \in Seq(T), queue # <<>>, NEW S, NEW R, Precedes(queue, S, R)
  PROVE  /\ Precedes(Tail(queue), S, R)
         /\ Head(queue) \in R => Lacks(queue, S)
<1> DEFINE rest == Tail(queue)
<1>1. /\ Head(queue) = queue[1] /\ Len(queue) \in Nat /\ Len(queue) >= 1 /\ Len(rest) = Len(queue) - 1
      /\ \A i \in 1..Len(rest) : i + 1 \in 1..Len(queue) /\ rest[i] = queue[i + 1]
  BY OnTail
<1> HIDE DEF rest
<1>2. ASSUME NEW i \in 1..Len(rest), NEW j \in 1..Len(rest), rest[i] \in S, rest[j] \in R
      PROVE  i < j
  <2>1. i + 1 < j + 1 BY <1>1, <1>2 DEF Precedes
  <2> QED BY <1>1, <2>1
<1>3. ASSUME Head(queue) \in R, NEW i \in 1..Len(queue), queue[i] \in S
      PROVE  FALSE
  <2>1. 1 \in 1..Len(queue) /\ queue[1] \in R BY <1>1, <1>3
  <2>2. i < 1 BY <1>3, <2>1 DEF Precedes
  <2> QED BY <2>2
<1> QED BY <1>2, <1>3 DEF Precedes, Lacks, rest

\* And so it is of what is left of a queue a caller has left.
LEMMA PrecedesNotFor ==
  ASSUME NEW T, NEW queue \in Seq(T), Void \in T, NEW t, NEW S, NEW R, Void \notin S, Void \notin R,
         Precedes(queue, S, R)
  PROVE  Precedes(NotFor(t, queue), S, R)
<1> DEFINE left == NotFor(t, queue)
<1>1. Len(left) = Len(queue) /\ \A i \in 1..Len(queue) : left[i] = Void \/ left[i] = queue[i]
  BY OnNotFor
<1> HIDE DEF left
<1> QED BY <1>1 DEF Precedes, left

\* What a call or an answer goes by.
LEMMA Named ==
  ASSUME NEW A
  PROVE  /\ \A m \in GetsAmong(A) : m.kind = "get"
         /\ \A m \in RepliesAmong(A) : m.kind = "reply"
         /\ Void \notin GetsAmong(A) /\ Void \notin RepliesAmong(A)
         /\ \A m \in Gets : m \in GetsAmong(A) <=> <<m.task, m.what>> \in A
         /\ \A m \in Replies : m \in RepliesAmong(A) <=> <<m.task, m.what>> \in A
<1>1. \A m \in Gets : m \in ToAgent /\ m.kind = "get" BY DEF Gets, ToAgent
<1>2. \A m \in Replies : m \in ToClient /\ m.kind = "reply" BY AReply
<1> QED BY <1>1, <1>2, AVoid DEF GetsAmong, RepliesAmong

\* What is gone from both wires is behind all else.
LEMMA AheadOfAbsent ==
  ASSUME NEW out, NEW in, NEW A, NEW B, Absent(out, in, B)
  PROVE  Ahead(out, in, A, B)
BY PrecedesNone DEF Ahead, Absent

\* A call that is sent comes after all that was.
LEMMA AheadSent ==
  ASSUME NEW out \in Seq(ToAgent), NEW in, NEW A, NEW B, Ahead(out, in, A, B),
         NEW m \in ToAgent, m \notin GetsAmong(A)
  PROVE  Ahead(Append(out, m), in, A, B)
<1>1. Precedes(Append(out, m), GetsAmong(A), GetsAmong(B)) BY PrecedesAppend DEF Ahead
<1>2. Lacks(out, GetsAmong(A)) => Lacks(Append(out, m), GetsAmong(A)) BY LacksAppend
<1> QED BY <1>1, <1>2 DEF Ahead

\* A message to the client that is no answer does not matter.
LEMMA AheadTold ==
  ASSUME NEW out, NEW in \in Seq(ToClient), NEW A, NEW B, Ahead(out, in, A, B),
         NEW m \in ToClient, m.kind # "reply"
  PROVE  Ahead(out, Append(in, m), A, B)
<1>1. m \notin RepliesAmong(A) /\ m \notin RepliesAmong(B) BY DEF RepliesAmong
<1>2. Precedes(Append(in, m), RepliesAmong(A), RepliesAmong(B)) BY <1>1, PrecedesAppend DEF Ahead
<1>3. Lacks(in, RepliesAmong(B)) => Lacks(Append(in, m), RepliesAmong(B)) BY <1>1, LacksAppend
<1> QED BY <1>2, <1>3 DEF Ahead

\* Nor does the order change as one end hears.
LEMMA AheadHeard ==
  ASSUME NEW out \in Seq(ToAgent), NEW in \in Seq(ToClient), NEW A, NEW B, Ahead(out, in, A, B)
  PROVE  /\ out # <<>> => Ahead(Tail(out), in, A, B)
         /\ in # <<>> => Ahead(out, Tail(in), A, B)
<1>1. ASSUME out # <<>> PROVE Ahead(Tail(out), in, A, B)
  <2>1. Precedes(Tail(out), GetsAmong(A), GetsAmong(B)) BY <1>1, PrecedesTail DEF Ahead
  <2>2. Lacks(out, GetsAmong(A)) => Lacks(Tail(out), GetsAmong(A)) BY <1>1, LacksTail
  <2> QED BY <2>1, <2>2 DEF Ahead
<1>2. ASSUME in # <<>> PROVE Ahead(out, Tail(in), A, B)
  <2>1. Precedes(Tail(in), RepliesAmong(A), RepliesAmong(B)) BY <1>2, PrecedesTail DEF Ahead
  <2>2. Lacks(in, RepliesAmong(B)) => Lacks(Tail(in), RepliesAmong(B)) BY <1>2, LacksTail
  <2> QED BY <2>1, <2>2 DEF Ahead
<1> QED BY <1>1, <1>2

\* Calls are answered in the order they are heard.
LEMMA AheadAnswered ==
  ASSUME NEW out \in Seq(ToAgent), NEW in \in Seq(ToClient), NEW A, NEW B, Ahead(out, in, A, B),
         out # <<>>, NEW call \in Gets, call = Head(out),
         NEW reply \in Replies, reply.task = call.task, reply.what = call.what
  PROVE  Ahead(Tail(out), Append(in, reply), A, B)
<1>1. /\ reply \in RepliesAmong(A) <=> call \in GetsAmong(A)
      /\ reply \in RepliesAmong(B) <=> call \in GetsAmong(B)
      /\ reply \in ToClient
  BY Named, AReply
<1>2. Ahead(Tail(out), in, A, B) BY AheadHeard
<1>3. /\ \A S : Lacks(Append(in, reply), S) <=> Lacks(in, S) /\ reply \notin S
      /\ \A S : Lacks(out, S) <=> Lacks(Tail(out), S) /\ call \notin S
  BY <1>1, LacksAppend, LacksTail
<1>4. CASE call \in GetsAmong(A) \ GetsAmong(B)
  <2>1. Lacks(in, RepliesAmong(B)) BY <1>3, <1>4 DEF Ahead
  <2>2. Lacks(Append(in, reply), RepliesAmong(B)) BY <1>1, <1>3, <1>4, <2>1
  <2> QED BY <1>2, <2>2, PrecedesNone DEF Ahead
<1>5. CASE call \in GetsAmong(B)
  <2>1. Lacks(out, GetsAmong(A)) BY <1>5, PrecedesTail DEF Ahead
  <2>2. call \notin GetsAmong(A) /\ Lacks(Tail(out), GetsAmong(A)) BY <1>3, <2>1
  <2>3. Precedes(Append(in, reply), RepliesAmong(A), RepliesAmong(B))
    BY <1>1, <2>2, PrecedesAppend DEF Ahead
  <2> QED BY <1>2, <2>2, <2>3 DEF Ahead
<1>6. CASE call \notin GetsAmong(A) /\ call \notin GetsAmong(B)
  <2>1. Precedes(Append(in, reply), RepliesAmong(A), RepliesAmong(B))
    BY <1>1, <1>6, PrecedesAppend DEF Ahead
  <2>2. Lacks(in, RepliesAmong(B)) => Lacks(Append(in, reply), RepliesAmong(B)) BY <1>1, <1>3, <1>6
  <2> QED BY <1>2, <2>1, <2>2 DEF Ahead
<1> QED BY <1>4, <1>5, <1>6

\* What is left when a caller leaves keeps its order.
LEMMA AheadLeft ==
  ASSUME NEW out \in Seq(ToAgent), NEW in \in Seq(ToClient), NEW A, NEW B, Ahead(out, in, A, B), NEW t
  PROVE  Ahead(NotFor(t, out), NotFor(t, in), A, B)
<1>1. Precedes(NotFor(t, out), GetsAmong(A), GetsAmong(B))
  BY AVoid, Named, PrecedesNotFor DEF Ahead
<1>2. Precedes(NotFor(t, in), RepliesAmong(A), RepliesAmong(B))
  BY AVoid, Named, PrecedesNotFor DEF Ahead
<1>3. Lacks(out, GetsAmong(A)) => Lacks(NotFor(t, out), GetsAmong(A)) BY AVoid, Named, LacksNotFor
<1>4. Lacks(in, RepliesAmong(B)) => Lacks(NotFor(t, in), RepliesAmong(B))
  BY AVoid, Named, LacksNotFor
<1> QED BY <1>1, <1>2, <1>3, <1>4 DEF Ahead

\* What is heard first leaves nothing of what should come before it.
LEMMA AheadFirst ==
  ASSUME NEW out, NEW in \in Seq(ToClient), NEW A, NEW B, Ahead(out, in, A, B),
         in # <<>>, Head(in) \in RepliesAmong(B)
  PROVE  Absent(out, in, A)
<1>1. Lacks(in, RepliesAmong(A)) BY PrecedesTail DEF Ahead
<1>2. ~Lacks(in, RepliesAmong(B)) BY LacksTail
<1> QED BY <1>1, <1>2 DEF Ahead, Absent

-----------------------------------------------------------------------------
(***************************************************************************)
(* What a step is to the tasks.                                            *)
(***************************************************************************)
\* What is handed over asks for nothing.
LEMMA HandsOverApart ==
  ASSUME Typed, NEW w \in Watches, NEW d, HandsOver(w, d)
  PROVE  Apart(to_agent, to_agent', ToAgent, "get")
<1>1. PICK answer : answer = Answer(w, FALSE) OBVIOUS
<1>2. answer \in ToAgent /\ answer.kind = "answer" BY <1>1, AnAnswer
<1>3. to_agent' = to_agent \/ to_agent' = Append(to_agent, answer) BY <1>1 DEF HandsOver
<1> QED BY <1>2, <1>3 DEF Apart

\* The agent is asked for lists, or the tasks are left alone.
LEMMA StepsOfAgent ==
  ASSUME Typed, Record, Onward, Publishes \/ AgentHears \/ \E w \in Watches : Pushes(w)
  PROVE  Passes \/ \E call : Asked(call)
<1>1. published \in Seq(Snapshot) /\ Len(published) \in Nat BY DEF Record
<1>2. CASE Publishes
  <2>1. PICK after : published' = Append(published, after) BY <1>2 DEF Publishes
  <2>2. Grows BY <1>1, <2>1 DEF Grows
  <2> QED BY <1>2, <2>2 DEF Passes, Apart, Publishes, wires
<1>3. ASSUME NEW w \in Watches, Pushes(w)
      PROVE  Passes
  <2>1. PICK m \in Updates : to_client' = Append(to_client, m) BY <1>3, PushSent
  <2>2. m \in ToClient /\ m.kind = "update" BY AnUpdate
  <2>3. Apart(to_client, to_client', ToClient, "reply") BY <2>1, <2>2 DEF Apart
  <2>4. UNCHANGED <<published, to_agent, tasks, cache>> BY <1>3 DEF Pushes
  <2> QED BY <1>1, <2>3, <2>4 DEF Passes, Apart, Grows
<1>4. CASE AgentHears
  <2>1. PICK call \in ToAgent :
           /\ call = Head(to_agent) /\ to_agent # <<>> /\ to_agent' = Tail(to_agent)
           /\ UNCHANGED <<reading, listeners, cache, tasks, resynced, open>>
           /\ \/ call \in Gets /\ Answers(call)
              \/ call.watch \in Watches /\ call \in CallsFor(call.watch) /\ Watched(call)
              \/ call.watch \in Watches /\ call \in ReleasesOf(call.watch) /\ Released(call)
              \/ call.watch \in Watches /\ call.taken \in BOOLEAN /\ call \in AnswersOf(call.watch)
                   /\ Answered(call)
              \/ call.kind = "void" /\ UNCHANGED <<agent, to_client>>
    BY <1>4, AgentCases
  <2>2. published' = published BY <2>1 DEF Answers, Watched, Released, Answered, agent
  <2>3. CASE call \in Gets /\ Answers(call) BY <2>1, <2>2, <2>3 DEF Asked, Answers
  <2>4. CASE call.kind # "get" /\ Apart(to_client, to_client', ToClient, "reply")
    <3>1. Apart(to_agent, to_agent', ToAgent, "get") BY <2>1, <2>4 DEF Apart
    <3> QED BY <1>1, <2>1, <2>2, <2>4, <3>1 DEF Passes, Grows
  <2>5. CASE call.watch \in Watches /\ call \in CallsFor(call.watch) /\ Watched(call)
    <3>1. PICK w \in Watches : w = call.watch BY <2>5
    <3>2. PICK taken \in BOOLEAN : taken = ~Full OBVIOUS
    <3>3. PICK watching : watching = [kind |-> "watching", watch |-> w, taken |-> taken] OBVIOUS
    <3>4. watching \in ToClient /\ watching.kind = "watching" BY <3>3, AWatching
    <3>5. to_client' = Append(to_client, watching) BY <2>5, <3>1, <3>2, <3>3 DEF Watched
    <3>6. Apart(to_client, to_client', ToClient, "reply") BY <3>4, <3>5 DEF Apart
    <3> QED BY <2>4, <2>5, <3>6, KindsOf
  <2>6. CASE call.kind # "get" /\ UNCHANGED to_client BY <2>4, <2>6 DEF Apart
  <2> QED BY <2>1, <2>3, <2>5, <2>6, KindsOf DEF Released, Answered
<1> QED BY <1>2, <1>3, <1>4

\* A task begins, hears, or is left alone.
LEMMA StepsOfHearing ==
  ASSUME Typed, Record, Turns, ClientHears
  PROVE  \/ Passes
         \/ \E t \in Tasks : \E task : Begins(t, task)
         \/ \E m : /\ Heard(m)
                   /\ \/ Collects(m.task, m)
                      \/ \E k \in Snapshot :
                           /\ k = KeptOf(m.task, m)
                           /\ tasks[m.task].at = "three" => Len(Got(m.task, m)) = 3
                           /\ ReadsOn(m.task, k) \/ Stops(m.task, k)
<1>1. PICK m \in ToClient :
           /\ m = Head(to_client) /\ to_client # <<>> /\ to_client' = Tail(to_client)
           /\ UNCHANGED <<agent, open>>
           /\ \/ HearsWatching(m)
              \/ m \in Updates /\ HearsUpdate(m)
              \/ m \in Replies /\ HearsReply(m)
              \/ HearsNothing(m)
  BY ClientCases
<1>2. published' = published /\ Len(published) \in Nat BY <1>1 DEF agent, Record
<1>3. m.kind # "reply" => Apart(to_client, to_client', ToClient, "reply") BY <1>1 DEF Apart
<1>4. CASE /\ m.kind # "reply" /\ UNCHANGED <<tasks, cache>>
           /\ Apart(to_agent, to_agent', ToAgent, "get")
  BY <1>2, <1>3, <1>4 DEF Passes, Grows
<1>5. CASE HearsWatching(m) \/ HearsNothing(m)
  <2>1. m.kind # "reply" /\ UNCHANGED <<tasks, cache, to_agent>>
    BY <1>5 DEF HearsWatching, HearsNothing
  <2> QED BY <1>4, <2>1 DEF Apart
<1>6. CASE m \in Updates /\ HearsUpdate(m)
  <2>1. PICK w \in Watches : w = m.watch BY <1>6, AnUpdate
  <2>2. w \in Tasks /\ UNCHANGED cache /\ m.kind = "update" /\ m \in UpdatesOf(w)
    BY <1>6, <2>1, AnUpdate DEF Tasks, HearsUpdate
  <2>3. PICK next : next = [Asks(w) EXCEPT !.sample = m.sample] OBVIOUS
  <2>4. \/ UNCHANGED tasks /\ \E d : HandsOver(w, d)
        \/ tasks' = [tasks EXCEPT ![w] = next] /\ to_agent' = to_agent \o Three(w)
    BY <1>6, <2>1, <2>3 DEF HearsUpdate
  <2>5. CASE UNCHANGED tasks /\ \E d : HandsOver(w, d) BY <1>4, <2>2, <2>5, HandsOverApart
  <2>6. CASE tasks' = [tasks EXCEPT ![w] = next] /\ to_agent' = to_agent \o Three(w)
    <3>1. tasks[w].at = "idle"
      <4>1. ~Lacks(to_client, UpdatesOf(w)) BY <1>1, <2>2, ClientWire
      <4> QED BY <4>1 DEF Turns, TurnOf, OnItsWay, ReadAfresh
    <3>2. next.at = "three" /\ next.tries = 0 /\ next.since = Len(published) /\ next.got = <<>>
      BY <2>3 DEF Asks, Idle
    <3>3. Begins(w, next) BY <1>2, <1>3, <2>2, <2>6, <3>1, <3>2 DEF Begins
    <3> QED BY <2>2, <3>3
  <2> QED BY <2>4, <2>5, <2>6
<1>7. CASE m \in Replies /\ HearsReply(m)
  <2>1. PICK t : t = m.task OBVIOUS
  <2>2. Heard(m) BY <1>1, <1>2, <1>7 DEF Heard
  <2>3. \/ Collects(t, m)
        \/ \E k \in Snapshot :
             /\ k = KeptOf(t, m) /\ (tasks[t].at = "three" => Len(Got(t, m)) = 3)
             /\ ReadsOn(t, k) \/ Concludes(t, k) \/ Resyncs(t, k)
    BY <1>7, <2>1, ReplyCases
  <2>4. ASSUME NEW k, Concludes(t, k) \/ Resyncs(t, k)
        PROVE  Stops(t, k)
    <3>1. CASE Concludes(t, k) BY <3>1 DEF Concludes, Stops, Apart
    <3>2. CASE Resyncs(t, k)
      <4>1. t \in Watches /\ \E d : HandsOver(t, d) BY <3>2 DEF Resyncs
      <4>2. Apart(to_agent, to_agent', ToAgent, "get") BY <4>1, HandsOverApart
      <4> QED BY <3>2, <4>2 DEF Resyncs, Stops
    <3> QED BY <2>4, <3>1, <3>2
  <2> QED BY <2>1, <2>2, <2>3, <2>4
<1> QED BY <1>1, <1>5, <1>6, <1>7

\* A call begins or is left, or the tasks are left alone; or all ends.
LEMMA StepsOfClient ==
  ASSUME Typed, Record,
         \/ \E t \in Callers : CallsSnapshot(t) \/ Leaves(t)
         \/ \E w \in Watches : CallsWatch(w) \/ Drops(w) \/ Takes(w)
         \/ Ends
  PROVE  \/ Passes \/ Finishes
         \/ \E t \in Tasks : \E task : Begins(t, task)
         \/ \E t \in Tasks : Forgets(t)
<1>1. Len(published) \in Nat /\ \A t \in Callers : t \in Tasks BY DEF Record, Tasks
<1>2. ASSUME NEW t \in Callers, CallsSnapshot(t)
      PROVE  \E task : Begins(t, task)
  <2>1. PICK next : next = Asks(t) OBVIOUS
  <2>2. next.at = "three" /\ next.tries = 0 /\ next.since = Len(published) /\ next.got = <<>>
    BY <2>1, AsksFields DEF Record
  <2>3. Begins(t, next) BY <1>2, <2>1, <2>2 DEF CallsSnapshot, Begins, Apart, agent
  <2> QED BY <2>3
<1>3. ASSUME NEW t \in Callers, Leaves(t)
      PROVE  Forgets(t)
  BY <1>3 DEF Leaves, Forgets, agent
<1>4. ASSUME UNCHANGED <<published, to_client, tasks, cache>>, Apart(to_agent, to_agent', ToAgent, "get")
      PROVE  Passes
  BY <1>1, <1>4 DEF Passes, Grows, Apart
<1>5. ASSUME NEW w \in Watches, CallsWatch(w)
      PROVE  Passes
  <2>1. PICK call : call = [kind |-> "watch", watch |-> w] OBVIOUS
  <2>2. call \in ToAgent /\ call.kind = "watch" BY <2>1, ACall
  <2>3. to_agent' = Append(to_agent, call) /\ UNCHANGED <<published, to_client, cache, tasks>>
    BY <1>5, <2>1 DEF CallsWatch, agent
  <2> QED BY <1>4, <2>2, <2>3 DEF Apart
<1>6. ASSUME NEW w \in Watches, Drops(w)
      PROVE  Passes
  <2>1. PICK answer, release : answer = Answer(w, FALSE) /\ release = [kind |-> "release", watch |-> w]
    OBVIOUS
  <2>2. answer \in ToAgent /\ answer.kind = "answer" BY <2>1, AnAnswer
  <2>3. release \in ToAgent /\ release.kind = "release" BY <2>1, ARelease
  <2>4. to_agent' = Append(to_agent, release) \/ to_agent' = Append(Append(to_agent, answer), release)
    BY <1>6, <2>1, DropsSends
  <2>5. UNCHANGED <<published, to_client, cache, tasks>> BY <1>6 DEF Drops, agent
  <2> QED BY <1>4, <2>2, <2>3, <2>4, <2>5 DEF Apart
<1>7. ASSUME NEW w \in Watches, Takes(w)
      PROVE  Passes
  <2>1. PICK taken \in BOOLEAN : taken = ~waiting[w].failed OBVIOUS
  <2>2. PICK answer : answer = Answer(w, taken) OBVIOUS
  <2>3. answer \in ToAgent /\ answer.kind = "answer" BY <2>2, AnAnswer
  <2>4. to_agent' = Append(to_agent, answer) /\ UNCHANGED <<published, to_client, cache, tasks>>
    BY <1>7, <2>1, <2>2 DEF Takes, agent
  <2> QED BY <1>4, <2>3, <2>4 DEF Apart
<1>8. CASE Ends BY <1>8 DEF Ends, Finishes
<1> QED BY <1>1, <1>2, <1>3, <1>5, <1>6, <1>7, <1>8

\* All a step may be.
LEMMA StepsOf ==
  ASSUME Typed, Record, Onward, Turns, [Next]_vars
  PROVE  \/ Passes \/ Finishes
         \/ \E call : Asked(call)
         \/ \E t \in Tasks : \E task : Begins(t, task)
         \/ \E t \in Tasks : Forgets(t)
         \/ \E m : /\ Heard(m)
                   /\ \/ Collects(m.task, m)
                      \/ \E k \in Snapshot :
                           /\ k = KeptOf(m.task, m)
                           /\ tasks[m.task].at = "three" => Len(Got(m.task, m)) = 3
                           /\ ReadsOn(m.task, k) \/ Stops(m.task, k)
<1>1. CASE UNCHANGED vars
  <2>1. UNCHANGED <<published, to_agent, to_client, tasks, cache>> /\ Len(published) \in Nat
    BY <1>1 DEF vars, agent, wires, Record
  <2> QED BY <2>1 DEF Passes, Grows, Apart
<1> QED BY <1>1, StepsOfAgent, StepsOfHearing, StepsOfClient DEF Next, Agent, Client

-----------------------------------------------------------------------------
(***************************************************************************)
(* One task is answered after the other.                                   *)
(***************************************************************************)
\* Messages of another kind do not matter to what is looked for.
LEMMA LacksApart ==
  ASSUME NEW T, NEW queue \in Seq(T), NEW after, NEW kind, Apart(queue, after, T, kind),
         NEW S, \A m \in S : m.kind = kind
  PROVE  after \in Seq(T) /\ (Lacks(after, S) <=> Lacks(queue, S))
<1>1. CASE after = queue BY <1>1
<1>2. ASSUME NEW m \in T, m.kind # kind, after = Append(queue, m)
      PROVE  after \in Seq(T) /\ (Lacks(after, S) <=> Lacks(queue, S))
  BY <1>2, LacksAppend, OnAppend
<1>3. ASSUME NEW m \in T, NEW n \in T, m.kind # kind, n.kind # kind,
             after = Append(Append(queue, m), n)
      PROVE  after \in Seq(T) /\ (Lacks(after, S) <=> Lacks(queue, S))
  <2>1. PICK one : one = Append(queue, m) OBVIOUS
  <2>2. one \in Seq(T) /\ (Lacks(one, S) <=> Lacks(queue, S)) BY <1>3, <2>1, LacksAppend, OnAppend
  <2>3. after = Append(one, n) BY <1>3, <2>1
  <2>4. after \in Seq(T) /\ (Lacks(after, S) <=> Lacks(one, S))
    BY <1>3, <2>2, <2>3, LacksAppend, OnAppend
  <2> QED BY <2>2, <2>4
<1>4. CASE queue # <<>> /\ Head(queue).kind # kind /\ after = Tail(queue)
  BY <1>4, LacksTail, OnTail
<1> QED BY <1>1, <1>2, <1>3, <1>4 DEF Apart

\* Nor to the order of calls and answers.
LEMMA AheadApart ==
  ASSUME NEW out \in Seq(ToAgent), NEW in \in Seq(ToClient), NEW A, NEW B, Ahead(out, in, A, B),
         NEW out2, NEW in2, Apart(out, out2, ToAgent, "get"), Apart(in, in2, ToClient, "reply")
  PROVE  Ahead(out2, in2, A, B)
<1>1. \A m \in ToAgent : m.kind # "get" => m \notin GetsAmong(A) BY Named
<1>2. out2 \in Seq(ToAgent)
  <2>1. CASE out2 = out BY <2>1
  <2>2. ASSUME NEW m \in ToAgent, out2 = Append(out, m)
        PROVE  out2 \in Seq(ToAgent)
    BY <2>2, OnAppend
  <2>3. ASSUME NEW m \in ToAgent, NEW n \in ToAgent, out2 = Append(Append(out, m), n)
        PROVE  out2 \in Seq(ToAgent)
    BY <2>3, OnAppend
  <2>4. CASE out # <<>> /\ out2 = Tail(out) BY <2>4, OnTail
  <2> QED BY <2>1, <2>2, <2>3, <2>4 DEF Apart
<1>3. Ahead(out2, in, A, B)
  <2>1. CASE out2 = out BY <2>1
  <2>2. ASSUME NEW m \in ToAgent, m.kind # "get", out2 = Append(out, m)
        PROVE  Ahead(out2, in, A, B)
    BY <1>1, <2>2, AheadSent
  <2>3. ASSUME NEW m \in ToAgent, NEW n \in ToAgent, m.kind # "get", n.kind # "get",
               out2 = Append(Append(out, m), n)
        PROVE  Ahead(out2, in, A, B)
    <3>1. PICK one : one = Append(out, m) OBVIOUS
    <3>2. one \in Seq(ToAgent) /\ Ahead(one, in, A, B) BY <1>1, <2>3, <3>1, AheadSent, OnAppend
    <3>3. out2 = Append(one, n) BY <2>3, <3>1
    <3> QED BY <1>1, <2>3, <3>2, <3>3, AheadSent
  <2>4. CASE out # <<>> /\ out2 = Tail(out) BY <2>4, AheadHeard
  <2> QED BY <2>1, <2>2, <2>3, <2>4 DEF Apart
<1>4. CASE in2 = in BY <1>3, <1>4
<1>5. ASSUME NEW m \in ToClient, m.kind # "reply", in2 = Append(in, m)
      PROVE  Ahead(out2, in2, A, B)
  BY <1>2, <1>3, <1>5, AheadTold
<1>6. ASSUME NEW m \in ToClient, NEW n \in ToClient, m.kind # "reply", n.kind # "reply",
             in2 = Append(Append(in, m), n)
      PROVE  Ahead(out2, in2, A, B)
  <2>1. PICK one : one = Append(in, m) OBVIOUS
  <2>2. one \in Seq(ToClient) /\ Ahead(out2, one, A, B) BY <1>3, <1>6, <2>1, AheadTold, OnAppend
  <2>3. in2 = Append(one, n) BY <1>6, <2>1
  <2> QED BY <1>6, <2>2, <2>3, AheadTold
<1>7. CASE in # <<>> /\ in2 = Tail(in) BY <1>2, <1>3, <1>7, AheadHeard
<1> QED BY <1>4, <1>5, <1>6, <1>7 DEF Apart

\* Of what is asked for by a task, none is on the wires.
LEMMA AbsentOf ==
  ASSUME NEW out, NEW in, NEW t
  PROVE  /\ (\A what \in What : Lacks(out, GetsOf(t, what)) /\ Lacks(in, RepliesOf(t, what)))
              => Absent(out, in, Of(t))
         /\ \A what \in What :
              /\ Absent(out, in, Of(t)) => Lacks(out, GetsOf(t, what)) /\ Lacks(in, RepliesOf(t, what))
              /\ Absent(out, in, One(t, what)) <=>
                   Lacks(out, GetsOf(t, what)) /\ Lacks(in, RepliesOf(t, what))
<1>1. \A m \in GetsAmong(Of(t)) : m.what \in What /\ m \in GetsOf(t, m.what)
  BY DEF GetsAmong, Of, GetsOf
<1>2. \A m \in RepliesAmong(Of(t)) : m.what \in What /\ m \in RepliesOf(t, m.what)
  BY DEF RepliesAmong, Of, RepliesOf
<1>3. \A what \in What : GetsOf(t, what) \subseteq GetsAmong(Of(t)) /\ RepliesOf(t, what) \subseteq RepliesAmong(Of(t))
  BY DEF GetsAmong, RepliesAmong, Of, GetsOf, RepliesOf
<1>4. \A what : GetsAmong(One(t, what)) = GetsOf(t, what) /\ RepliesAmong(One(t, what)) = RepliesOf(t, what)
  BY DEF GetsAmong, RepliesAmong, One, GetsOf, RepliesOf
<1>5. ASSUME \A what \in What : Lacks(out, GetsOf(t, what)) /\ Lacks(in, RepliesOf(t, what))
      PROVE  Absent(out, in, Of(t))
  <2>1. Lacks(out, GetsAmong(Of(t))) BY <1>1, <1>5 DEF Lacks
  <2>2. Lacks(in, RepliesAmong(Of(t))) BY <1>2, <1>5 DEF Lacks
  <2> QED BY <2>1, <2>2 DEF Absent
<1>6. ASSUME NEW what \in What, Absent(out, in, Of(t))
      PROVE  Lacks(out, GetsOf(t, what)) /\ Lacks(in, RepliesOf(t, what))
  BY <1>3, <1>6 DEF Absent, Lacks
<1> QED BY <1>4, <1>5, <1>6 DEF Absent

\* A step that changes no order, and no task gets its first answer.
LEMMA SerialStays ==
  ASSUME Serial,
         \A A, B : Ahead(to_agent, to_client, A, B) => Ahead(to_agent', to_client', A, B),
         \A u \in Tasks : tasks'[u].got # <<>> => tasks[u].got # <<>>
  PROVE  Serial'
BY DEF Serial

\* A task that asks for something, when nothing of it is on its way, asks last.
LEMMA SerialSent ==
  ASSUME Serial, NEW t \in Tasks,
         \A A, B : Ahead(to_agent, to_client, A, B) => Ahead(to_agent, to_client', A, B),
         Absent(to_agent, to_client', Of(t)),
         \A A, B : (\A what : <<t, what>> \notin A) /\ Ahead(to_agent, to_client', A, B) =>
                     Ahead(to_agent', to_client', A, B),
         Ahead(to_agent', to_client', One(t, "processes"), One(t, "states")),
         tasks'[t].got = <<>>, \A u \in Tasks : u # t => tasks'[u] = tasks[u]
  PROVE  Serial'
<1>1. \A u : u # t => \A what : <<t, what>> \notin Of(u) /\ \A k : <<t, what>> \notin One(u, k)
  BY DEF Of, One
<1>2. \A u \in Tasks : u # t => Ahead(to_agent', to_client', Of(u), Of(t)) BY <1>1, AheadOfAbsent
<1>3. \A u, v \in Tasks : u # t /\ Ahead(to_agent, to_client, Of(u), Of(v)) =>
                            Ahead(to_agent', to_client', Of(u), Of(v))
  BY <1>1
<1>4. \A u, v \in Tasks : u # v =>
        Ahead(to_agent', to_client', Of(u), Of(v)) \/ Ahead(to_agent', to_client', Of(v), Of(u))
  <2>1. SUFFICES ASSUME NEW u \in Tasks, NEW v \in Tasks, u # v
                 PROVE  Ahead(to_agent', to_client', Of(u), Of(v)) \/ Ahead(to_agent', to_client', Of(v), Of(u))
    OBVIOUS
  <2>2. CASE u = t \/ v = t BY <1>2, <2>1, <2>2
  <2>3. CASE u # t /\ v # t BY <1>3, <2>1, <2>3 DEF Serial
  <2> QED BY <2>2, <2>3
<1>5. \A u \in Tasks : Ahead(to_agent', to_client', One(u, "processes"), One(u, "states"))
  <2>1. SUFFICES ASSUME NEW u \in Tasks, u # t
                 PROVE  Ahead(to_agent', to_client', One(u, "processes"), One(u, "states"))
    OBVIOUS
  <2>2. Ahead(to_agent, to_client', One(u, "processes"), One(u, "states")) BY DEF Serial
  <2> QED BY <1>1, <2>1, <2>2
<1>6. \A u, v \in Tasks : u # v /\ tasks'[u].got # <<>> => Ahead(to_agent', to_client', Of(u), Of(v))
  <2>1. SUFFICES ASSUME NEW u \in Tasks, NEW v \in Tasks, u # v, tasks'[u].got # <<>>
                 PROVE  Ahead(to_agent', to_client', Of(u), Of(v))
    OBVIOUS
  <2>2. u # t /\ tasks[u].got # <<>> BY <2>1
  <2> QED BY <1>3, <2>1, <2>2 DEF Serial
<1> QED BY <1>4, <1>5, <1>6 DEF Serial

\* At first, and when all ended, nothing is on its way.
LEMMA SerialOfNothing ==
  ASSUME to_agent = <<>>, to_client = <<>>
  PROVE  Serial
<1>1. \A A, B : Ahead(to_agent, to_client, A, B) BY NothingSent, AheadOfAbsent DEF Absent
<1> QED BY <1>1 DEF Serial

\* What a call that is sent goes by.
LEMMA SentNamed ==
  ASSUME Typed, NEW t \in Tasks, NEW what \in What, NEW k \in Snapshot, NEW m, m = Get(t, what, k)
  PROVE  m \in ToAgent /\ \A A : m \in GetsAmong(A) <=> <<t, what>> \in A
<1>1. m \in ToAgent /\ m.kind = "get" /\ m.task = t /\ m.what = what BY AGet
<1> QED BY <1>1 DEF GetsAmong

LEMMA SerialBegins ==
  ASSUME Typed, Reading, Serial, NEW t \in Tasks, NEW task, Begins(t, task)
  PROVE  Serial'
<1>1. PICK a, b, c : /\ a = Get(t, "services", cache) /\ b = Get(t, "processes", cache)
                     /\ c = Get(t, "states", cache)
  OBVIOUS
<1>2. /\ to_agent \in Seq(ToAgent) /\ to_client \in Seq(ToClient)
      /\ "services" \in What /\ "processes" \in What /\ "states" \in What
  BY DEF Typed, What
<1>3. /\ a \in ToAgent /\ \A A : a \in GetsAmong(A) <=> <<t, "services">> \in A
      /\ b \in ToAgent /\ \A A : b \in GetsAmong(A) <=> <<t, "processes">> \in A
      /\ c \in ToAgent /\ \A A : c \in GetsAmong(A) <=> <<t, "states">> \in A
  <2>1. cache \in Snapshot BY DEF Typed
  <2> QED BY <1>1, <1>2, <2>1, SentNamed
<1>4. to_agent' = Append(Append(Append(to_agent, a), b), c) BY <1>1, ThreeSent DEF Begins
<1>5. PICK one, two : one = Append(to_agent, a) /\ two = Append(one, b) OBVIOUS
<1>6. one \in Seq(ToAgent) /\ two \in Seq(ToAgent) /\ to_agent' = Append(two, c)
  BY <1>2, <1>3, <1>4, <1>5, OnAppend
<1>7. \A A, B : Ahead(to_agent, to_client, A, B) => Ahead(to_agent, to_client', A, B)
  BY <1>2, AheadApart DEF Begins, Apart
<1>8. Absent(to_agent, to_client', Of(t))
  <2>1. tasks[t].at = "idle" BY DEF Begins
  <2>2. ASSUME NEW what \in What
        PROVE  Lacks(to_agent, GetsOf(t, what)) /\ Lacks(to_client', RepliesOf(t, what))
    <3>1. ~Reads(t, what) BY <2>1 DEF Reading, ReadingOf, What
    <3>2. Lacks(to_agent, GetsOf(t, what)) /\ Lacks(to_client, RepliesOf(t, what))
      BY <3>1 DEF Reads
    <3>3. \A m \in RepliesOf(t, what) : m.kind = "reply" BY KindsOf
    <3>4. Lacks(to_client', RepliesOf(t, what)) BY <1>2, <3>2, <3>3, LacksApart DEF Begins
    <3> QED BY <3>2, <3>4
  <2> QED BY <2>2, AbsentOf
<1>9. ASSUME NEW A, NEW B, \A what : <<t, what>> \notin A, Ahead(to_agent, to_client', A, B)
      PROVE  Ahead(to_agent', to_client', A, B)
  <2>1. Ahead(one, to_client', A, B) BY <1>2, <1>3, <1>5, <1>9, AheadSent
  <2>2. Ahead(two, to_client', A, B) BY <1>3, <1>5, <1>6, <1>9, <2>1, AheadSent
  <2> QED BY <1>3, <1>6, <1>9, <2>2, AheadSent
<1>10. Ahead(to_agent', to_client', One(t, "processes"), One(t, "states"))
  <2>1. a \notin GetsAmong(One(t, "states")) /\ b \notin GetsAmong(One(t, "states"))
    BY <1>3 DEF One
  <2>2. Absent(to_agent, to_client', One(t, "states")) BY <1>2, <1>8, AbsentOf
  <2>3. Lacks(one, GetsAmong(One(t, "states")))
    BY <1>2, <1>3, <1>5, <2>1, <2>2, LacksAppend DEF Absent
  <2>4. Lacks(two, GetsAmong(One(t, "states")))
    <3>1. two = Append(one, b) /\ one \in Seq(ToAgent) /\ b \in ToAgent BY <1>3, <1>5, <1>6
    <3> QED BY <2>1, <2>3, <3>1, LacksAppend
  <2>5. Ahead(two, to_client', One(t, "processes"), One(t, "states"))
    BY <2>2, <2>4, AheadOfAbsent DEF Absent
  <2>6. c \notin GetsAmong(One(t, "processes")) BY <1>3 DEF One
  <2> QED BY <1>3, <1>6, <2>5, <2>6, AheadSent
<1>11. tasks'[t].got = <<>> /\ \A u \in Tasks : u # t => tasks'[u] = tasks[u] BY DEF Begins, Typed
<1> QED BY <1>7, <1>8, <1>9, <1>10, <1>11, SerialSent

LEMMA SerialReadsOn ==
  ASSUME Typed, Reading, Serial, NEW m, Heard(m), NEW t, t = m.task, NEW k \in Snapshot,
         tasks[t].at = "three" => Len(Got(t, m)) = 3, ReadsOn(t, k)
  PROVE  Serial'
<1>1. PICK what : what = FetchesNext(t) OBVIOUS
<1>2. /\ what \in {"processes", "states"} /\ what \in What
      /\ to_agent \in Seq(ToAgent) /\ to_client \in Seq(ToClient) /\ m \in Replies /\ t \in Tasks
      /\ "states" \in What
  BY <1>1, AReply DEF FetchesNext, What, Typed, Heard
<1>3. PICK call : call = Get(t, what, k) OBVIOUS
<1>4. call \in ToAgent /\ \A A : call \in GetsAmong(A) <=> <<t, what>> \in A
  BY <1>2, <1>3, SentNamed
<1>5. to_agent' = Append(to_agent, call) BY <1>1, <1>3 DEF ReadsOn
<1>6. \A A, B : Ahead(to_agent, to_client, A, B) => Ahead(to_agent, to_client', A, B)
  BY <1>2, AheadHeard DEF Heard
<1>7. Absent(to_agent, to_client', Of(t))
  <2>1. \A k2 \in What : Lacks(to_agent, GetsOf(t, k2)) /\ Lacks(to_client', RepliesOf(t, k2))
    BY AnswerHeard DEF Heard
  <2> QED BY <2>1, AbsentOf
<1>8. \A A, B : (\A k2 : <<t, k2>> \notin A) /\ Ahead(to_agent, to_client', A, B) =>
                  Ahead(to_agent', to_client', A, B)
  BY <1>2, <1>4, <1>5, AheadSent
<1>9. Ahead(to_agent', to_client', One(t, "processes"), One(t, "states"))
  <2>1. Absent(to_agent, to_client', One(t, "states")) BY <1>2, <1>7, AbsentOf
  <2>2. CASE what = "processes"
    <3>1. call \notin GetsAmong(One(t, "states")) BY <1>4, <2>2 DEF One
    <3>2. Absent(to_agent', to_client', One(t, "states"))
      BY <1>2, <1>4, <1>5, <2>1, <3>1, LacksAppend DEF Absent
    <3> QED BY <3>2, AheadOfAbsent
  <2>3. CASE what = "states"
    <3>1. call \notin GetsAmong(One(t, "processes")) BY <1>4, <2>3 DEF One
    <3>2. Ahead(to_agent, to_client', One(t, "processes"), One(t, "states")) BY <2>1, AheadOfAbsent
    <3> QED BY <1>2, <1>4, <1>5, <3>1, <3>2, AheadSent
  <2> QED BY <1>2, <2>2, <2>3
<1>10. tasks'[t].got = <<>> /\ \A u \in Tasks : u # t => tasks'[u] = tasks[u]
  <2>1. PICK next : next = Goes(t, k) OBVIOUS
  <2>2. next.got = <<>> BY <1>2, <2>1, GoesFields DEF Typed
  <2>3. tasks' = [tasks EXCEPT ![t] = next] BY <2>1 DEF ReadsOn
  <2> QED BY <1>2, <2>2, <2>3 DEF Typed
<1> QED BY <1>2, <1>6, <1>7, <1>8, <1>9, <1>10, SerialSent

LEMMA SerialCollects ==
  ASSUME Typed, Serial, NEW m, Heard(m), NEW t, t = m.task, Collects(t, m)
  PROVE  Serial'
<1>1. /\ to_agent \in Seq(ToAgent) /\ to_client \in Seq(ToClient) /\ to_client # <<>>
      /\ m = Head(to_client) /\ m \in Replies /\ t \in Tasks /\ m.what \in What
      /\ to_agent' = to_agent /\ to_client' = Tail(to_client)
  BY AReply DEF Typed, Heard, Collects
<1>2. \A A, B : Ahead(to_agent, to_client, A, B) => Ahead(to_agent', to_client', A, B)
  BY <1>1, AheadHeard
<1>3. \A u \in Tasks : u # t => Ahead(to_agent, to_client, Of(t), Of(u))
  <2>1. SUFFICES ASSUME NEW u \in Tasks, u # t, Ahead(to_agent, to_client, Of(u), Of(t))
                 PROVE  Ahead(to_agent, to_client, Of(t), Of(u))
    BY <1>1 DEF Serial
  <2>2. m \in RepliesAmong(Of(t)) BY <1>1, Named DEF Of
  <2>3. Absent(to_agent, to_client, Of(u)) BY <1>1, <2>1, <2>2, AheadFirst
  <2> QED BY <2>3, AheadOfAbsent
<1>4. \A u \in Tasks : u # t => tasks'[u] = tasks[u] BY DEF Collects, Typed
<1>5. \A u, v \in Tasks : u # v /\ tasks'[u].got # <<>> => Ahead(to_agent', to_client', Of(u), Of(v))
  <2>1. SUFFICES ASSUME NEW u \in Tasks, NEW v \in Tasks, u # v, tasks'[u].got # <<>>
                 PROVE  Ahead(to_agent', to_client', Of(u), Of(v))
    OBVIOUS
  <2>2. CASE u = t BY <1>2, <1>3, <2>1, <2>2
  <2>3. CASE u # t BY <1>2, <1>4, <2>1, <2>3 DEF Serial
  <2> QED BY <2>2, <2>3
<1> QED BY <1>2, <1>5 DEF Serial

\* The order is kept.
LEMMA SerialKept ==
  ASSUME Typed, Record, Onward, Reading, Turns, Serial, [Next]_vars
  PROVE  Serial'
<1>1. to_agent \in Seq(ToAgent) /\ to_client \in Seq(ToClient) BY DEF Typed
<1>2. CASE Passes
  <2>1. \A A, B : Ahead(to_agent, to_client, A, B) => Ahead(to_agent', to_client', A, B)
    BY <1>1, <1>2, AheadApart DEF Passes
  <2>2. tasks' = tasks BY <1>2 DEF Passes
  <2> QED BY <2>1, <2>2, SerialStays
<1>3. CASE Finishes
  <2>1. to_agent' = <<>> /\ to_client' = <<>> BY <1>3 DEF Finishes
  <2>2. \A A, B : Ahead(to_agent', to_client', A, B) BY <2>1, NothingSent, AheadOfAbsent DEF Absent
  <2> QED BY <2>2 DEF Serial
<1>4. ASSUME NEW call, Asked(call)
      PROVE  Serial'
  <2>1. PICK reply : reply = Reply(call) OBVIOUS
  <2>2. reply \in Replies /\ reply.task = call.task /\ reply.what = call.what
    BY <1>4, <2>1, ReplyFields DEF Asked, Record, Latest
  <2>3. \A A, B : Ahead(to_agent, to_client, A, B) => Ahead(to_agent', to_client', A, B)
    <3>1. /\ to_agent # <<>> /\ call \in Gets /\ call = Head(to_agent)
          /\ to_agent' = Tail(to_agent) /\ to_client' = Append(to_client, reply)
      BY <1>4, <2>1 DEF Asked
    <3> QED BY <1>1, <2>2, <3>1, AheadAnswered
  <2>4. tasks' = tasks BY <1>4 DEF Asked
  <2> QED BY <2>3, <2>4, SerialStays
<1>5. ASSUME NEW t \in Tasks, Forgets(t)
      PROVE  Serial'
  <2>1. \A A, B : Ahead(to_agent, to_client, A, B) => Ahead(to_agent', to_client', A, B)
    BY <1>1, <1>5, AheadLeft DEF Forgets
  <2>2. \A u \in Tasks : tasks'[u].got # <<>> => tasks[u].got # <<>>
    BY <1>5, IdleFields DEF Forgets, Typed
  <2> QED BY <2>1, <2>2, SerialStays
<1>6. ASSUME NEW m, Heard(m), NEW k \in Snapshot, Stops(m.task, k)
      PROVE  Serial'
  <2>1. PICK t \in Tasks : t = m.task BY <1>6, AReply DEF Heard
  <2>2. to_client' = Tail(to_client) /\ to_client # <<>> /\ Apart(to_agent, to_agent', ToAgent, "get")
    BY <1>6 DEF Heard, Stops
  <2>3. \A A, B : Ahead(to_agent, to_client, A, B) => Ahead(to_agent, to_client', A, B)
    BY <1>1, <2>2, AheadHeard
  <2>4. to_client' \in Seq(ToClient) BY <1>1, <2>2, OnTail
  <2>5. \A A, B : Ahead(to_agent, to_client', A, B) => Ahead(to_agent', to_client', A, B)
    <3>1. Apart(to_client', to_client', ToClient, "reply") BY DEF Apart
    <3> QED BY <1>1, <2>2, <2>4, <3>1, AheadApart
  <2>6. \A u \in Tasks : tasks'[u].got # <<>> => tasks[u].got # <<>>
    <3>1. PICK next : next = Goes(t, k) OBVIOUS
    <3>2. next.got = <<>> BY <3>1, GoesFields DEF Typed
    <3>3. tasks' = [tasks EXCEPT ![t] = next] \/ tasks' = [tasks EXCEPT ![t] = Idle]
      BY <1>6, <2>1, <3>1 DEF Stops
    <3> QED BY <2>1, <3>2, <3>3, IdleFields DEF Typed
  <2> QED BY <2>3, <2>5, <2>6, SerialStays
<1> QED BY <1>2, <1>3, <1>4, <1>5, <1>6, StepsOf, SerialBegins, SerialReadsOn, SerialCollects

-----------------------------------------------------------------------------
(***************************************************************************)
(* What a task did not get is on its way.                                  *)
(***************************************************************************)
LEMMA AwaitedStays ==
  ASSUME NEW t, AwaitedOf(t), tasks'[t] = tasks[t], \A what \in What : Reads(t, what)' <=> Reads(t, what)
  PROVE  AwaitedOf(t)'
<1>1. "processes" \in What BY DEF What
<1>2. On(tasks[t].got)' = On(tasks[t].got) OBVIOUS
<1> QED BY <1>1, <1>2 DEF AwaitedOf

\* A task that has nothing yet asked for all three, or not for three.
LEMMA AwaitedOfNothing ==
  ASSUME NEW t, tasks[t].got = <<>>, tasks[t].at = "three" => \A what \in What : Reads(t, what)
  PROVE  AwaitedOf(t)
<1>1. On(tasks[t].got) = {} BY DEF On
<1> QED BY <1>1 DEF AwaitedOf

\* What one task hears does not take from the others.
LEMMA HeardOthers ==
  ASSUME Typed, NEW m, Heard(m), NEW u, u # m.task, NEW what,
         Lacks(to_agent', GetsOf(u, what)) <=> Lacks(to_agent, GetsOf(u, what))
  PROVE  Reads(u, what)' <=> Reads(u, what)
<1>1. m \notin RepliesOf(u, what) BY KindsOf
<1>2. Lacks(to_client', RepliesOf(u, what)) <=> Lacks(to_client, RepliesOf(u, what))
  BY <1>1, ClientWire DEF Heard
<1> QED BY <1>2 DEF Reads

LEMMA AwaitedCollects ==
  ASSUME Typed, Serial, NEW m, Heard(m), NEW t, t = m.task, Collects(t, m), AwaitedOf(t)
  PROVE  AwaitedOf(t)'
<1>1. /\ m \in Replies /\ t \in Tasks /\ m.what \in What /\ m \in RepliesOf(t, m.what)
      /\ \A what : what # m.what => m \notin RepliesOf(t, what)
  BY AReply DEF Heard
<1>2. \A what : Lacks(to_client, RepliesOf(t, what)) <=>
                  Lacks(to_client', RepliesOf(t, what)) /\ m \notin RepliesOf(t, what)
  BY ClientWire DEF Heard
<1>3. to_agent' = to_agent BY DEF Collects
<1>4. \A what : /\ Reads(t, what)' => Reads(t, what)
                /\ what # m.what /\ Reads(t, what) => Reads(t, what)'
  BY <1>1, <1>2, <1>3 DEF Reads
<1>5. /\ tasks[t].at = "three" /\ tasks'[t].at = "three"
      /\ On(tasks[t].got)' = On(tasks[t].got) \cup {m}
  <2>1. PICK task : task = tasks[t] OBVIOUS
  <2>2. task \in Task /\ task.got \in Seq(Replies) BY <1>1, <2>1 DEF Typed, Task
  <2>3. tasks'[t] = [task EXCEPT !.got = Append(task.got, m)]
    BY <1>1, <2>1 DEF Collects, Got, Typed
  <2>4. tasks'[t].got = Append(task.got, m) /\ tasks'[t].at = task.at BY <2>2, <2>3 DEF Task
  <2>5. On(Append(task.got, m)) = On(task.got) \cup {m} BY <1>1, <2>2, OnWire
  <2> QED BY <2>1, <2>4, <2>5 DEF Collects
<1>6. ASSUME NEW what \in What
      PROVE  Reads(t, what)' \/ \E x \in On(tasks[t].got)' : x.what = what
  BY <1>4, <1>5 DEF AwaitedOf
<1>7. ASSUME NEW x \in On(tasks[t].got)', x.what = "states"
      PROVE  ~Reads(t, "processes")'
  <2>1. CASE x \in On(tasks[t].got) BY <1>4, <1>7, <2>1 DEF AwaitedOf
  <2>2. CASE x = m
    <3>1. m \in RepliesAmong(One(t, "states")) BY <1>1, <1>7, <2>2, Named DEF One
    <3>2. Ahead(to_agent, to_client, One(t, "processes"), One(t, "states")) BY <1>1 DEF Serial
    <3>3. to_client \in Seq(ToClient) /\ to_client # <<>> /\ m = Head(to_client)
      BY DEF Typed, Heard
    <3>4. Absent(to_agent, to_client, One(t, "processes")) BY <3>1, <3>2, <3>3, AheadFirst
    <3>5. ~Reads(t, "processes")
      <4>1. "processes" \in What BY DEF What
      <4> QED BY <3>4, <4>1, AbsentOf DEF Reads
    <3> QED BY <1>4, <3>5
  <2> QED BY <1>5, <1>7, <2>1, <2>2
<1> QED BY <1>6, <1>7 DEF AwaitedOf

\* What is on its way stays so when another caller leaves.
LEMMA LeftToOthers ==
  ASSUME NEW T, NEW queue \in Seq(T), Void \in T, NEW t, NEW S, Void \notin S,
         \A m \in S : m.task # t
  PROVE  Lacks(NotFor(t, queue), S) <=> Lacks(queue, S)
<1> DEFINE left == NotFor(t, queue)
<1>1. /\ Len(left) = Len(queue)
      /\ \A i \in 1..Len(queue) :
           ~(queue[i].kind \in {"get", "reply"} /\ queue[i].task = t) => left[i] = queue[i]
      /\ \A i \in 1..Len(queue) : left[i] = Void \/ left[i] = queue[i]
  BY OnNotFor
<1> HIDE DEF left
<1> QED BY <1>1 DEF Lacks, left

LEMMA AwaitedKept ==
  ASSUME Typed, Record, Onward, Reading, Turns, Serial, Awaited, [Next]_vars
  PROVE  Awaited'
<1>1. to_agent \in Seq(ToAgent) /\ to_client \in Seq(ToClient) BY DEF Typed
<1>2. CASE Passes
  <2>1. \A u \in Tasks : \A what \in What : Reads(u, what)' <=> Reads(u, what)
    <3>1. SUFFICES ASSUME NEW u \in Tasks, NEW what \in What
                   PROVE  Reads(u, what)' <=> Reads(u, what)
      OBVIOUS
    <3>2. /\ Lacks(to_agent', GetsOf(u, what)) <=> Lacks(to_agent, GetsOf(u, what))
          /\ Lacks(to_client', RepliesOf(u, what)) <=> Lacks(to_client, RepliesOf(u, what))
      BY <1>1, <1>2, KindsOf, LacksApart DEF Passes
    <3> QED BY <3>2 DEF Reads
  <2>2. tasks' = tasks BY <1>2 DEF Passes
  <2> QED BY <2>1, <2>2, AwaitedStays DEF Awaited
<1>3. CASE Finishes
  <2>1. \A u \in Tasks : tasks'[u] = Idle BY <1>3 DEF Finishes
  <2>2. \A u \in Tasks : AwaitedOf(u)'
    <3>1. SUFFICES ASSUME NEW u \in Tasks
                   PROVE  AwaitedOf(u)'
      OBVIOUS
    <3>2. tasks'[u].got = <<>> /\ tasks'[u].at = "idle" BY <2>1, IdleFields
    <3> QED BY <3>2 DEF AwaitedOf, On
  <2> QED BY <2>2 DEF Awaited
<1>4. ASSUME NEW call, Asked(call)
      PROVE  Awaited'
  <2>1. PICK reply : reply = Reply(call) OBVIOUS
  <2>2. reply \in Replies /\ reply.task = call.task /\ reply.what = call.what /\ reply \in ToClient
    BY <1>4, <2>1, ReplyFields, AReply DEF Asked, Record, Latest
  <2>3. /\ call \in Gets /\ call = Head(to_agent) /\ to_agent # <<>>
        /\ to_agent' = Tail(to_agent) /\ to_client' = Append(to_client, reply)
    BY <1>4, <2>1 DEF Asked
  <2>4. \A u \in Tasks : \A what \in What : Reads(u, what)' <=> Reads(u, what)
    <3>1. SUFFICES ASSUME NEW u \in Tasks, NEW what \in What
                   PROVE  Reads(u, what)' <=> Reads(u, what)
      OBVIOUS
    <3>2. reply \in RepliesOf(u, what) <=> call \in GetsOf(u, what)
      BY <2>2, <2>3, AReply DEF GetsOf, Gets, ToAgent
    <3>3. /\ Lacks(to_agent, GetsOf(u, what)) <=>
               Lacks(to_agent', GetsOf(u, what)) /\ call \notin GetsOf(u, what)
          /\ Lacks(to_client', RepliesOf(u, what)) <=>
               Lacks(to_client, RepliesOf(u, what)) /\ reply \notin RepliesOf(u, what)
      BY <2>2, <2>3, AgentWire, ClientSent
    <3> QED BY <3>2, <3>3 DEF Reads
  <2>5. tasks' = tasks BY <1>4 DEF Asked
  <2> QED BY <2>4, <2>5, AwaitedStays DEF Awaited
<1>5. ASSUME NEW t \in Tasks, NEW task, Begins(t, task)
      PROVE  Awaited'
  <2>1. tasks'[t] = task /\ \A u \in Tasks : u # t => tasks'[u] = tasks[u]
    BY <1>5 DEF Begins, Typed
  <2>2. AwaitedOf(t)'
    <3>1. \A what \in What : Reads(t, what)' BY <1>5, TaskSent DEF Begins, Reads
    <3>2. tasks'[t].got = <<>> BY <1>5, <2>1 DEF Begins
    <3> QED BY <3>1, <3>2 DEF AwaitedOf, On
  <2>3. ASSUME NEW u \in Tasks, u # t
        PROVE  AwaitedOf(u)'
    <3>1. ASSUME NEW what \in What
          PROVE  Reads(u, what)' <=> Reads(u, what)
      <4>1. Lacks(to_agent', GetsOf(u, what)) <=> Lacks(to_agent, GetsOf(u, what))
        BY <1>5, <2>3, TaskSent DEF Begins
      <4>2. Lacks(to_client', RepliesOf(u, what)) <=> Lacks(to_client, RepliesOf(u, what))
        BY <1>1, <1>5, KindsOf, LacksApart DEF Begins
      <4> QED BY <4>1, <4>2 DEF Reads
    <3> QED BY <2>1, <2>3, <3>1, AwaitedStays DEF Awaited
  <2> QED BY <2>2, <2>3 DEF Awaited
<1>6. ASSUME NEW t \in Tasks, Forgets(t)
      PROVE  Awaited'
  <2>1. tasks'[t] = Idle /\ \A u \in Tasks : u # t => tasks'[u] = tasks[u]
    BY <1>6 DEF Forgets, Typed
  <2>2. AwaitedOf(t)'
    <3>1. tasks'[t].got = <<>> /\ tasks'[t].at = "idle" BY <2>1, IdleFields
    <3> QED BY <3>1 DEF AwaitedOf, On
  <2>3. ASSUME NEW u \in Tasks, u # t
        PROVE  AwaitedOf(u)'
    <3>1. ASSUME NEW what \in What
          PROVE  Reads(u, what)' <=> Reads(u, what)
      <4>1. /\ Lacks(NotFor(t, to_agent), GetsOf(u, what)) <=> Lacks(to_agent, GetsOf(u, what))
            /\ Lacks(NotFor(t, to_client), RepliesOf(u, what)) <=> Lacks(to_client, RepliesOf(u, what))
        BY <1>1, <2>3, AVoid, KindsOf, LeftToOthers
      <4> QED BY <1>6, <4>1 DEF Forgets, Reads
    <3> QED BY <2>1, <2>3, <3>1, AwaitedStays DEF Awaited
  <2> QED BY <2>2, <2>3 DEF Awaited
<1>7. ASSUME NEW m, Heard(m),
             \/ Collects(m.task, m)
             \/ \E k \in Snapshot : ReadsOn(m.task, k) \/ Stops(m.task, k)
      PROVE  Awaited'
  <2>1. PICK t \in Tasks : t = m.task BY <1>7, AReply DEF Heard
  <2>2. ASSUME NEW u \in Tasks, u # t
        PROVE  AwaitedOf(u)'
    <3>1. tasks'[u] = tasks[u] BY <1>7, <2>1, <2>2 DEF Collects, ReadsOn, Stops, Typed
    <3>2. ASSUME NEW what \in What
          PROVE  Lacks(to_agent', GetsOf(u, what)) <=> Lacks(to_agent, GetsOf(u, what))
      <4>1. CASE Collects(m.task, m) BY <4>1 DEF Collects
      <4>2. ASSUME NEW k \in Snapshot, ReadsOn(m.task, k)
            PROVE  Lacks(to_agent', GetsOf(u, what)) <=> Lacks(to_agent, GetsOf(u, what))
        <5>1. PICK call : call = Get(t, FetchesNext(t), k) OBVIOUS
        <5>2. call \in ToAgent /\ call \notin GetsOf(u, what)
          BY <2>2, <5>1, AGet DEF FetchesNext, What
        <5>3. to_agent' = Append(to_agent, call) BY <2>1, <4>2, <5>1 DEF ReadsOn
        <5> QED BY <5>2, <5>3, AgentSent
      <4>3. ASSUME NEW k \in Snapshot, Stops(m.task, k)
            PROVE  Lacks(to_agent', GetsOf(u, what)) <=> Lacks(to_agent, GetsOf(u, what))
        BY <1>1, <4>3, KindsOf, LacksApart DEF Stops
      <4> QED BY <1>7, <4>1, <4>2, <4>3
    <3>3. \A what \in What : Reads(u, what)' <=> Reads(u, what)
      BY <1>7, <2>1, <2>2, <3>2, HeardOthers
    <3> QED BY <3>1, <3>3, AwaitedStays DEF Awaited
  <2>3. AwaitedOf(t)'
    <3>1. CASE Collects(m.task, m) BY <1>7, <2>1, <3>1, AwaitedCollects DEF Awaited
    <3>2. ASSUME NEW k \in Snapshot, ReadsOn(m.task, k) \/ Stops(m.task, k)
          PROVE  AwaitedOf(t)'
      <4>1. PICK next : next = Goes(t, k) OBVIOUS
      <4>2. next.got = <<>> /\ next.at # "three"
        <5>1. tasks[t] \in Task BY DEF Typed
        <5>2. next.got = <<>> /\ (next.at = "done" \/ next.at = FetchesNext(t))
          BY <4>1, <5>1, GoesFields
        <5> QED BY <5>2 DEF FetchesNext
      <4>3. tasks'[t] = next \/ tasks'[t] = Idle BY <2>1, <3>2, <4>1 DEF ReadsOn, Stops, Typed
      <4>4. tasks'[t].got = <<>> /\ tasks'[t].at # "three" BY <4>2, <4>3, IdleFields
      <4> QED BY <4>4 DEF AwaitedOf, On
    <3> QED BY <1>7, <3>1, <3>2
  <2> QED BY <2>2, <2>3 DEF Awaited
<1> QED BY <1>2, <1>3, <1>4, <1>5, <1>6, <1>7, StepsOf

-----------------------------------------------------------------------------
(***************************************************************************)
(* An answer is of its time.                                               *)
(***************************************************************************)
LEMMA EtagsLater ==
  ASSUME NEW s \in Snapshot, NEW t \in Snapshot, NEW what \in What
  PROVE  /\ Etag(s, what) \in Nat
         /\ Part(s, what) = Part(t, what) => Etag(s, what) = Etag(t, what)
         /\ Later(s, t) => /\ Etag(s, what) <= Etag(t, what)
                           /\ Etag(s, what) = Etag(t, what) => Part(s, what) = Part(t, what)
         /\ \A n \in Nat : Within(s, n) => Etag(s, what) \in 1..n
<1>1. /\ s.services \in Nat /\ s.processes.etag \in Nat /\ s.states.etag \in Nat
      /\ t.services \in Nat /\ t.processes.etag \in Nat /\ t.states.etag \in Nat
  BY DEF Snapshot, ProcessList, StateList
<1>2. CASE what = "services" BY <1>1, <1>2 DEF Etag, Part, Later, Within
<1>3. CASE what = "processes" BY <1>1, <1>3 DEF Etag, Part, Later, Within
<1>4. CASE what = "states" BY <1>1, <1>4 DEF Etag, Part, Later, Within
<1> QED BY <1>2, <1>3, <1>4 DEF What

\* What was published later has later tags.
LEMMA EtagsGrow ==
  ASSUME Record, NEW i \in 1..Len(published), NEW j \in 1..Len(published), NEW what \in What
  PROVE  /\ published[i] \in Snapshot /\ Etag(published[i], what) \in Nat /\ Etag(published[i], what) >= 1
         /\ i <= j => /\ Etag(published[i], what) <= Etag(published[j], what)
                      /\ Etag(published[i], what) = Etag(published[j], what) =>
                           Part(published[i], what) = Part(published[j], what)
<1>1. /\ published[i] \in Snapshot /\ published[j] \in Snapshot /\ Within(published[i], i) /\ i \in Nat
      /\ i <= j => Later(published[i], published[j])
  BY DEF Record
<1>2. Etag(published[i], what) \in 1..i BY <1>1, EtagsLater
<1> QED BY <1>1, <1>2, EtagsLater

\* What is kept is what was given.
LEMMA KeptEtags ==
  ASSUME NEW c \in Snapshot, NEW m \in Replies, NEW k, k = Kept(c, m)
  PROVE  /\ k \in Snapshot /\ (m.part = None => k = c)
         /\ \A what \in What : what # m.what => Etag(k, what) = Etag(c, what)
         /\ \A s \in Snapshot : m.part # None /\ m.part = Part(s, m.what) =>
              Etag(k, m.what) = Etag(s, m.what)
<1>1. k \in Snapshot /\ (m.part = None => k = c) /\ m.what \in What BY KeptTyped, AReply DEF Kept
<1>2. CASE m.what = "services" /\ m.part # None
  <2>1. k = [c EXCEPT !.services = m.part] BY <1>2 DEF Kept
  <2>2. k.services = m.part /\ k.processes = c.processes /\ k.states = c.states
    BY <2>1 DEF Snapshot
  <2> QED BY <1>1, <1>2, <2>2 DEF Etag, Part, What
<1>3. CASE m.what = "processes" /\ m.part # None
  <2>1. k = [c EXCEPT !.processes = m.part] BY <1>3 DEF Kept
  <2>2. k.services = c.services /\ k.processes = m.part /\ k.states = c.states BY <2>1 DEF Snapshot
  <2> QED BY <1>1, <1>3, <2>2 DEF Etag, Part, What
<1>4. CASE m.what = "states" /\ m.part # None
  <2>1. k = [c EXCEPT !.states = m.part] BY <1>4 DEF Kept
  <2>2. k.services = c.services /\ k.processes = c.processes /\ k.states = m.part
    BY <2>1 DEF Snapshot
  <2> QED BY <1>1, <1>4, <2>2 DEF Etag, Part, What
<1> QED BY <1>1, <1>2, <1>3, <1>4 DEF What

LEMMA KeptGiven ==
  ASSUME Record, cache \in Snapshot, NEW c \in Snapshot, NEW m \in Replies, Given(m),
         Etag(c, m.what) = Etag(cache, m.what), NEW k, k = Kept(c, m)
  PROVE  /\ k \in Snapshot /\ Etag(k, m.what) = Etag(published[m.seen], m.what)
         /\ \A what \in What : what # m.what => Etag(k, what) = Etag(c, what)
<1>1. /\ m.what \in What /\ m.seen \in 1..Len(published) /\ published[m.seen] \in Snapshot
      /\ Etag(published[m.seen], m.what) \in Nat /\ Etag(cache, m.what) \in Nat
  BY AReply, EtagsGrow, EtagsLater DEF Given
<1>2. CASE m.part # None BY <1>1, <1>2, KeptEtags DEF Given
<1>3. CASE m.part = None
  <2>1. Etag(published[m.seen], m.what) = Etag(cache, m.what) BY <1>1, <1>3 DEF Given, Lags
  <2> QED BY <1>3, <2>1, KeptEtags
<1> QED BY <1>2, <1>3, KeptEtags

\* Each tag of what is kept is that of an answer, or what it was.
LEMMA KeptOfGiven ==
  ASSUME Typed, Record, Reading, to_client # <<>>, NEW m \in Replies, m = Head(to_client),
         NEW t, t = m.task, tasks[t].at = "three" => Len(Got(t, m)) = 3,
         \A r \in On(Got(t, m)) : Given(r), NEW k, k = KeptOf(t, m)
  PROVE  /\ k \in Snapshot
         /\ \A what \in What :
              \/ \E r \in On(Got(t, m)) : r.what = what /\ Etag(k, what) = Etag(published[r.seen], what)
              \/ tasks[t].at # "three" /\ what # m.what /\ Etag(k, what) = Etag(cache, what)
<1>1. cache \in Snapshot /\ Got(t, m) \in Seq(Replies) /\ Len(Got(t, m)) \in 1..3
  BY AnswerAwaited DEF Typed
<1>2. CASE tasks[t].at # "three"
  <2>1. Len(Got(t, m)) = 1 /\ Got(t, m)[1] = m
    <3>1. Len(Got(t, m)) = 1 BY <1>2, AnswerAwaited
    <3>2. t \in Tasks /\ tasks[t].at \in {"processes", "states"} BY <1>2, AnswerAwaited
    <3>3. tasks[t].got = <<>> BY <3>2 DEF Reading, ReadingOf
    <3> QED BY <3>1, <3>3 DEF Got
  <2>2. k = Kept(cache, m) /\ m \in On(Got(t, m)) BY <1>2, <2>1 DEF KeptOf, On
  <2> QED BY <1>1, <1>2, <2>2, KeptGiven
<1>3. CASE tasks[t].at = "three"
  <2>1. PICK a, b, c : a = Got(t, m)[1] /\ b = Got(t, m)[2] /\ c = Got(t, m)[3] OBVIOUS
  <2>2. /\ a \in Replies /\ b \in Replies /\ c \in Replies
        /\ a \in On(Got(t, m)) /\ b \in On(Got(t, m)) /\ c \in On(Got(t, m))
    <3>1. Len(Got(t, m)) = 3 BY <1>3
    <3> QED BY <1>1, <2>1, <3>1 DEF On
  <2>3. a.what # b.what /\ b.what # c.what /\ a.what # c.what
    <3>1. \A i, j \in 1..3 : Got(t, m)[i].what = Got(t, m)[j].what => i = j BY <1>3, AnswerAwaited
    <3> QED BY <2>1, <3>1
  <2>4. Given(a) /\ Given(b) /\ Given(c) /\ a.what \in What /\ b.what \in What /\ c.what \in What
    BY <2>2, AReply
  <2>5. PICK k1, k2 : k1 = Kept(cache, a) /\ k2 = Kept(k1, b) OBVIOUS
  <2>6. k = Kept(k2, c) BY <1>3, <2>1, <2>5 DEF KeptOf
  <2>7. /\ k1 \in Snapshot /\ Etag(k1, a.what) = Etag(published[a.seen], a.what)
        /\ \A what \in What : what # a.what => Etag(k1, what) = Etag(cache, what)
    BY <1>1, <2>2, <2>4, <2>5, KeptGiven
  <2>8. /\ k2 \in Snapshot /\ Etag(k2, b.what) = Etag(published[b.seen], b.what)
        /\ \A what \in What : what # b.what => Etag(k2, what) = Etag(k1, what)
    BY <1>1, <2>2, <2>3, <2>4, <2>5, <2>7, KeptGiven
  <2>9. /\ k \in Snapshot /\ Etag(k, c.what) = Etag(published[c.seen], c.what)
        /\ \A what \in What : what # c.what => Etag(k, what) = Etag(k2, what)
    BY <1>1, <2>2, <2>3, <2>4, <2>6, <2>7, <2>8, KeptGiven
  <2>10. \A what \in What : what = a.what \/ what = b.what \/ what = c.what BY <2>3, <2>4 DEF What
  <2> QED BY <2>2, <2>3, <2>4, <2>7, <2>8, <2>9, <2>10
<1> QED BY <1>2, <1>3

\* Answers stay in the order of what they show, as messages come and go.
LEMMA OrderedAppend ==
  ASSUME NEW T, NEW queue \in Seq(T), NEW m \in T, Ordered(queue),
         m.kind = "reply" => \A r \in On(queue) : r.kind = "reply" => r.seen <= m.seen
  PROVE  Ordered(Append(queue, m))
<1> DEFINE more == Append(queue, m)
           n == Len(queue)
<1>1. /\ Len(more) = n + 1 /\ n \in Nat
      /\ \A i \in 1..n : more[i] = queue[i]
      /\ more[n + 1] = m
      /\ \A i \in 1..(n + 1) : i \in 1..n \/ i = n + 1
  BY OnAppend
<1>2. \A i \in 1..n : queue[i] \in On(queue) BY DEF On
<1> HIDE DEF more, n
<1>3. SUFFICES ASSUME NEW i \in 1..(n + 1), NEW j \in 1..(n + 1), i < j,
                      more[i].kind = "reply", more[j].kind = "reply"
               PROVE  more[i].seen <= more[j].seen
  BY <1>1 DEF Ordered, more
<1>4. i \in 1..n BY <1>1, <1>3
<1>5. CASE j \in 1..n
  <2>1. queue[i].seen <= queue[j].seen BY <1>1, <1>3, <1>4, <1>5 DEF Ordered, n
  <2> QED BY <1>1, <1>4, <1>5, <2>1
<1>6. CASE j = n + 1 BY <1>1, <1>2, <1>3, <1>4, <1>6
<1> QED BY <1>1, <1>5, <1>6

LEMMA OrderedTail ==
  ASSUME NEW T, NEW queue \in Seq(T), queue # <<>>, Ordered(queue)
  PROVE  /\ Ordered(Tail(queue))
         /\ Head(queue).kind = "reply" =>
              \A r \in On(Tail(queue)) : r.kind = "reply" => Head(queue).seen <= r.seen
<1> DEFINE rest == Tail(queue)
<1>1. /\ Head(queue) = queue[1] /\ Len(queue) \in Nat /\ Len(queue) >= 1 /\ Len(rest) = Len(queue) - 1
      /\ \A i \in 1..Len(rest) : i + 1 \in 1..Len(queue) /\ rest[i] = queue[i + 1]
  BY OnTail
<1> HIDE DEF rest
<1>2. ASSUME NEW i \in 1..Len(rest), NEW j \in 1..Len(rest), i < j,
             rest[i].kind = "reply", rest[j].kind = "reply"
      PROVE  rest[i].seen <= rest[j].seen
  <2>1. i + 1 < j + 1 /\ i + 1 \in 1..Len(queue) /\ j + 1 \in 1..Len(queue) BY <1>1, <1>2
  <2>2. queue[i + 1].kind = "reply" /\ queue[j + 1].kind = "reply" BY <1>1, <1>2
  <2>3. queue[i + 1].seen <= queue[j + 1].seen BY <2>1, <2>2 DEF Ordered
  <2> QED BY <1>1, <2>3
<1>3. ASSUME Head(queue).kind = "reply", NEW i \in 1..Len(rest), rest[i].kind = "reply"
      PROVE  Head(queue).seen <= rest[i].seen
  <2>1. 1 < i + 1 /\ i + 1 \in 1..Len(queue) /\ 1 \in 1..Len(queue) BY <1>1
  <2>2. queue[1].kind = "reply" /\ queue[i + 1].kind = "reply" BY <1>1, <1>3
  <2>3. queue[1].seen <= queue[i + 1].seen BY <2>1, <2>2 DEF Ordered
  <2> QED BY <1>1, <2>3
<1> QED BY <1>2, <1>3 DEF Ordered, On, rest

LEMMA OrderedNotFor ==
  ASSUME NEW T, NEW queue \in Seq(T), Void \in T, NEW t, Ordered(queue)
  PROVE  Ordered(NotFor(t, queue))
<1> DEFINE left == NotFor(t, queue)
<1>1. Len(left) = Len(queue) /\ \A i \in 1..Len(queue) : left[i] = Void \/ left[i] = queue[i]
  BY OnNotFor
<1>2. Void.kind = "void" BY AVoid
<1> HIDE DEF left
<1> QED BY <1>1, <1>2 DEF Ordered, left

LEMMA OrderedApart ==
  ASSUME NEW T, NEW queue \in Seq(T), NEW after, Apart(queue, after, T, "reply"), Ordered(queue)
  PROVE  Ordered(after)
<1>1. CASE after = queue BY <1>1
<1>2. ASSUME NEW m \in T, m.kind # "reply", after = Append(queue, m)
      PROVE  Ordered(after)
  BY <1>2, OrderedAppend
<1>3. ASSUME NEW m \in T, NEW n \in T, m.kind # "reply", n.kind # "reply",
             after = Append(Append(queue, m), n)
      PROVE  Ordered(after)
  <2>1. PICK one : one = Append(queue, m) OBVIOUS
  <2>2. one \in Seq(T) /\ Ordered(one) BY <1>3, <2>1, OrderedAppend, OnAppend
  <2>3. after = Append(one, n) BY <1>3, <2>1
  <2> QED BY <1>3, <2>2, <2>3, OrderedAppend
<1>4. CASE queue # <<>> /\ after = Tail(queue) BY <1>4, OrderedTail
<1> QED BY <1>1, <1>2, <1>3, <1>4 DEF Apart

\* No message of the kind comes.
LEMMA OnApart ==
  ASSUME NEW T, NEW queue \in Seq(T), NEW after, NEW kind, Apart(queue, after, T, kind)
  PROVE  \A m \in On(after) : m.kind = kind => m \in On(queue)
<1>1. CASE after = queue BY <1>1
<1>2. ASSUME NEW m \in T, m.kind # kind, after = Append(queue, m)
      PROVE  \A x \in On(after) : x.kind = kind => x \in On(queue)
  BY <1>2, OnWire
<1>3. ASSUME NEW m \in T, NEW n \in T, m.kind # kind, n.kind # kind,
             after = Append(Append(queue, m), n)
      PROVE  \A x \in On(after) : x.kind = kind => x \in On(queue)
  <2>1. PICK one : one = Append(queue, m) OBVIOUS
  <2>2. one \in Seq(T) /\ On(one) = On(queue) \cup {m} BY <1>3, <2>1, OnWire, OnAppend
  <2>3. after = Append(one, n) BY <1>3, <2>1
  <2>4. On(after) = On(one) \cup {n} BY <1>3, <2>2, <2>3, OnWire
  <2> QED BY <1>3, <2>2, <2>4
<1>4. CASE queue # <<>> /\ after = Tail(queue) BY <1>4, OnWire
<1> QED BY <1>1, <1>2, <1>3, <1>4 DEF Apart

\* An answer is still of its time as more is published, and more kept.
LEMMA GivenStays ==
  ASSUME Record, Grows, Len(published') \in Nat, cache \in Snapshot, cache' \in Snapshot,
         \A what \in What : Etag(cache, what) <= Etag(cache', what),
         NEW m, m.what \in What, Given(m), Lags(cache', m.seen)
  PROVE  Given(m)'
<1>1. m.seen \in 1..Len(published) /\ m.seen \in 1..Len(published') /\ published'[m.seen] = published[m.seen]
  BY DEF Given, Grows, Record
<1>2. m.part = None => Etag(published[m.seen], m.what) <= Etag(cache', m.what)
  <2>1. /\ Etag(published[m.seen], m.what) \in Nat
        /\ Etag(cache, m.what) \in Nat /\ Etag(cache', m.what) \in Nat
    BY <1>1, EtagsGrow, EtagsLater
  <2> QED BY <2>1 DEF Given
<1>3. \A what \in What : Etag(cache', what) <= Etag(published'[m.seen], what) BY <1>1 DEF Lags
<1> QED BY <1>1, <1>2, <1>3 DEF Given, Lags

\* A step that keeps nothing, and after which no task has more.
LEMMA TimelyStays ==
  ASSUME Typed, Record, Record', Timely, Grows, UNCHANGED cache, Ordered(to_client'),
         \A m \in On(to_client') : m.kind = "reply" /\ m \notin On(to_client) =>
           m \in Replies /\ Given(m)' /\ tasks'[m.task].since <= m.seen /\ m.seen = Len(published),
         \A m \in On(to_agent') : m.kind = "get" => m \in On(to_agent) \/ m.tag <= Etag(cache, m.what),
         \A t \in Tasks :
           \/ tasks'[t] = tasks[t]
           \/ tasks'[t].since = tasks[t].since /\ GotInTime(tasks[t].got, tasks[t].since)'
           \/ tasks'[t].got = <<>> /\ tasks'[t].since <= Len(published') /\
                \A m \in On(to_client') : m.kind = "reply" => m.task # t
  PROVE  Timely'
<1>1. /\ cache \in Snapshot /\ cache' = cache /\ Len(published) \in Nat /\ Len(published') \in Nat
      /\ Len(published) \in 1..Len(published') /\ Len(published) \in 1..Len(published)
  BY DEF Typed, Record, Grows
<1>2. \A what \in What : Etag(cache, what) \in Nat /\ Etag(cache, what) <= Etag(cache', what)
  BY <1>1, EtagsLater
<1>3. \A m : m.what \in What /\ Given(m) => Given(m)'
  <2>1. SUFFICES ASSUME NEW m, m.what \in What, Given(m)
                 PROVE  Given(m)'
    OBVIOUS
  <2>2. Lags(cache', m.seen) BY <1>1, <2>1 DEF Given
  <2> QED BY <1>1, <1>2, <2>1, <2>2, GivenStays
<1>4. Lags(cache, Len(published))'
  <2>1. ASSUME NEW what \in What
        PROVE  Etag(cache', what) <= Etag(published'[Len(published')], what)
    <3>1. published[Len(published)] \in Snapshot /\ published'[Len(published')] \in Snapshot
      BY <1>1 DEF Record
    <3>2. Later(published'[Len(published)], published'[Len(published')]) BY <1>1 DEF Record
    <3>3. published'[Len(published)] = published[Len(published)] BY <1>1 DEF Grows
    <3>4. Etag(published[Len(published)], what) <= Etag(published'[Len(published')], what)
      BY <3>1, <3>2, <3>3, EtagsLater
    <3>5. /\ Etag(published[Len(published)], what) \in Nat
          /\ Etag(published'[Len(published')], what) \in Nat
      BY <3>1, EtagsLater
    <3>6. Etag(cache, what) <= Etag(published[Len(published)], what) BY DEF Timely, Lags
    <3> QED BY <1>1, <1>2, <3>4, <3>5, <3>6
  <2> QED BY <2>1 DEF Lags
<1>5. ASSUME NEW m \in On(to_client'), m.kind = "reply"
      PROVE  Given(m)' /\ tasks'[m.task].since <= m.seen
  <2>1. CASE m \in On(to_client)
    <3>1. m \in ToClient /\ m.what \in What /\ m \in Replies /\ m.task \in Tasks
      BY <1>5, <2>1, OnTyped, ClientHearsOf, AReply
    <3>2. Given(m) /\ tasks[m.task].since <= m.seen BY <1>5, <2>1 DEF Timely
    <3>3. tasks'[m.task].since = tasks[m.task].since BY <1>5, <3>1
    <3> QED BY <1>3, <3>1, <3>2, <3>3
  <2>2. CASE m \notin On(to_client) BY <1>5, <2>2
  <2> QED BY <2>1, <2>2
<1>6. \A m \in On(to_agent') : m.kind = "get" => m.tag <= Etag(cache', m.what) BY <1>1 DEF Timely
<1>7. ASSUME NEW t \in Tasks
      PROVE  tasks'[t].since <= Len(published') /\ GotInTime(tasks[t].got, tasks[t].since)'
  <2>1. CASE tasks'[t] = tasks[t]
    <3>1. tasks[t].since \in Nat /\ tasks[t].since <= Len(published) BY DEF Typed, Task, Timely
    <3>2. tasks'[t].since <= Len(published') BY <1>1, <2>1, <3>1
    <3>3. PICK got, since : got = tasks[t].got /\ since = tasks[t].since OBVIOUS
    <3>4. GotInTime(got, since) /\ got = tasks'[t].got /\ since = tasks'[t].since
      BY <2>1, <3>3 DEF Timely
    <3>5. \A m \in On(got) : m.what \in What /\ m \in Replies BY <3>3, OnTyped
    <3>6. ASSUME NEW m \in On(got), NEW r \in On(to_client'), r.kind = "reply"
          PROVE  m.seen <= r.seen
      <4>1. CASE r \in On(to_client) BY <3>4, <3>6, <4>1 DEF GotInTime
      <4>2. CASE r \notin On(to_client) BY <3>4, <3>6, <4>2 DEF GotInTime, Given
      <4> QED BY <4>1, <4>2
    <3>7. \A m \in On(got) : Given(m)' /\ since <= m.seen BY <1>3, <3>4, <3>5 DEF GotInTime
    <3>8. \A m \in On(got) : \A x \in On(got) : m.what = "processes" /\ x.what = "states" => m.seen <= x.seen
      BY <3>4 DEF GotInTime
    <3>9. GotInTime(got, since)' BY <3>6, <3>7, <3>8 DEF GotInTime
    <3> QED BY <3>2, <3>4, <3>9
  <2>2. CASE tasks'[t].got = <<>> /\ tasks'[t].since <= Len(published')
    <3>1. On(tasks'[t].got) = {} BY <2>2 DEF On
    <3> QED BY <2>2, <3>1 DEF GotInTime
  <2>3. CASE tasks'[t].since = tasks[t].since /\ GotInTime(tasks[t].got, tasks[t].since)'
    <3>1. tasks[t].since \in Nat /\ tasks[t].since <= Len(published) BY DEF Typed, Task, Timely
    <3> QED BY <1>1, <2>3, <3>1
  <2> QED BY <2>1, <2>2, <2>3
<1> QED BY <1>4, <1>5, <1>6, <1>7 DEF Timely

LEMMA TimelyAnswered ==
  ASSUME Typed, Record, Record', Timely, NEW call, Asked(call)
  PROVE  Timely'
<1>1. PICK reply : reply = Reply(call) OBVIOUS
<1>2. /\ to_client' = Append(to_client, reply) /\ call \in Gets /\ call \in On(to_agent)
      /\ On(to_agent') \subseteq On(to_agent) /\ UNCHANGED <<tasks, cache, published>>
  BY <1>1, OnWire DEF Asked, Typed
<1>3. /\ Len(published) \in Nat /\ Len(published) \in 1..Len(published) /\ Latest = published[Len(published)]
      /\ Latest \in Snapshot
  BY DEF Record, Latest
<1>4. /\ reply \in Replies /\ reply.task = call.task /\ reply.what = call.what
      /\ reply.seen = Len(published)
      /\ reply.part = IF NotModified(call.tag, call.what) THEN None ELSE Part(Latest, call.what)
      /\ reply \in ToClient /\ reply.kind = "reply" /\ reply.task \in Tasks /\ reply.what \in What
  BY <1>1, <1>2, <1>3, ReplyFields, AReply
<1>5. to_client \in Seq(ToClient) BY DEF Typed
<1>6. Grows BY <1>2, <1>3 DEF Grows
<1>7. Ordered(to_client')
  <2>1. \A r \in On(to_client) : r.kind = "reply" => r.seen <= reply.seen
    BY <1>3, <1>4 DEF Timely, Given
  <2> QED BY <1>2, <1>4, <1>5, <2>1, OrderedAppend DEF Timely
<1>8. Given(reply)
  <2>1. reply.part # None => reply.part = Part(published[reply.seen], reply.what) BY <1>3, <1>4
  <2>2. ASSUME reply.part = None
        PROVE  Etag(published[reply.seen], reply.what) <= Etag(cache, reply.what)
    <3>1. Part(Latest, call.what) # None BY <1>3, <1>4, NoneAssumption DEF Snapshot, Part, What
    <3>2. NotModified(call.tag, call.what) BY <1>4, <2>2, <3>1
    <3>3. call.tag = Etag(published[reply.seen], reply.what) BY <1>3, <1>4, <3>2 DEF NotModified
    <3>4. call.kind = "get" BY <1>2 DEF Gets
    <3> QED BY <1>2, <1>4, <3>3, <3>4 DEF Timely
  <2>3. Lags(cache, reply.seen) BY <1>4 DEF Timely
  <2> QED BY <1>3, <1>4, <2>1, <2>2, <2>3 DEF Given
<1>9. Given(reply)' /\ tasks'[reply.task].since <= reply.seen
  <2>1. Given(reply)' BY <1>2, <1>8 DEF Given, Lags
  <2> QED BY <1>2, <1>4, <2>1 DEF Timely
<1>10. \A m \in On(to_client') : m \in On(to_client) \/ m = reply BY <1>2, <1>4, <1>5, OnWire
<1> QED BY <1>2, <1>4, <1>6, <1>7, <1>9, <1>10, TimelyStays

\* A call that is sent carries the tag of what is kept.
LEMMA ThreeTags ==
  ASSUME Typed, NEW t \in Tasks, to_agent' = to_agent \o Three(t)
  PROVE  \A m \in On(to_agent') : m.kind = "get" =>
           m \in On(to_agent) \/ m.tag <= Etag(cache, m.what)
<1>1. PICK a, b, c : /\ a = Get(t, "services", cache) /\ b = Get(t, "processes", cache)
                     /\ c = Get(t, "states", cache)
  OBVIOUS
<1>2. \A what \in What : Etag(cache, what) \in Nat BY EtagsLater DEF Typed
<1>3. /\ a \in ToAgent /\ a.tag <= Etag(cache, a.what)
      /\ b \in ToAgent /\ b.tag <= Etag(cache, b.what)
      /\ c \in ToAgent /\ c.tag <= Etag(cache, c.what)
  <2>1. cache \in Snapshot /\ "services" \in What /\ "processes" \in What /\ "states" \in What
    BY DEF Typed, What
  <2>2. /\ a \in ToAgent /\ a.tag = Etag(cache, "services") /\ a.what = "services"
        /\ b \in ToAgent /\ b.tag = Etag(cache, "processes") /\ b.what = "processes"
        /\ c \in ToAgent /\ c.tag = Etag(cache, "states") /\ c.what = "states"
    BY <1>1, <2>1, AGet
  <2> QED BY <1>2, <2>1, <2>2
<1>4. to_agent' = Append(Append(Append(to_agent, a), b), c) BY <1>1, ThreeSent
<1>5. PICK one, two : one = Append(to_agent, a) /\ two = Append(one, b) OBVIOUS
<1>6. /\ one \in Seq(ToAgent) /\ two \in Seq(ToAgent) /\ to_agent' = Append(two, c)
      /\ On(one) = On(to_agent) \cup {a} /\ On(two) = On(one) \cup {b} /\ On(to_agent') = On(two) \cup {c}
  <2>1. one \in Seq(ToAgent) /\ On(one) = On(to_agent) \cup {a}
    BY <1>3, <1>5, OnAppend, OnWire DEF Typed
  <2>2. two \in Seq(ToAgent) /\ On(two) = On(one) \cup {b}
    <3>1. two = Append(one, b) /\ b \in ToAgent BY <1>3, <1>5
    <3>2. two \in Seq(ToAgent) BY <2>1, <3>1, OnAppend
    <3> QED BY <2>1, <3>1, <3>2, OnWire
  <2>3. to_agent' = Append(two, c) BY <1>4, <1>5
  <2> QED BY <1>3, <2>1, <2>2, <2>3, OnWire
<1> QED BY <1>3, <1>6

LEMMA TimelyBegins ==
  ASSUME Typed, Record, Record', Reading, Timely, NEW t \in Tasks, NEW task, Begins(t, task)
  PROVE  Timely'
<1>1. /\ UNCHANGED <<published, cache>> /\ to_client \in Seq(ToClient)
      /\ Apart(to_client, to_client', ToClient, "reply") /\ to_agent' = to_agent \o Three(t)
      /\ tasks'[t] = task /\ task.got = <<>> /\ task.since = Len(published)
      /\ \A u \in Tasks : u # t => tasks'[u] = tasks[u]
      /\ tasks[t].at = "idle"
  BY DEF Begins, Typed
<1>2. Grows /\ Len(published) \in Nat BY <1>1 DEF Grows, Record
<1>3. \A m \in On(to_client') : m.kind = "reply" => m \in On(to_client) BY <1>1, OnApart
<1>4. \A m \in On(to_client') : m.kind = "reply" => m.task # t
  <2>1. SUFFICES ASSUME NEW m \in On(to_client), m.kind = "reply", m.task = t
                 PROVE  FALSE
    BY <1>3
  <2>2. m \in Replies BY <2>1, OnTyped, ClientHearsOf
  <2>3. m.what \in What /\ m \in RepliesOf(t, m.what) BY <2>1, <2>2, AReply
  <2>4. Reads(t, m.what) BY <2>1, <2>3 DEF Reads, Lacks, On
  <2> QED BY <1>1, <2>3, <2>4 DEF Reading, ReadingOf, What
<1>5. Ordered(to_client') BY <1>1, OrderedApart DEF Timely
<1>6. tasks'[t].got = <<>> /\ tasks'[t].since <= Len(published') BY <1>1, <1>2
<1>7. \A m \in On(to_agent') : m.kind = "get" => m \in On(to_agent) \/ m.tag <= Etag(cache, m.what)
  BY <1>1, ThreeTags
<1> QED BY <1>1, <1>2, <1>3, <1>4, <1>5, <1>6, <1>7, TimelyStays

LEMMA TimelyForgets ==
  ASSUME Typed, Record, Record', Timely, NEW t \in Tasks, Forgets(t)
  PROVE  Timely'
<1>1. /\ UNCHANGED <<published, cache>> /\ to_client \in Seq(ToClient) /\ to_agent \in Seq(ToAgent)
      /\ to_agent' = NotFor(t, to_agent) /\ to_client' = NotFor(t, to_client)
      /\ tasks'[t] = Idle /\ \A u \in Tasks : u # t => tasks'[u] = tasks[u]
  BY DEF Forgets, Typed
<1>2. Grows /\ Len(published) \in Nat BY <1>1 DEF Grows, Record
<1>3. /\ \A m \in On(to_client') : m.kind = "reply" => m \in On(to_client)
      /\ \A m \in On(to_agent') : m.kind = "get" => m \in On(to_agent)
  BY <1>1, AVoid, OnWire
<1>4. \A m \in On(to_client') : m.kind = "reply" => m.task # t
  <2>1. /\ Len(to_client') = Len(to_client)
        /\ \A i \in 1..Len(to_client) :
             \/ to_client'[i] = Void
             \/ /\ to_client'[i] = to_client[i]
                /\ ~(to_client[i].kind \in {"get", "reply"} /\ to_client[i].task = t)
    BY <1>1, AVoid, OnNotFor
  <2> QED BY <2>1, AVoid DEF On
<1>5. Ordered(to_client') BY <1>1, AVoid, OrderedNotFor DEF Timely
<1>6. tasks'[t].got = <<>> /\ tasks'[t].since <= Len(published') BY <1>1, <1>2, IdleFields
<1> QED BY <1>1, <1>2, <1>3, <1>4, <1>5, <1>6, TimelyStays

LEMMA TimelyPasses ==
  ASSUME Typed, Record, Record', Timely, Passes
  PROVE  Timely'
<1>1. /\ UNCHANGED <<tasks, cache>> /\ Grows /\ to_client \in Seq(ToClient) /\ to_agent \in Seq(ToAgent)
      /\ Apart(to_agent, to_agent', ToAgent, "get") /\ Apart(to_client, to_client', ToClient, "reply")
  BY DEF Passes, Typed
<1>2. /\ \A m \in On(to_client') : m.kind = "reply" => m \in On(to_client)
      /\ \A m \in On(to_agent') : m.kind = "get" => m \in On(to_agent)
  BY <1>1, OnApart
<1>3. Ordered(to_client') BY <1>1, OrderedApart DEF Timely
<1> QED BY <1>1, <1>2, <1>3, TimelyStays

LEMMA TimelyCollects ==
  ASSUME Typed, Record, Record', Serial, Awaited, Timely, NEW m, Heard(m), NEW t, t = m.task, Collects(t, m)
  PROVE  Timely'
<1>1. /\ UNCHANGED <<published, cache, to_agent>> /\ to_client \in Seq(ToClient)
      /\ to_client' = Tail(to_client) /\ to_client # <<>> /\ m = Head(to_client)
      /\ m \in Replies /\ m.kind = "reply" /\ t \in Tasks /\ m.what \in What /\ m \in RepliesOf(t, m.what)
      /\ m \in On(to_client) /\ On(to_client') \subseteq On(to_client)
      /\ \A u \in Tasks : u # t => tasks'[u] = tasks[u]
  BY AReply, OnWire DEF Heard, Collects, Typed
<1>2. Grows /\ Len(published) \in Nat BY <1>1 DEF Grows, Record
<1>3. Ordered(to_client') /\ \A r \in On(to_client') : r.kind = "reply" => m.seen <= r.seen
  BY <1>1, OrderedTail DEF Timely
<1>4. PICK got, since : got = tasks[t].got /\ since = tasks[t].since OBVIOUS
<1>5. tasks'[t].since = since /\ tasks'[t].got = Append(got, m) /\ On(Append(got, m)) = On(got) \cup {m}
  <2>1. PICK task : task = tasks[t] OBVIOUS
  <2>2. task \in Task /\ task.got \in Seq(Replies) /\ got = task.got /\ since = task.since
    BY <1>1, <1>4, <2>1 DEF Typed, Task
  <2>3. tasks'[t] = [task EXCEPT !.got = Append(got, m)]
    BY <1>1, <1>4, <2>1 DEF Collects, Got, Typed
  <2>4. tasks'[t].got = Append(got, m) /\ tasks'[t].since = since BY <2>2, <2>3 DEF Task
  <2>5. On(Append(got, m)) = On(got) \cup {m} BY <1>1, <2>2, OnWire
  <2> QED BY <2>4, <2>5
<1>6. GotInTime(got, since) BY <1>1, <1>4 DEF Timely
<1>7. \A x \in On(got) : x \in Replies /\ x.what \in What BY <1>1, <1>4, OnTyped
<1>8. \A x \in On(got) \cup {m} : Given(x) /\ since <= x.seen
  BY <1>1, <1>4, <1>6 DEF GotInTime, Timely
<1>9. \A x \in On(got) \cup {m} : \A r \in On(to_client') : r.kind = "reply" => x.seen <= r.seen
  BY <1>1, <1>3, <1>6 DEF GotInTime
<1>10. \A a, b \in On(got) \cup {m} : a.what = "processes" /\ b.what = "states" => a.seen <= b.seen
  <2>1. SUFFICES ASSUME NEW a \in On(got) \cup {m}, NEW b \in On(got) \cup {m},
                        a.what = "processes", b.what = "states"
                 PROVE  a.seen <= b.seen
    OBVIOUS
  <2>2. CASE a \in On(got) /\ b \in On(got) BY <1>6, <2>1, <2>2 DEF GotInTime
  <2>3. CASE a \in On(got) /\ b = m BY <1>1, <1>6, <2>3 DEF GotInTime
  <2>4. CASE a = m /\ b \in On(got)
    <3>1. ~Reads(t, "processes") BY <1>1, <1>4, <2>1, <2>4 DEF Awaited, AwaitedOf
    <3>2. Reads(t, "processes") BY <1>1, <2>1, <2>4, ClientWire DEF Reads
    <3> QED BY <3>1, <3>2
  <2>5. CASE a = m /\ b = m BY <2>1, <2>5
  <2> QED BY <2>1, <2>2, <2>3, <2>4, <2>5
<1>11. GotInTime(tasks[t].got, tasks[t].since)'
  <2>1. \A x \in On(got) \cup {m} : Given(x)' BY <1>1, <1>8 DEF Given, Lags
  <2> QED BY <1>5, <1>8, <1>9, <1>10, <2>1 DEF GotInTime
<1> QED BY <1>1, <1>2, <1>3, <1>4, <1>5, <1>11, TimelyStays

\* As one task keeps what it got, no other has got anything.
LEMMA GotAlone ==
  ASSUME Typed, Reading, Serial, Awaited, NEW m, Heard(m), NEW u \in Tasks, u # m.task
  PROVE  tasks[u].got = <<>>
<1>1. PICK t \in Tasks : t = m.task BY AReply DEF Heard
<1>2. SUFFICES ASSUME tasks[u].got # <<>>
               PROVE  FALSE
  OBVIOUS
<1>3. Ahead(to_agent, to_client, Of(u), Of(t)) BY <1>1, <1>2 DEF Serial
<1>4. m \in RepliesAmong(Of(t)) /\ to_client \in Seq(ToClient) /\ to_client # <<>> /\ m = Head(to_client)
  BY <1>1, AReply, Named DEF Of, Heard, Typed
<1>5. Absent(to_agent, to_client, Of(u)) BY <1>3, <1>4, AheadFirst
<1>6. \A what \in What : ~Reads(u, what) BY <1>5, AbsentOf DEF Reads
<1>7. tasks[u].at = "three" /\ Len(tasks[u].got) <= 2 BY <1>2 DEF Reading, ReadingOf
<1>8. PICK got : got = tasks[u].got OBVIOUS
<1>9. \A what \in What : \E i \in 1..Len(got) : got[i].what = what
  BY <1>6, <1>7, <1>8 DEF Awaited, AwaitedOf, On
<1>10. got \in Seq(Replies) /\ Len(got) \in Nat /\ Len(got) <= 2 BY <1>7, <1>8 DEF Typed, Task
<1>11. \A i \in 1..Len(got) : i = 1 \/ i = 2 BY <1>10
<1>12. PICK a, b, c : a = "services" /\ b = "processes" /\ c = "states" OBVIOUS
<1>13. a \in What /\ b \in What /\ c \in What /\ a # b /\ b # c /\ a # c BY <1>12 DEF What
<1> QED BY <1>9, <1>11, <1>13

\* What a task keeps is of the time of its answers.
LEMMA KeepsInTime ==
  ASSUME Typed, Record, Reading, Awaited, Timely, NEW m, Heard(m), NEW t, t = m.task,
         tasks[t].at = "three" => Len(Got(t, m)) = 3, NEW k, k = KeptOf(t, m)
  PROVE  /\ k \in Snapshot /\ m \in On(Got(t, m))
         /\ \A r \in On(Got(t, m)) : Given(r) /\ tasks[t].since <= r.seen /\ r.what \in What
         /\ \A what \in What :
              \/ \E r \in On(Got(t, m)) : r.what = what /\ Etag(k, what) = Etag(published[r.seen], what)
              \/ tasks[t].at # "three" /\ what # m.what /\ Etag(k, what) = Etag(cache, what)
         /\ \A a, b \in On(Got(t, m)) : a.what = "processes" /\ b.what = "states" => a.seen <= b.seen
         /\ \A what \in What : Etag(cache, what) <= Etag(k, what)
         /\ Lags(k, Len(published))
         /\ \A x \in On(to_client') : x.kind = "reply" => Lags(k, x.seen)
<1>1. /\ to_client \in Seq(ToClient) /\ to_client' = Tail(to_client) /\ to_client # <<>>
      /\ m = Head(to_client) /\ m \in Replies /\ m.kind = "reply" /\ t \in Tasks /\ m.what \in What
      /\ m \in On(to_client) /\ On(to_client') \subseteq On(to_client)
      /\ cache \in Snapshot /\ Len(published) \in Nat /\ Len(published) \in 1..Len(published)
  BY AReply, OnWire DEF Heard, Typed, Record
<1>2. \A r \in On(to_client') : r.kind = "reply" => m.seen <= r.seen
  BY <1>1, OrderedTail DEF Timely
<1>3. PICK got, since : got = tasks[t].got /\ since = tasks[t].since OBVIOUS
<1>4. On(Got(t, m)) = On(got) \cup {m} BY <1>1, <1>3, OnWire DEF Got, Typed, Task
<1>5. GotInTime(got, since) /\ \A r \in On(got) : r.what \in What BY <1>1, <1>3, OnTyped DEF Timely
<1>6. \A r \in On(Got(t, m)) :
        /\ Given(r) /\ since <= r.seen /\ r.what \in What
        /\ \A x \in On(to_client') : x.kind = "reply" => r.seen <= x.seen
  BY <1>1, <1>2, <1>3, <1>4, <1>5 DEF Timely, GotInTime
<1>7. /\ k \in Snapshot
      /\ \A what \in What :
           \/ \E r \in On(Got(t, m)) : r.what = what /\ Etag(k, what) = Etag(published[r.seen], what)
           \/ tasks[t].at # "three" /\ what # m.what /\ Etag(k, what) = Etag(cache, what)
  BY <1>1, <1>6, KeptOfGiven
<1>8. \A a, b \in On(Got(t, m)) : a.what = "processes" /\ b.what = "states" => a.seen <= b.seen
  <2>1. SUFFICES ASSUME NEW a \in On(got) \cup {m}, NEW b \in On(got) \cup {m},
                        a.what = "processes", b.what = "states"
                 PROVE  a.seen <= b.seen
    BY <1>4
  <2>2. CASE a \in On(got) /\ b \in On(got) BY <1>5, <2>1, <2>2 DEF GotInTime
  <2>3. CASE a \in On(got) /\ b = m BY <1>1, <1>5, <2>3 DEF GotInTime
  <2>4. CASE a = m /\ b \in On(got)
    <3>1. ~Reads(t, "processes") BY <1>1, <1>3, <2>1, <2>4 DEF Awaited, AwaitedOf
    <3>2. m \in RepliesOf(t, "processes") BY <1>1, <2>1, <2>4, AReply
    <3>3. Reads(t, "processes") BY <1>1, <3>2, LacksTail DEF Reads
    <3> QED BY <3>1, <3>3
  <2>5. CASE a = m /\ b = m BY <2>1, <2>5
  <2> QED BY <2>1, <2>2, <2>3, <2>4, <2>5
<1>9. ASSUME NEW n \in 1..Len(published), Lags(cache, n), \A r \in On(Got(t, m)) : r.seen <= n
      PROVE  Lags(k, n)
  <2>1. SUFFICES ASSUME NEW what \in What
                 PROVE  Etag(k, what) <= Etag(published[n], what)
    BY DEF Lags
  <2>2. CASE Etag(k, what) = Etag(cache, what) BY <1>9, <2>2 DEF Lags
  <2>3. ASSUME NEW r \in On(Got(t, m)), Etag(k, what) = Etag(published[r.seen], what)
        PROVE  Etag(k, what) <= Etag(published[n], what)
    <3>1. r.seen \in 1..Len(published) /\ r.seen <= n BY <1>6, <1>9 DEF Given
    <3> QED BY <2>3, <3>1, EtagsGrow
  <2> QED BY <1>7, <2>2, <2>3
<1>10. ASSUME NEW what \in What
       PROVE  Etag(cache, what) <= Etag(k, what)
  <2>1. CASE Etag(k, what) = Etag(cache, what)
    <3>1. Etag(cache, what) \in Nat BY <1>1, EtagsLater
    <3> QED BY <2>1, <3>1
  <2>2. ASSUME NEW r \in On(Got(t, m)), Etag(k, what) = Etag(published[r.seen], what)
        PROVE  Etag(cache, what) <= Etag(k, what)
    BY <1>6, <2>2 DEF Given, Lags
  <2> QED BY <1>7, <2>1, <2>2
<1>11. Lags(k, Len(published))
  <2>1. \A r \in On(Got(t, m)) : r.seen <= Len(published) BY <1>1, <1>6 DEF Given
  <2> QED BY <1>1, <1>9, <2>1 DEF Timely
<1>12. ASSUME NEW x \in On(to_client'), x.kind = "reply"
       PROVE  Lags(k, x.seen)
  <2>1. Given(x) BY <1>1, <1>12 DEF Timely
  <2> QED BY <1>6, <1>9, <1>12, <2>1 DEF Given
<1> QED BY <1>3, <1>4, <1>6, <1>7, <1>8, <1>10, <1>11, <1>12

LEMMA TimelyKeeps ==
  ASSUME Typed, Typed', Record, Reading, Serial, Awaited, Timely, NEW m, Heard(m), NEW t, t = m.task,
         tasks[t].at = "three" => Len(Got(t, m)) = 3, NEW k, k = KeptOf(t, m), cache' = k,
         tasks'[t].got = <<>>, tasks'[t].since \in {0, tasks[t].since},
         \A u \in Tasks : u # t => tasks'[u] = tasks[u],
         \A x \in On(to_agent') : x.kind = "get" => x \in On(to_agent) \/ x.tag <= Etag(k, x.what)
  PROVE  Timely'
<1>1. /\ to_client \in Seq(ToClient) /\ to_client' = Tail(to_client) /\ published' = published
      /\ m \in Replies /\ t \in Tasks /\ On(to_client') \subseteq On(to_client)
      /\ cache \in Snapshot /\ Len(published) \in Nat
  BY AReply, OnWire DEF Heard, Typed, Record
<1>2. Grows BY <1>1 DEF Grows
<1>3. /\ k \in Snapshot
      /\ \A what \in What : Etag(cache, what) <= Etag(k, what)
      /\ Lags(k, Len(published))
      /\ \A x \in On(to_client') : x.kind = "reply" => Lags(k, x.seen)
  BY KeepsInTime
<1>4. \A what \in What : Etag(cache, what) \in Nat /\ Etag(k, what) \in Nat
  BY <1>1, <1>3, EtagsLater
<1>5. Lags(cache, Len(published))' BY <1>1, <1>3 DEF Lags
<1>6. Ordered(to_client')
  <2>1. Ordered(to_client) /\ to_client # <<>> BY DEF Timely, Heard
  <2>2. Ordered(Tail(to_client)) BY <1>1, <2>1, OrderedTail
  <2> QED BY <1>1, <2>2
<1>7. \A u \in Tasks : tasks[u].since \in Nat /\ tasks[u].since <= Len(published) /\ tasks'[u].since <= tasks[u].since
  <2>1. \A u \in Tasks : tasks[u].since \in Nat BY DEF Typed, Task
  <2>2. \A u \in Tasks : tasks[u].since <= Len(published) BY DEF Timely
  <2>3. \A u \in Tasks : tasks'[u].since = tasks[u].since \/ tasks'[u].since = 0 OBVIOUS
  <2> QED BY <2>1, <2>2, <2>3
<1>8. ASSUME NEW x \in On(to_client'), x.kind = "reply"
      PROVE  Given(x)' /\ tasks'[x.task].since <= x.seen
  <2>1. x \in On(to_client) /\ x \in Replies /\ x.what \in What /\ x.task \in Tasks
    BY <1>1, <1>8, OnTyped, ClientHearsOf, AReply
  <2>2. Given(x) /\ tasks[x.task].since <= x.seen BY <1>8, <2>1 DEF Timely
  <2>3. x.seen \in Nat BY <2>1, AReply
  <2>4. Given(x)' BY <1>1, <1>2, <1>3, <1>8, <2>1, <2>2, GivenStays
  <2>5. tasks[x.task].since \in Nat /\ tasks'[x.task].since \in {0, tasks[x.task].since}
    BY <1>7, <2>1
  <2> QED BY <2>2, <2>3, <2>4, <2>5
<1>9. ASSUME NEW x \in On(to_agent'), x.kind = "get"
      PROVE  x.tag <= Etag(cache', x.what)
  <2>1. CASE x \in On(to_agent)
    <3>1. x \in Gets BY <1>9, <2>1, OnTyped, AgentHearsOf
    <3>2. x.tag \in Nat /\ x.what \in What /\ x.tag <= Etag(cache, x.what)
      BY <1>9, <2>1, <3>1 DEF Gets, Timely
    <3> QED BY <1>3, <1>4, <3>2
  <2> QED BY <1>9, <2>1
<1>10. ASSUME NEW u \in Tasks
       PROVE  tasks'[u].since <= Len(published') /\ GotInTime(tasks[u].got, tasks[u].since)'
  <2>1. tasks'[u].got = <<>> BY GotAlone
  <2>2. On(tasks'[u].got) = {} BY <2>1 DEF On
  <2>3. tasks[u].since \in Nat /\ tasks[u].since <= Len(published) /\ tasks'[u].since \in {0, tasks[u].since}
    BY <1>7
  <2>4. tasks'[u].since <= Len(published') BY <1>1, <2>3
  <2> QED BY <2>2, <2>4 DEF GotInTime
<1> QED BY <1>5, <1>6, <1>8, <1>9, <1>10 DEF Timely

\* A cache that holds nothing lags behind everything.
LEMMA CacheLags ==
  ASSUME Record
  PROVE  /\ \A what \in What : Etag(Cache, what) = 0
         /\ Lags(Cache, Len(published))
<1>1. \A what \in What : Etag(Cache, what) = 0 BY DEF Cache, Nothing, Etag, What
<1>2. Len(published) \in 1..Len(published) BY DEF Record
<1>3. \A what \in What : Etag(published[Len(published)], what) >= 1 /\ Etag(published[Len(published)], what) \in Nat
  BY <1>2, EtagsGrow
<1> QED BY <1>1, <1>3 DEF Lags

LEMMA TimelyOfNothing ==
  ASSUME Record, cache = Cache, to_agent = <<>>, to_client = <<>>, \A t \in Tasks : tasks[t] = Idle
  PROVE  Timely
<1>1. On(to_agent) = {} /\ On(to_client) = {} BY DEF On
<1>2. \A t \in Tasks : tasks[t].since = 0 /\ tasks[t].got = <<>> BY IdleFields
<1>3. \A t \in Tasks : On(tasks[t].got) = {} BY <1>2 DEF On
<1>4. Len(published) \in Nat /\ Lags(cache, Len(published)) BY CacheLags DEF Record
<1>5. Ordered(to_client) BY DEF Ordered
<1> QED BY <1>1, <1>2, <1>3, <1>4, <1>5 DEF Timely, GotInTime

\* All that is on its way stays of its time.
LEMMA TimelyKept ==
  ASSUME Typed, Typed', Record, Record', Onward, Reading, Turns, Serial, Awaited, Timely, [Next]_vars
  PROVE  Timely'
<1>1. CASE Finishes
  <2>1. /\ to_agent' = <<>> /\ to_client' = <<>> /\ cache' = Cache
        /\ published' = published /\ \A t \in Tasks : tasks'[t] = Idle
    BY <1>1 DEF Finishes
  <2>2. On(to_agent') = {} /\ On(to_client') = {} BY <2>1 DEF On
  <2>3. \A t \in Tasks : tasks'[t].since = 0 /\ tasks'[t].got = <<>> BY <2>1, IdleFields
  <2>4. \A t \in Tasks : On(tasks'[t].got) = {} BY <2>3 DEF On
  <2>5. Len(published') \in Nat /\ Lags(cache, Len(published))' BY <2>1, CacheLags DEF Record, Lags
  <2>6. Ordered(to_client') BY <2>1 DEF Ordered
  <2> QED BY <2>2, <2>3, <2>4, <2>5, <2>6 DEF Timely, GotInTime
<1>2. ASSUME NEW m, Heard(m), NEW k \in Snapshot, k = KeptOf(m.task, m),
             tasks[m.task].at = "three" => Len(Got(m.task, m)) = 3,
             ReadsOn(m.task, k) \/ Stops(m.task, k)
      PROVE  Timely'
  <2>1. PICK t \in Tasks : t = m.task BY <1>2, AReply DEF Heard
  <2>2. PICK next : next = Goes(t, k) OBVIOUS
  <2>3. next.got = <<>> /\ next.since = tasks[t].since BY <2>2, GoesFields DEF Typed
  <2>4. cache' = k /\ \A u \in Tasks : u # t => tasks'[u] = tasks[u]
    BY <1>2, <2>1 DEF ReadsOn, Stops, Typed
  <2>5. tasks'[t] = next \/ tasks'[t] = Idle BY <1>2, <2>1, <2>2 DEF ReadsOn, Stops, Typed
  <2>6. tasks'[t].got = <<>> /\ tasks'[t].since \in {0, tasks[t].since} BY <2>3, <2>5, IdleFields
  <2>7. \A x \in On(to_agent') : x.kind = "get" => x \in On(to_agent) \/ x.tag <= Etag(k, x.what)
    <3>1. CASE ReadsOn(m.task, k)
      <4>1. PICK call : call = Get(t, FetchesNext(t), k) OBVIOUS
      <4>2. FetchesNext(t) \in What BY DEF FetchesNext, What
      <4>3. call \in ToAgent /\ call.tag = Etag(k, call.what) /\ call.what \in What
        BY <1>2, <4>1, <4>2, AGet
      <4>4. to_agent' = Append(to_agent, call) BY <2>1, <3>1, <4>1 DEF ReadsOn
      <4>5. On(to_agent') = On(to_agent) \cup {call} BY <4>3, <4>4, OnWire DEF Typed
      <4>6. call.tag <= Etag(k, call.what) BY <1>2, <4>3, EtagsLater
      <4> QED BY <4>5, <4>6
    <3>2. CASE Stops(m.task, k) BY <3>2, OnApart DEF Stops, Typed
    <3> QED BY <1>2, <3>1, <3>2
  <2> QED BY <1>2, <2>1, <2>4, <2>6, <2>7, TimelyKeeps
<1> QED
  BY <1>1, <1>2, StepsOf, TimelyPasses, TimelyAnswered, TimelyBegins, TimelyForgets, TimelyCollects

-----------------------------------------------------------------------------
(***************************************************************************)
(* The list moves at each attempt to join the states to it.                *)
(***************************************************************************)
\* What is shown next lists what was listed, or is listed now.
LEMMA MovedListed ==
  ASSUME NEW was \in Snapshot, NEW n \in Nat, NEW after \in Moved(was, n)
  PROVE  after.processes.etag \in {was.processes.etag, n}
<1>1. CASE after = was BY <1>1
<1>2. CASE after = [was EXCEPT !.services = n] BY <1>2 DEF Snapshot
<1>3. ASSUME NEW rows, NEW states, after = Listed(was, n, rows, states)
      PROVE  after.processes.etag = n
  <2>1. after.processes = [etag |-> n, rows |-> rows] BY <1>3 DEF Listed, Snapshot
  <2> QED BY <2>1
<1>4. ASSUME NEW rows, after = StatesMove(was, n, rows)
      PROVE  after.processes.etag = was.processes.etag
  <2>1. after.processes = was.processes BY <1>4 DEF StatesMove, Snapshot
  <2> QED BY <2>1
<1> QED BY <1>1, <1>2, <1>3, <1>4 DEF Moved

LEMMA DatedKept ==
  ASSUME Record, Dated, [Next]_vars
  PROVE  Dated'
<1>1. CASE UNCHANGED published BY <1>1 DEF Dated
<1>2. CASE Publishes
  <2>1. PICK n \in Nat : n = Len(published) BY DEF Record
  <2>2. PICK after \in Moved(Latest, n + 1) : published' = Append(published, after)
    BY <1>2, <2>1 DEF Publishes
  <2>3. /\ published \in Seq(Snapshot) /\ n >= 1 /\ n + 1 \in Nat
        /\ Latest = published[n] /\ Latest \in Snapshot
    BY <2>1 DEF Record, Latest
  <2>4. /\ Len(published') = n + 1 /\ published'[n + 1] = after
        /\ \A i \in 1..n : published'[i] = published[i]
    BY <2>1, <2>2, <2>3
  <2>5. after.processes.etag \in {published[n].processes.etag, n + 1} BY <2>2, <2>3, MovedListed
  <2>6. \A i \in 1..n : /\ published[i].processes.etag \in 1..n
                        /\ published[published[i].processes.etag].processes.etag = published[i].processes.etag
    <3>1. SUFFICES ASSUME NEW i \in 1..n
                   PROVE  published[i].processes.etag \in 1..n
      BY <2>1 DEF Dated
    <3>2. published[i].processes.etag \in 1..i BY <2>1 DEF Record, Within
    <3> QED BY <2>1, <3>2
  <2>7. ASSUME NEW i \in 1..(n + 1)
        PROVE  published'[published'[i].processes.etag].processes.etag = published'[i].processes.etag
    <3>1. CASE i \in 1..n BY <2>4, <2>6, <3>1
    <3>2. CASE i = n + 1
      <4>1. CASE after.processes.etag = n + 1 BY <2>4, <3>2, <4>1
      <4>2. CASE after.processes.etag = published[n].processes.etag
        <5>1. n \in 1..n BY <2>3
        <5> QED BY <2>4, <2>6, <3>2, <4>2, <5>1
      <4> QED BY <2>5, <4>1, <4>2
    <3> QED BY <2>1, <2>7, <3>1, <3>2
  <2> QED BY <2>4, <2>7 DEF Dated
<1>3. ASSUME AgentHears PROVE UNCHANGED published
  BY <1>3 DEF AgentHears, Answers, Watched, Released, Answered, agent
<1>4. ASSUME NEW w \in Watches, Pushes(w) PROVE UNCHANGED published BY <1>4 DEF Pushes
<1>5. ASSUME ClientHears PROVE UNCHANGED published BY <1>5 DEF ClientHears, agent
<1>6. ASSUME NEW t \in Callers, CallsSnapshot(t) \/ Leaves(t) PROVE UNCHANGED published
  BY <1>6 DEF CallsSnapshot, Leaves, agent
<1>7. ASSUME NEW w \in Watches, CallsWatch(w) \/ Drops(w) \/ Takes(w) PROVE UNCHANGED published
  BY <1>7 DEF CallsWatch, Drops, Takes, agent
<1>8. ASSUME Ends PROVE UNCHANGED published BY <1>8 DEF Ends
<1>9. ASSUME UNCHANGED vars PROVE UNCHANGED published BY <1>9 DEF vars, agent
<1> QED BY <1>1, <1>2, <1>3, <1>4, <1>5, <1>6, <1>7, <1>8, <1>9 DEF Next, Agent, Client

\* The states of a list are not of an older list than states before them.
LEMMA PassportBehind ==
  ASSUME Record, NEW i \in 1..Len(published), NEW j \in 1..Len(published),
         published[i].states.etag <= published[j].states.etag
  PROVE  published[i].processes.etag <= published[j].processes.etag
<1>1. /\ i \in Nat /\ j \in Nat /\ "states" \in What /\ "processes" \in What
      /\ published[i].states.passport_etag = published[i].processes.etag
      /\ published[j].states.passport_etag = published[j].processes.etag
  BY DEF Record, Coherent, What
<1>2. CASE i <= j BY <1>1, <1>2, EtagsGrow DEF Etag
<1>3. CASE j <= i
  <2>1. published[j].states.etag <= published[i].states.etag BY <1>1, <1>3, EtagsGrow DEF Etag
  <2>2. published[j].states.etag \in Nat /\ published[i].states.etag \in Nat
    BY <1>1, EtagsGrow DEF Etag
  <2>3. published[j].states = published[i].states
    BY <1>1, <1>3, <2>1, <2>2, EtagsGrow DEF Etag, Part
  <2>4. published[i].processes.etag \in Nat BY <1>1, EtagsGrow DEF Etag
  <2> QED BY <1>1, <2>3, <2>4
<1> QED BY <1>1, <1>2, <1>3

\* The moves of the list can be counted, and each later one counts one more.
LEMMA MovesFinite ==
  ASSUME NEW since \in Nat, NEW p \in Nat
  PROVE  IsFiniteSet(MovesTo(since, p)) /\ Cardinality(MovesTo(since, p)) \in Nat
<1>1. IsFiniteSet((since + 1)..p) BY FS_Interval
<1>2. MovesTo(since, p) \subseteq (since + 1)..p BY DEF MovesTo
<1>3. IsFiniteSet(MovesTo(since, p)) BY <1>1, <1>2, FS_Subset
<1> QED BY <1>3, FS_CardinalityType

LEMMA MovesGrow ==
  ASSUME NEW since \in Nat, NEW p \in Nat, NEW q \in Nat, p <= q
  PROVE  Cardinality(MovesTo(since, p)) <= Cardinality(MovesTo(since, q))
<1>1. MovesTo(since, p) \subseteq MovesTo(since, q) BY DEF MovesTo
<1>2. IsFiniteSet(MovesTo(since, q)) BY MovesFinite
<1> QED BY <1>1, <1>2, FS_Subset

LEMMA MovesOne ==
  ASSUME Record, Dated, NEW since \in 1..Len(published), NEW j \in 1..Len(published),
         NEW p \in Nat, NEW q, q = published[j].processes.etag,
         published[since].processes.etag <= p, p < q
  PROVE  /\ q \in 1..Len(published)
         /\ Cardinality(MovesTo(since, p)) \in Nat /\ Cardinality(MovesTo(since, q)) \in Nat
         /\ Cardinality(MovesTo(since, p)) + 1 <= Cardinality(MovesTo(since, q))
         /\ Cardinality(MovesTo(since, q)) <= ListMoves(since)
<1>1. since \in Nat /\ j \in Nat /\ Len(published) \in Nat BY DEF Record
<1>2. q \in 1..j /\ published[since].processes.etag \in 1..since BY DEF Record, Within
<1>3. q \in Nat /\ q \in 1..Len(published) BY <1>1, <1>2
<1>4. published[q].processes.etag = q BY DEF Dated
<1>5. q > since
  <2>1. SUFFICES ASSUME q <= since
                 PROVE  FALSE
    BY <1>1, <1>3
  <2>2. "processes" \in What BY DEF What
  <2>3. published[q].processes.etag <= published[since].processes.etag
    BY <1>3, <2>1, <2>2, EtagsGrow DEF Etag
  <2> QED BY <1>1, <1>2, <1>3, <1>4, <2>3
<1>6. IsFiniteSet(MovesTo(since, p)) /\ Cardinality(MovesTo(since, p)) \in Nat BY <1>1, MovesFinite
<1>7. q \notin MovesTo(since, p) /\ MovesTo(since, p) \cup {q} \subseteq MovesTo(since, q)
  BY <1>1, <1>3, <1>4, <1>5 DEF MovesTo
<1>8. Cardinality(MovesTo(since, p) \cup {q}) = Cardinality(MovesTo(since, p)) + 1
  BY <1>6, <1>7, FS_AddElement
<1>9. IsFiniteSet(MovesTo(since, q)) /\ Cardinality(MovesTo(since, q)) \in Nat
  BY <1>1, <1>3, MovesFinite
<1>10. Cardinality(MovesTo(since, p) \cup {q}) <= Cardinality(MovesTo(since, q))
  BY <1>7, <1>9, FS_Subset
<1>11. Cardinality(MovesTo(since, q)) <= ListMoves(since)
  <2>1. ListMoves(since) = Cardinality(MovesTo(since, Len(published))) BY DEF ListMoves, MovesTo
  <2>2. q <= Len(published) BY <1>1, <1>3
  <2>3. PICK last : last = Len(published) OBVIOUS
  <2>4. Cardinality(MovesTo(since, q)) <= Cardinality(MovesTo(since, last))
    BY <1>1, <1>3, <2>2, <2>3, MovesGrow
  <2> QED BY <2>1, <2>3, <2>4
<1> QED BY <1>3, <1>6, <1>8, <1>9, <1>10, <1>11

\* What is kept of the states is what was published under its tag.
LEMMA KeptAs ==
  ASSUME Record, NEW c \in Snapshot, WellKept(c), NEW what \in What, Etag(c, what) # 0
  PROVE  /\ \E n \in 1..Len(published) : Part(published[n], what) = Part(c, what)
         /\ \A n \in 1..Len(published) : Etag(published[n], what) = Etag(c, what) =>
              Part(published[n], what) = Part(c, what)
<1>1. PICK n \in 1..Len(published) : Part(published[n], what) = Part(c, what)
  BY DEF WellKept, Tagged
<1>2. published[n] \in Snapshot BY DEF Record
<1>3. Etag(published[n], what) = Etag(c, what) BY <1>1, <1>2, EtagsLater
<1>4. ASSUME NEW i \in 1..Len(published), Etag(published[i], what) = Etag(c, what)
      PROVE  Part(published[i], what) = Part(c, what)
  <2>1. i <= n \/ n <= i BY DEF Record
  <2>2. Etag(published[i], what) = Etag(published[n], what) BY <1>3, <1>4
  <2> QED BY <1>1, <2>1, <2>2, EtagsGrow
<1> QED BY <1>1, <1>4

\* The list the states kept are of was listed, by when they were shown.
LEMMA PassportOf ==
  ASSUME Record, NEW c \in Snapshot, WellKept(c), Etag(c, "states") # 0
  PROVE  /\ \E n \in 1..Len(published) :
              Etag(published[n], "states") = Etag(c, "states")
              /\ c.states.passport_etag = published[n].processes.etag
         /\ \A n \in 1..Len(published) : Etag(published[n], "states") = Etag(c, "states") =>
              c.states.passport_etag = published[n].processes.etag
<1>1. "states" \in What BY DEF What
<1>2. PICK n \in 1..Len(published) : Part(published[n], "states") = Part(c, "states")
  BY <1>1, KeptAs
<1>3. ASSUME NEW i \in 1..Len(published), Part(published[i], "states") = Part(c, "states")
      PROVE  /\ Etag(published[i], "states") = Etag(c, "states")
             /\ c.states.passport_etag = published[i].processes.etag
  BY <1>3 DEF Record, Coherent, Part, Etag
<1> QED BY <1>1, <1>2, <1>3, KeptAs

\* What is kept and not older than a call is current.
LEMMA CurrentBy ==
  ASSUME Record, NEW c \in Snapshot, WellKept(c), NEW since \in 1..Len(published),
         NotBefore(c, since), NEW what \in What
  PROVE  Etag(c, what) # 0 /\ Current(Part(c, what), what, since)
<1>1. Etag(published[since], what) \in Nat /\ Etag(published[since], what) >= 1 /\ Etag(c, what) \in Nat
  BY EtagsGrow, EtagsLater
<1>2. Etag(c, what) # 0 BY <1>1 DEF NotBefore
<1>3. PICK n \in 1..Len(published) : Part(published[n], what) = Part(c, what) BY <1>2, KeptAs
<1>4. Etag(published[n], what) = Etag(c, what) BY <1>3, EtagsLater DEF Record
<1>5. CASE since <= n BY <1>2, <1>3, <1>5 DEF Current, Record
<1>6. CASE n <= since
  <2>1. Etag(published[n], what) <= Etag(published[since], what) BY <1>6, EtagsGrow
  <2>2. Etag(published[since], what) = Etag(c, what) BY <1>1, <1>4, <2>1 DEF NotBefore
  <2>3. Part(published[since], what) = Part(c, what) BY <1>2, <2>2, KeptAs
  <2>4. since \in since..Len(published) BY DEF Record
  <2> QED BY <1>2, <2>3, <2>4 DEF Current
<1> QED BY <1>5, <1>6 DEF Record

LEMMA KeptWithin ==
  ASSUME Record, NEW c \in Snapshot, WellKept(c), \A what \in What : Etag(c, what) # 0
  PROVE  /\ c.processes.etag \in 1..Len(published) /\ c.states.passport_etag \in 1..Len(published)
         /\ c.processes.etag \in Nat /\ c.states.passport_etag \in Nat
<1>1. "processes" \in What /\ "states" \in What /\ Len(published) \in Nat BY DEF What, Record
<1>2. PICK n \in 1..Len(published) : Part(published[n], "processes") = Part(c, "processes")
  BY <1>1, KeptAs
<1>3. PICK j \in 1..Len(published) : c.states.passport_etag = published[j].processes.etag
  BY <1>1, PassportOf
<1>4. c.processes.etag = published[n].processes.etag BY <1>2 DEF Part
<1>5. published[n].processes.etag \in 1..n /\ published[j].processes.etag \in 1..j
  BY DEF Record, Within
<1> QED BY <1>1, <1>3, <1>4, <1>5

\* What a task has is no less fresh as more is published.
LEMMA FreshLater ==
  ASSUME Record, Grows, Len(published') \in Nat, NEW c \in Snapshot, WellKept(c), NEW task \in Task,
         task.at \in {"processes", "states"} => \A what \in What : Etag(c, what) # 0,
         FreshTask(task, c)
  PROVE  FreshTask(task, c)'
<1>1. /\ Len(published) \in Nat /\ Len(published) <= Len(published')
      /\ \A i \in 1..Len(published) : published'[i] = published[i] /\ i \in 1..Len(published')
  BY DEF Grows, Record
<1>2. PICK since : since = task.since OBVIOUS
<1>3. since \in Nat /\ (task.at # "idle" => since \in 1..Len(published))
  BY <1>2 DEF FreshTask, Task
<1>4. \A last \in 1..Len(published) : MovesTo(since, last)' = MovesTo(since, last)
  <2>1. SUFFICES ASSUME NEW last \in 1..Len(published)
                 PROVE  MovesTo(since, last)' = MovesTo(since, last)
    OBVIOUS
  <2>2. \A n \in (since + 1)..last : published'[n] = published[n] BY <1>1, <1>3
  <2> QED BY <2>2 DEF MovesTo
<1>5. task.at = "processes" => FreshTask(task, c)'
  <2>1. SUFFICES ASSUME task.at = "processes"
                 PROVE  FreshTask(task, c)'
    OBVIOUS
  <2>2. c.states.passport_etag \in 1..Len(published) BY <2>1, KeptWithin
  <2>3. MovesTo(since, c.states.passport_etag)' = MovesTo(since, c.states.passport_etag)
    BY <1>4, <2>2
  <2>4. NotBefore(c, since)' BY <1>1, <1>2, <1>3, <2>1 DEF FreshTask, NotBefore
  <2>5. since \in 1..Len(published') BY <1>1, <1>3, <2>1
  <2>6. task.tries >= 1 /\ Cardinality(MovesTo(since, c.states.passport_etag)) >= 2 * task.tries - 1
    BY <1>2, <2>1 DEF FreshTask
  <2> QED BY <1>2, <2>1, <2>3, <2>4, <2>5, <2>6 DEF FreshTask
<1>6. task.at = "states" => FreshTask(task, c)'
  <2>1. SUFFICES ASSUME task.at = "states"
                 PROVE  FreshTask(task, c)'
    OBVIOUS
  <2>2. c.processes.etag \in 1..Len(published) BY <2>1, KeptWithin
  <2>3. MovesTo(since, c.processes.etag)' = MovesTo(since, c.processes.etag) BY <1>4, <2>2
  <2>4. NotBefore(c, since)' BY <1>1, <1>2, <1>3, <2>1 DEF FreshTask, NotBefore
  <2>5. since \in 1..Len(published') BY <1>1, <1>3, <2>1
  <2>6. Cardinality(MovesTo(since, c.processes.etag)) >= 2 * task.tries BY <1>2, <2>1 DEF FreshTask
  <2> QED BY <1>2, <2>1, <2>3, <2>4, <2>5, <2>6 DEF FreshTask
<1>7. task.at = "done" => FreshTask(task, c)'
  <2>1. SUFFICES ASSUME task.at = "done"
                 PROVE  FreshTask(task, c)'
    OBVIOUS
  <2>2. since \in 1..Len(published) /\ since \in 1..Len(published') BY <1>1, <1>3, <2>1
  <2>3. Result(since, task.result) BY <1>2, <2>1 DEF FreshTask
  <2>4. \A part, what : Current(part, what, since) => Current(part, what, since)'
    <3>1. \A n \in since..Len(published) : n \in since..Len(published') /\ published'[n] = published[n]
      BY <1>1, <2>2
    <3> QED BY <3>1 DEF Current
  <2>5. ListMoves(since) > 2 * JoinAttempts => ListMoves(since)' > 2 * JoinAttempts
    <3>1. PICK some, more :
             /\ some = {n \in (since + 1)..Len(published) : published[n].processes.etag = n}
             /\ more = {n \in (since + 1)..Len(published') : published'[n].processes.etag = n}
      OBVIOUS
    <3>2. some \subseteq more BY <1>1, <1>3, <3>1
    <3>3. IsFiniteSet(more)
      <4>1. IsFiniteSet((since + 1)..Len(published')) BY <1>3, FS_Interval
      <4>2. more \subseteq (since + 1)..Len(published') BY <3>1
      <4> QED BY <4>1, <4>2, FS_Subset
    <3>4. /\ Cardinality(some) <= Cardinality(more)
          /\ Cardinality(some) \in Nat /\ Cardinality(more) \in Nat
      BY <3>2, <3>3, FS_Subset, FS_CardinalityType
    <3>5. ListMoves(since) = Cardinality(some) /\ ListMoves(since)' = Cardinality(more)
      BY <3>1 DEF ListMoves
    <3> QED BY <3>4, <3>5, SessionAssumption
  <2>6. Result(since, task.result)' BY <2>3, <2>4, <2>5 DEF Result
  <2> QED BY <1>2, <2>1, <2>2, <2>6 DEF FreshTask
<1>8. task.at = "idle" => FreshTask(task, c)' BY DEF FreshTask
<1>9. task.at = "three" => FreshTask(task, c)' BY <1>1, <1>2, <1>3 DEF FreshTask
<1> QED BY <1>5, <1>6, <1>7, <1>8, <1>9 DEF Task

\* Nor as more is kept.
LEMMA FreshKeeping ==
  ASSUME Record, NEW c \in Snapshot, WellKept(c), NEW k \in Snapshot, WellKept(k),
         \A what \in What : Etag(c, what) <= Etag(k, what), NEW task \in Task,
         task.at \in {"processes", "states"} => \A what \in What : Etag(c, what) # 0,
         FreshTask(task, c)
  PROVE  FreshTask(task, k)
<1>1. \A what \in What : Etag(c, what) \in Nat /\ Etag(k, what) \in Nat BY EtagsLater
<1>2. PICK since : since = task.since OBVIOUS
<1>3. SUFFICES ASSUME task.at \in {"processes", "states"}
               PROVE  FreshTask(task, k)
  BY DEF FreshTask, Task
<1>4. since \in 1..Len(published) /\ NotBefore(c, since) /\ since \in Nat
  BY <1>2, <1>3 DEF FreshTask, Task
<1>5. NotBefore(k, since)
  <2>1. \A what \in What : Etag(published[since], what) \in Nat BY <1>4, EtagsGrow
  <2> QED BY <1>1, <1>4, <2>1 DEF NotBefore
<1>6. \A what \in What : Etag(c, what) # 0 /\ Etag(k, what) # 0 BY <1>1, <1>3
<1>7. /\ c.processes.etag \in Nat /\ c.states.passport_etag \in Nat
      /\ k.processes.etag \in Nat /\ k.states.passport_etag \in Nat
  BY <1>6, KeptWithin
<1>8. c.processes.etag <= k.processes.etag /\ c.states.passport_etag <= k.states.passport_etag
  <2>1. "processes" \in What /\ "states" \in What BY DEF What
  <2>2. c.processes.etag <= k.processes.etag BY <2>1 DEF Etag
  <2>3. PICK i \in 1..Len(published) : Etag(published[i], "states") = Etag(c, "states")
                                       /\ c.states.passport_etag = published[i].processes.etag
    BY <1>6, <2>1, PassportOf
  <2>4. PICK j \in 1..Len(published) : Etag(published[j], "states") = Etag(k, "states")
                                       /\ k.states.passport_etag = published[j].processes.etag
    BY <1>6, <2>1, PassportOf
  <2>5. published[i].states.etag <= published[j].states.etag
    <3>1. Etag(published[i], "states") <= Etag(published[j], "states") BY <2>1, <2>3, <2>4
    <3> QED BY <3>1 DEF Etag
  <2> QED BY <2>2, <2>3, <2>4, <2>5, PassportBehind
<1>9. task.tries \in Nat BY DEF Task
<1>10. CASE task.at = "processes"
  <2>1. /\ Cardinality(MovesTo(since, c.states.passport_etag)) \in Nat
        /\ Cardinality(MovesTo(since, k.states.passport_etag)) \in Nat
        /\ Cardinality(MovesTo(since, c.states.passport_etag)) <= Cardinality(MovesTo(since, k.states.passport_etag))
    <3>1. PICK p, q : p = c.states.passport_etag /\ q = k.states.passport_etag OBVIOUS
    <3>2. p \in Nat /\ q \in Nat /\ p <= q BY <1>7, <1>8, <3>1
    <3>3. Cardinality(MovesTo(since, p)) \in Nat /\ Cardinality(MovesTo(since, q)) \in Nat
      BY <1>4, <3>2, MovesFinite
    <3>4. Cardinality(MovesTo(since, p)) <= Cardinality(MovesTo(since, q)) BY <1>4, <3>2, MovesGrow
    <3> QED BY <3>1, <3>3, <3>4
  <2>2. task.tries >= 1 /\ Cardinality(MovesTo(since, c.states.passport_etag)) >= 2 * task.tries - 1
    BY <1>2, <1>10 DEF FreshTask
  <2>3. Cardinality(MovesTo(since, k.states.passport_etag)) >= 2 * task.tries - 1
    BY <1>9, <2>1, <2>2
  <2> QED BY <1>2, <1>4, <1>5, <1>10, <2>2, <2>3 DEF FreshTask
<1>11. CASE task.at = "states"
  <2>1. /\ Cardinality(MovesTo(since, c.processes.etag)) \in Nat
        /\ Cardinality(MovesTo(since, k.processes.etag)) \in Nat
        /\ Cardinality(MovesTo(since, c.processes.etag)) <= Cardinality(MovesTo(since, k.processes.etag))
    <3>1. PICK p, q : p = c.processes.etag /\ q = k.processes.etag OBVIOUS
    <3>2. p \in Nat /\ q \in Nat /\ p <= q BY <1>7, <1>8, <3>1
    <3>3. Cardinality(MovesTo(since, p)) \in Nat /\ Cardinality(MovesTo(since, q)) \in Nat
      BY <1>4, <3>2, MovesFinite
    <3>4. Cardinality(MovesTo(since, p)) <= Cardinality(MovesTo(since, q)) BY <1>4, <3>2, MovesGrow
    <3> QED BY <3>1, <3>3, <3>4
  <2>2. Cardinality(MovesTo(since, c.processes.etag)) >= 2 * task.tries
    BY <1>2, <1>11 DEF FreshTask
  <2>3. Cardinality(MovesTo(since, k.processes.etag)) >= 2 * task.tries BY <1>9, <2>1, <2>2
  <2> QED BY <1>2, <1>4, <1>5, <1>11, <2>3 DEF FreshTask
<1> QED BY <1>3, <1>10, <1>11

LEMMA KeepsFresh ==
  ASSUME FreshInv, NEW m, NEW t, NEW k, Keeps(t, m, k), NEW since, since = tasks[t].since
  PROVE  /\ k \in Snapshot /\ WellKept(k) /\ \A what \in What : Etag(k, what) # 0
         /\ t \in Tasks /\ tasks[t] \in Task /\ since \in 1..Len(published) /\ since \in Nat
         /\ NotBefore(k, since) /\ FreshTask(tasks[t], cache)
         /\ tasks[t].at \in {"three", "processes", "states"}
         /\ published[since].processes.etag <= k.processes.etag
         /\ published[since].processes.etag <= k.states.passport_etag
         /\ Joined(k) <=> k.processes.etag = k.states.passport_etag
<1>1. /\ Typed /\ Record /\ Reading /\ Caching /\ Awaited /\ Timely /\ FreshReads
      /\ m \in Replies /\ to_client # <<>> /\ m = Head(to_client) /\ t = m.task /\ Heard(m)
      /\ (tasks[t].at = "three" => Len(Got(t, m)) = 3) /\ k = KeptOf(t, m)
  BY DEF FreshInv, Keeps, Heard
<1>2. /\ k \in Snapshot
      /\ \A r \in On(Got(t, m)) : Given(r) /\ since <= r.seen /\ r.what \in What
      /\ \A what \in What :
           \/ \E r \in On(Got(t, m)) : r.what = what /\ Etag(k, what) = Etag(published[r.seen], what)
           \/ tasks[t].at # "three" /\ what # m.what /\ Etag(k, what) = Etag(cache, what)
  BY <1>1, KeepsInTime
<1>3. WellKept(k) /\ \A what \in What : Etag(k, what) # 0 BY <1>1, WholeKept
<1>4. t \in Tasks /\ tasks[t] \in Task /\ tasks[t].at \in {"three", "processes", "states"}
  BY <1>1, AnswerAwaited DEF Typed
<1>5. FreshTask(tasks[t], cache) /\ since \in 1..Len(published) /\ since \in Nat
  BY <1>1, <1>4 DEF FreshReads, FreshTask, Task
<1>6. ASSUME NEW what \in What
      PROVE  Etag(published[since], what) <= Etag(k, what)
  <2>1. CASE tasks[t].at # "three" /\ Etag(k, what) = Etag(cache, what)
    BY <1>4, <1>5, <2>1 DEF FreshTask, NotBefore
  <2>2. ASSUME NEW r \in On(Got(t, m)), Etag(k, what) = Etag(published[r.seen], what)
        PROVE  Etag(published[since], what) <= Etag(k, what)
    BY <1>1, <1>2, <1>5, <2>2, EtagsGrow DEF Given
  <2> QED BY <1>2, <2>1, <2>2
<1>7. published[since].processes.etag <= k.processes.etag
  <2>1. "processes" \in What BY DEF What
  <2> QED BY <1>6, <2>1 DEF Etag
<1>8. published[since].processes.etag <= k.states.passport_etag
  <2>1. "states" \in What BY DEF What
  <2>2. PICK j \in 1..Len(published) : Etag(published[j], "states") = Etag(k, "states")
                                       /\ k.states.passport_etag = published[j].processes.etag
    BY <1>1, <1>2, <1>3, <2>1, PassportOf
  <2>3. published[since].states.etag <= published[j].states.etag BY <1>6, <2>1, <2>2 DEF Etag
  <2> QED BY <1>1, <1>5, <2>2, <2>3, PassportBehind
<1>9. Joined(k) <=> k.processes.etag = k.states.passport_etag
  <2>1. k.states.etag # 0 BY <1>3 DEF Etag, What
  <2> QED BY <2>1 DEF Joined
<1> QED BY <1>2, <1>3, <1>4, <1>5, <1>6, <1>7, <1>8, <1>9 DEF NotBefore

\* Of three answers, the states are not of an older list than the list.
LEMMA ThreeMoved ==
  ASSUME FreshInv, NEW m, NEW t, NEW k, Keeps(t, m, k), NEW since, since = tasks[t].since,
         tasks[t].at = "three", ~Joined(k)
  PROVE  /\ Cardinality(MovesTo(since, k.states.passport_etag)) \in Nat
         /\ Cardinality(MovesTo(since, k.states.passport_etag)) >= 1
         /\ Cardinality(MovesTo(since, k.states.passport_etag)) <= ListMoves(since)
<1>1. /\ k \in Snapshot /\ WellKept(k) /\ \A what \in What : Etag(k, what) # 0
      /\ since \in 1..Len(published) /\ since \in Nat
      /\ published[since].processes.etag <= k.processes.etag
      /\ k.processes.etag # k.states.passport_etag
  BY KeepsFresh
<1>2. Record /\ Dated /\ "processes" \in What /\ "states" \in What BY DEF FreshInv, What
<1>3. /\ \A r \in On(Got(t, m)) : Given(r)
      /\ \A what \in What :
           \E r \in On(Got(t, m)) : r.what = what /\ Etag(k, what) = Etag(published[r.seen], what)
      /\ \A a, b \in On(Got(t, m)) : a.what = "processes" /\ b.what = "states" => a.seen <= b.seen
  BY KeepsInTime DEF FreshInv, Keeps
<1>4. PICK a \in On(Got(t, m)) :
           a.what = "processes" /\ Etag(k, "processes") = Etag(published[a.seen], "processes")
  BY <1>2, <1>3
<1>5. PICK b \in On(Got(t, m)) :
           b.what = "states" /\ Etag(k, "states") = Etag(published[b.seen], "states")
  BY <1>2, <1>3
<1>6. a.seen \in 1..Len(published) /\ b.seen \in 1..Len(published) /\ a.seen <= b.seen
  BY <1>3, <1>4, <1>5 DEF Given
<1>7. k.processes.etag = published[a.seen].processes.etag BY <1>4 DEF Etag
<1>8. k.states.passport_etag = published[b.seen].processes.etag
  BY <1>1, <1>2, <1>5, <1>6, PassportOf
<1>9. published[a.seen].processes.etag <= published[b.seen].processes.etag
  BY <1>2, <1>6, EtagsGrow DEF Etag
<1>10. k.processes.etag \in Nat /\ k.states.passport_etag \in Nat BY <1>1, <1>2, KeptWithin
<1>11. k.processes.etag < k.states.passport_etag BY <1>1, <1>7, <1>8, <1>9, <1>10
<1>12. /\ Cardinality(MovesTo(since, k.processes.etag)) \in Nat
       /\ Cardinality(MovesTo(since, k.states.passport_etag)) \in Nat
       /\ Cardinality(MovesTo(since, k.processes.etag)) + 1
            <= Cardinality(MovesTo(since, k.states.passport_etag))
       /\ Cardinality(MovesTo(since, k.states.passport_etag)) <= ListMoves(since)
  BY <1>1, <1>2, <1>6, <1>8, <1>10, <1>11, MovesOne
<1> QED BY <1>12

\* A list read afresh is not older than the one the states kept are of.
LEMMA ListMoved ==
  ASSUME FreshInv, NEW m, NEW t, NEW k, Keeps(t, m, k), NEW since, since = tasks[t].since,
         tasks[t].at = "processes", ~Joined(k)
  PROVE  /\ Cardinality(MovesTo(since, k.processes.etag)) \in Nat
         /\ Cardinality(MovesTo(since, k.processes.etag)) >= 2 * tasks[t].tries
<1>1. /\ k \in Snapshot /\ WellKept(k) /\ \A what \in What : Etag(k, what) # 0
      /\ since \in 1..Len(published) /\ since \in Nat /\ t \in Tasks /\ tasks[t] \in Task
      /\ published[since].processes.etag <= k.states.passport_etag
      /\ k.processes.etag # k.states.passport_etag /\ FreshTask(tasks[t], cache)
  BY KeepsFresh
<1>2. /\ Record /\ Dated /\ "processes" \in What /\ "states" \in What
      /\ cache \in Snapshot /\ WellKept(cache)
      /\ \A what \in What : Etag(cache, what) # 0
  BY <1>1 DEF FreshInv, What, Typed, Caching, WellRead, Has
<1>3. m.what = "processes" /\ On(Got(t, m)) = {m}
  <2>1. m.what = "processes" /\ Len(Got(t, m)) = 1 BY AnswerAwaited DEF FreshInv, Keeps, Heard
  <2>2. m \in On(Got(t, m)) BY KeepsInTime DEF FreshInv, Keeps
  <2> QED BY <2>1, <2>2 DEF On
<1>4. /\ Given(m) /\ Etag(k, "processes") = Etag(published[m.seen], "processes")
      /\ Etag(k, "states") = Etag(cache, "states")
  <2>1. /\ \A r \in On(Got(t, m)) : Given(r)
        /\ \A what \in What :
             \/ \E r \in On(Got(t, m)) : r.what = what /\ Etag(k, what) = Etag(published[r.seen], what)
             \/ tasks[t].at # "three" /\ what # m.what /\ Etag(k, what) = Etag(cache, what)
    BY KeepsInTime DEF FreshInv, Keeps
  <2> QED BY <1>2, <1>3, <2>1
<1>5. m.seen \in 1..Len(published) /\ Etag(cache, "states") <= Etag(published[m.seen], "states")
  BY <1>2, <1>4 DEF Given, Lags
<1>6. PICK j \in 1..Len(published) : Etag(published[j], "states") = Etag(cache, "states")
                                     /\ cache.states.passport_etag = published[j].processes.etag
  BY <1>2, PassportOf
<1>7. k.states.passport_etag = published[j].processes.etag BY <1>1, <1>2, <1>4, <1>6, PassportOf
<1>8. published[j].states.etag <= published[m.seen].states.etag BY <1>5, <1>6 DEF Etag
<1>9. published[j].processes.etag <= published[m.seen].processes.etag
  BY <1>2, <1>5, <1>8, PassportBehind
<1>10. k.processes.etag = published[m.seen].processes.etag BY <1>4 DEF Etag
<1>11. k.processes.etag \in Nat /\ k.states.passport_etag \in Nat BY <1>1, <1>2, KeptWithin
<1>12. k.states.passport_etag < k.processes.etag BY <1>1, <1>7, <1>9, <1>10, <1>11
<1>13. /\ Cardinality(MovesTo(since, k.states.passport_etag)) \in Nat
       /\ Cardinality(MovesTo(since, k.processes.etag)) \in Nat
       /\ Cardinality(MovesTo(since, k.states.passport_etag)) + 1
            <= Cardinality(MovesTo(since, k.processes.etag))
  BY <1>1, <1>2, <1>5, <1>10, <1>11, <1>12, MovesOne
<1>14. Cardinality(MovesTo(since, cache.states.passport_etag)) >= 2 * tasks[t].tries - 1
  BY <1>1 DEF FreshTask
<1>15. k.states.passport_etag = cache.states.passport_etag /\ tasks[t].tries \in Nat
  BY <1>1, <1>6, <1>7 DEF Task
<1> QED BY <1>13, <1>14, <1>15

\* Nor are states read afresh of an older list than the one kept.
LEMMA StatesMoved ==
  ASSUME FreshInv, NEW m, NEW t, NEW k, Keeps(t, m, k), NEW since, since = tasks[t].since,
         tasks[t].at = "states", ~Joined(k)
  PROVE  /\ Cardinality(MovesTo(since, k.states.passport_etag)) \in Nat
         /\ Cardinality(MovesTo(since, k.states.passport_etag)) >= 2 * tasks[t].tries + 1
         /\ Cardinality(MovesTo(since, k.states.passport_etag)) <= ListMoves(since)
<1>1. /\ k \in Snapshot /\ WellKept(k) /\ \A what \in What : Etag(k, what) # 0
      /\ since \in 1..Len(published) /\ since \in Nat /\ t \in Tasks /\ tasks[t] \in Task
      /\ published[since].processes.etag <= k.processes.etag
      /\ k.processes.etag # k.states.passport_etag /\ FreshTask(tasks[t], cache)
  BY KeepsFresh
<1>2. Record /\ Dated /\ "processes" \in What /\ "states" \in What BY DEF FreshInv, What
<1>3. m.what = "states" /\ On(Got(t, m)) = {m}
  <2>1. m.what = "states" /\ Len(Got(t, m)) = 1 BY AnswerAwaited DEF FreshInv, Keeps, Heard
  <2>2. m \in On(Got(t, m)) BY KeepsInTime DEF FreshInv, Keeps
  <2> QED BY <2>1, <2>2 DEF On
<1>4. /\ Given(m) /\ Etag(k, "states") = Etag(published[m.seen], "states")
      /\ Etag(k, "processes") = Etag(cache, "processes")
  <2>1. /\ \A r \in On(Got(t, m)) : Given(r)
        /\ \A what \in What :
             \/ \E r \in On(Got(t, m)) : r.what = what /\ Etag(k, what) = Etag(published[r.seen], what)
             \/ tasks[t].at # "three" /\ what # m.what /\ Etag(k, what) = Etag(cache, what)
    BY KeepsInTime DEF FreshInv, Keeps
  <2> QED BY <1>2, <1>3, <2>1
<1>5. m.seen \in 1..Len(published) /\ cache.processes.etag <= published[m.seen].processes.etag
  BY <1>2, <1>4 DEF Given, Lags, Etag
<1>6. k.states.passport_etag = published[m.seen].processes.etag
  BY <1>1, <1>2, <1>4, <1>5, PassportOf
<1>7. k.processes.etag = cache.processes.etag BY <1>4 DEF Etag
<1>8. k.processes.etag \in Nat /\ k.states.passport_etag \in Nat BY <1>1, <1>2, KeptWithin
<1>9. k.processes.etag < k.states.passport_etag BY <1>1, <1>5, <1>6, <1>7, <1>8
<1>10. /\ Cardinality(MovesTo(since, k.processes.etag)) \in Nat
       /\ Cardinality(MovesTo(since, k.states.passport_etag)) \in Nat
       /\ Cardinality(MovesTo(since, k.processes.etag)) + 1
            <= Cardinality(MovesTo(since, k.states.passport_etag))
       /\ Cardinality(MovesTo(since, k.states.passport_etag)) <= ListMoves(since)
  BY <1>1, <1>2, <1>5, <1>6, <1>8, <1>9, MovesOne
<1>11. Cardinality(MovesTo(since, cache.processes.etag)) >= 2 * tasks[t].tries
  BY <1>1 DEF FreshTask
<1>12. tasks[t].tries \in Nat BY <1>1 DEF Task
<1> QED BY <1>7, <1>10, <1>11, <1>12

LEMMA FreshGoes ==
  ASSUME FreshInv, NEW m, NEW t, NEW k, Keeps(t, m, k), NEW next, next = Goes(t, k)
  PROVE  FreshTask(next, k)
<1>1. PICK since, task : since = tasks[t].since /\ task = tasks[t] OBVIOUS
<1>2. /\ k \in Snapshot /\ WellKept(k) /\ task \in Task /\ Record
      /\ since \in 1..Len(published) /\ since \in Nat
      /\ NotBefore(k, since) /\ FreshTask(task, cache)
      /\ task.at \in {"three", "processes", "states"}
  BY <1>1, KeepsFresh DEF FreshInv
<1>3. /\ next.since = since
      /\ Over(t, k) => next.at = "done" /\ next.result = (IF Joined(k) THEN k ELSE None)
      /\ ~Over(t, k) => /\ next.at = FetchesNext(t)
                        /\ next.tries = IF FetchesNext(t) = "processes" THEN task.tries + 1 ELSE task.tries
  BY <1>1, <1>2, GoesFields
<1>4. JoinAttempts \in Nat /\ task.tries \in Nat BY <1>2, SessionAssumption DEF Task
<1>5. CASE Joined(k)
  <2>1. next.at = "done" /\ next.result = k /\ k # None
    BY <1>2, <1>3, <1>5, NoneAssumption DEF Over
  <2>2. \A what \in What : Current(Part(k, what), what, since) BY <1>2, CurrentBy
  <2>3. /\ Current(k.processes, "processes", since)
        /\ Current(k.states, "states", since) /\ Current(k.services, "services", since)
    <3>1. "processes" \in What /\ "states" \in What /\ "services" \in What BY DEF What
    <3>2. /\ Part(k, "processes") = k.processes /\ Part(k, "states") = k.states
          /\ Part(k, "services") = k.services
      BY DEF Part
    <3> QED BY <2>2, <3>1, <3>2
  <2>4. Result(since, next.result) BY <2>1, <2>3 DEF Result
  <2> QED BY <1>2, <1>3, <2>1, <2>4 DEF FreshTask
<1>6. ASSUME ~Joined(k), Over(t, k), ListMoves(since) > 2 * JoinAttempts
      PROVE  FreshTask(next, k)
  <2>1. next.at = "done" /\ next.result = None BY <1>3, <1>6
  <2>2. Result(since, next.result) BY <1>6, <2>1 DEF Result
  <2> QED BY <1>2, <1>3, <2>1, <2>2 DEF FreshTask
<1>7. ASSUME ~Over(t, k), task.at # "processes",
             Cardinality(MovesTo(since, k.states.passport_etag)) >= 2 * task.tries + 1
      PROVE  FreshTask(next, k)
  <2>1. next.at = "processes" /\ next.tries = task.tries + 1 BY <1>1, <1>3, <1>7 DEF FetchesNext
  <2>2. next.tries >= 1 /\ 2 * next.tries - 1 = 2 * task.tries + 1 BY <1>4, <2>1
  <2>3. Cardinality(MovesTo(since, k.states.passport_etag)) >= 2 * next.tries - 1 BY <1>7, <2>2
  <2> QED BY <1>2, <1>3, <2>1, <2>2, <2>3 DEF FreshTask
<1>8. CASE ~Joined(k) /\ task.at = "three"
  <2>1. /\ Cardinality(MovesTo(since, k.states.passport_etag)) \in Nat
        /\ Cardinality(MovesTo(since, k.states.passport_etag)) >= 1
        /\ Cardinality(MovesTo(since, k.states.passport_etag)) <= ListMoves(since)
    BY <1>1, <1>8, ThreeMoved
  <2>2. task.tries = 0 BY <1>2, <1>8 DEF FreshTask
  <2>3. CASE Over(t, k)
    <3>1. task.tries = JoinAttempts BY <1>1, <1>8, <2>3 DEF Over
    <3>2. ListMoves(since) \in Int
      <4>1. ListMoves(since) = Cardinality(MovesTo(since, Len(published)))
        BY DEF ListMoves, MovesTo
      <4>2. Len(published) \in Nat BY <1>2 DEF Record
      <4> QED BY <1>2, <4>1, <4>2, MovesFinite
    <3>3. ListMoves(since) > 2 * JoinAttempts BY <2>1, <2>2, <3>1, <3>2
    <3> QED BY <1>6, <1>8, <2>3, <3>3
  <2>4. CASE ~Over(t, k)
    <3>1. Cardinality(MovesTo(since, k.states.passport_etag)) >= 2 * task.tries + 1 BY <2>1, <2>2
    <3> QED BY <1>7, <1>8, <2>4, <3>1
  <2> QED BY <2>3, <2>4
<1>9. CASE ~Joined(k) /\ task.at = "processes"
  <2>1. Cardinality(MovesTo(since, k.processes.etag)) >= 2 * task.tries BY <1>1, <1>9, ListMoved
  <2>2. ~Over(t, k) BY <1>1, <1>9 DEF Over
  <2>3. next.at = "states" /\ next.tries = task.tries BY <1>1, <1>3, <1>9, <2>2 DEF FetchesNext
  <2> QED BY <1>2, <1>3, <2>1, <2>3 DEF FreshTask
<1>10. CASE ~Joined(k) /\ task.at = "states"
  <2>1. /\ Cardinality(MovesTo(since, k.states.passport_etag)) \in Nat
        /\ Cardinality(MovesTo(since, k.states.passport_etag)) >= 2 * task.tries + 1
        /\ Cardinality(MovesTo(since, k.states.passport_etag)) <= ListMoves(since)
    BY <1>1, <1>10, StatesMoved
  <2>2. CASE Over(t, k)
    <3>1. task.tries = JoinAttempts BY <1>1, <1>10, <2>2 DEF Over
    <3>2. ListMoves(since) \in Int
      <4>1. ListMoves(since) = Cardinality(MovesTo(since, Len(published)))
        BY DEF ListMoves, MovesTo
      <4>2. Len(published) \in Nat BY <1>2 DEF Record
      <4> QED BY <1>2, <4>1, <4>2, MovesFinite
    <3>3. ListMoves(since) > 2 * JoinAttempts BY <1>4, <2>1, <3>1, <3>2
    <3> QED BY <1>6, <1>10, <2>2, <3>3
  <2>3. CASE ~Over(t, k) BY <1>7, <1>10, <2>1, <2>3
  <2> QED BY <2>2, <2>3
<1> QED BY <1>2, <1>5, <1>8, <1>9, <1>10

\* A task that is idle has nothing that could be old.
LEMMA FreshIdle ==
  ASSUME NEW c PROVE FreshTask(Idle, c)
BY IdleFields DEF FreshTask

\* What each task has stays fresh.
LEMMA FreshKept ==
  ASSUME FreshInv, Typed', Record', Onward, Turns, [Next]_vars
  PROVE  FreshReads'
<1>1. /\ Typed /\ Record /\ Reading /\ Caching /\ FreshReads /\ cache \in Snapshot /\ WellKept(cache)
      /\ Len(published) \in Nat /\ Len(published') \in Nat
  BY DEF FreshInv, Typed, Record, Caching
<1>2. \A t \in Tasks : /\ tasks[t] \in Task /\ FreshTask(tasks[t], cache)
                       /\ tasks[t].at \in {"processes", "states"} => \A what \in What : Etag(cache, what) # 0
  BY <1>1 DEF Typed, FreshReads, Caching, WellRead, Has
\* A task that stays as it is.
<1>3. ASSUME Grows, cache' = cache, NEW t \in Tasks, tasks'[t] = tasks[t]
      PROVE  FreshTask(tasks[t], cache)'
  <2>1. PICK task, c : task = tasks[t] /\ c = cache OBVIOUS
  <2>2. FreshTask(task, c)' BY <1>1, <1>2, <1>3, <2>1, FreshLater
  <2>3. task = tasks'[t] /\ c = cache' BY <1>3, <2>1
  <2> QED BY <2>2, <2>3
<1>4. ASSUME NEW t \in Tasks, tasks'[t] = Idle
      PROVE  FreshTask(tasks[t], cache)'
  <2>1. PICK task, c : task = tasks'[t] /\ c = cache' OBVIOUS
  <2>2. FreshTask(task, c)' BY <1>4, <2>1, IdleFields DEF FreshTask
  <2> QED BY <2>1, <2>2
<1>5. CASE Passes BY <1>3, <1>5 DEF Passes, FreshReads
<1>6. CASE Finishes BY <1>4, <1>6 DEF Finishes, FreshReads
<1>7. ASSUME NEW call, Asked(call)
      PROVE  FreshReads'
  BY <1>1, <1>3, <1>7 DEF Asked, Grows, FreshReads
<1>8. ASSUME NEW t \in Tasks, NEW task, Begins(t, task)
      PROVE  FreshReads'
  <2>1. /\ tasks'[t] = task /\ task.at = "three" /\ task.tries = 0 /\ task.since = Len(published)
        /\ Grows /\ cache' = cache /\ published' = published
        /\ \A u \in Tasks : u # t => tasks'[u] = tasks[u]
    BY <1>1, <1>8 DEF Begins, Grows, Typed
  <2>2. FreshTask(tasks[t], cache)'
    <3>1. Len(published) \in 1..Len(published') BY <1>1, <2>1 DEF Record
    <3> QED BY <2>1, <3>1 DEF FreshTask
  <2> QED BY <1>3, <2>1, <2>2 DEF FreshReads
<1>9. ASSUME NEW t \in Tasks, Forgets(t)
      PROVE  FreshReads'
  <2>1. Grows /\ cache' = cache /\ tasks'[t] = Idle /\ \A u \in Tasks : u # t => tasks'[u] = tasks[u]
    BY <1>1, <1>9 DEF Forgets, Grows, Typed
  <2> QED BY <1>3, <1>4, <2>1 DEF FreshReads
<1>10. ASSUME NEW m, Heard(m), Collects(m.task, m)
       PROVE  FreshReads'
  <2>1. PICK t \in Tasks : t = m.task BY <1>10, AReply DEF Heard
  <2>2. /\ Grows /\ cache' = cache /\ published' = published /\ tasks[t].at = "three"
        /\ \A u \in Tasks : u # t => tasks'[u] = tasks[u]
        /\ tasks'[t] = [tasks[t] EXCEPT !.got = Got(t, m)]
    <3>1. PICK got : got = Got(t, m) OBVIOUS
    <3>2. /\ cache' = cache /\ published' = published /\ tasks[t].at = "three"
          /\ tasks' = [tasks EXCEPT ![t] = [tasks[t] EXCEPT !.got = got]]
      BY <1>10, <2>1, <3>1 DEF Collects, Heard
    <3> QED BY <1>1, <3>1, <3>2 DEF Grows, Typed
  <2>3. FreshTask(tasks[t], cache)'
    <3>1. PICK task : task = tasks[t] OBVIOUS
    <3>2. task \in Task /\ task.at = "three" /\ FreshTask(task, cache) BY <1>2, <2>2, <3>1
    <3>3. tasks'[t].at = "three" /\ tasks'[t].since = task.since /\ tasks'[t].tries = task.tries
      BY <2>2, <3>1, <3>2 DEF Task
    <3> QED BY <2>2, <3>2, <3>3 DEF FreshTask
  <2> QED BY <1>3, <2>2, <2>3 DEF FreshReads
<1>11. ASSUME NEW m, Heard(m), NEW k \in Snapshot, k = KeptOf(m.task, m),
              tasks[m.task].at = "three" => Len(Got(m.task, m)) = 3,
              ReadsOn(m.task, k) \/ Stops(m.task, k)
       PROVE  FreshReads'
  <2>1. PICK t \in Tasks : t = m.task BY <1>11, AReply DEF Heard
  <2>2. PICK next : next = Goes(t, k) OBVIOUS
  <2>3. Keeps(t, m, k) BY <1>11, <2>1 DEF Keeps
  <2>4. /\ cache' = k /\ published' = published /\ \A u \in Tasks : u # t => tasks'[u] = tasks[u]
        /\ tasks'[t] = next \/ tasks'[t] = Idle
    BY <1>1, <1>11, <2>1, <2>2 DEF ReadsOn, Stops, Heard, Typed
  <2>5. /\ WellKept(k) /\ \A what \in What : Etag(cache, what) <= Etag(k, what)
    <3>1. WellKept(k) BY <2>3, KeepsFresh
    <3>2. \A what \in What : Etag(cache, what) <= Etag(k, what)
      BY <2>3, KeepsInTime DEF FreshInv, Keeps
    <3> QED BY <3>1, <3>2
  <2>6. ASSUME NEW task, NEW u \in Tasks, FreshTask(task, k), tasks'[u] = task
        PROVE  FreshTask(tasks[u], cache)'
    <3>1. FreshTask(task, k)'
      BY <2>4, <2>6 DEF FreshTask, Result, NotBefore, MovesTo, ListMoves, Current
    <3> QED BY <2>4, <2>6, <3>1
  <2>7. FreshTask(tasks[t], cache)' BY <1>4, <2>2, <2>3, <2>4, <2>6, FreshGoes
  <2>8. ASSUME NEW u \in Tasks, u # t
        PROVE  FreshTask(tasks[u], cache)'
    <3>1. PICK task : task = tasks[u] OBVIOUS
    <3>2. FreshTask(task, k) BY <1>1, <1>2, <1>11, <2>5, <3>1, FreshKeeping
    <3> QED BY <2>4, <2>6, <2>8, <3>1, <3>2
  <2> QED BY <2>7, <2>8 DEF FreshReads
<1> QED BY <1>1, <1>5, <1>6, <1>7, <1>8, <1>9, <1>10, <1>11, StepsOf

-----------------------------------------------------------------------------
(***************************************************************************)
(* How all that is read is in time.                                        *)
(***************************************************************************)
LEMMA DatedAtFirst ==
  ASSUME Init PROVE Dated
<1>1. published = <<First>> /\ First.processes.etag = 1 BY DEF Init, First
<1>2. Len(published) = 1 /\ published[1] = First BY <1>1
<1> QED BY <1>1, <1>2 DEF Dated

LEMMA AllInTimeAlways == Spec => []AllInTime
<1>1. ASSUME Init
      PROVE  AllInTime
  <2>1. Inv
    BY <1>1, TypedAtFirst, RecordAtFirst, OnwardAtFirst, ReadingAtFirst, TurnsAtFirst, FollowsAtFirst,
       CachingAtFirst, PlacesAtFirst
    DEF Inv
  <2>2. to_agent = <<>> /\ to_client = <<>> /\ cache = Cache /\ \A t \in Tasks : tasks[t] = Idle
    BY <1>1 DEF Init
  <2>3. Serial BY <2>2, SerialOfNothing
  <2>4. Awaited BY <2>2, IdleFields, AwaitedOfNothing DEF Awaited
  <2>5. Timely BY <2>1, <2>2, TimelyOfNothing DEF Inv
  <2>6. FreshReads BY <2>2, FreshIdle DEF FreshReads
  <2> QED BY <1>1, <2>1, <2>3, <2>4, <2>5, <2>6, DatedAtFirst DEF AllInTime, FreshInv, Inv
<1>2. ASSUME AllInTime, [Next]_vars
      PROVE  AllInTime'
  <2>1. /\ Inv /\ Serial /\ FreshInv /\ Typed /\ Record /\ Onward /\ Reading /\ Turns /\ Follows
        /\ Caching /\ Places /\ Awaited /\ Timely /\ Dated
    BY <1>2 DEF AllInTime, FreshInv, Inv
  <2>2. Typed' /\ Record' BY <1>2, <2>1, TypedKept, RecordKept
  <2>3. Onward' /\ Reading' /\ Turns' BY <1>2, <2>1, <2>2, OnwardKept, ReadingKept, TurnsKept
  <2>4. Follows' /\ Caching' /\ Places' BY <1>2, <2>1, <2>2, FollowsKept, CachingKept, PlacesKept
  <2>5. Serial' /\ Awaited' /\ Dated' BY <1>2, <2>1, SerialKept, AwaitedKept, DatedKept
  <2>6. Timely' BY <1>2, <2>1, <2>2, TimelyKept
  <2>7. FreshReads' BY <1>2, <2>1, <2>2, FreshKept
  <2> QED BY <2>2, <2>3, <2>4, <2>5, <2>6, <2>7 DEF AllInTime, FreshInv, Inv
<1> QED BY <1>1, <1>2, PTL DEF Spec

\* Nothing a call of snapshot returns is older than the call, though other
\* calls and watches read through the same tags meanwhile and keep what they
\* get; and it gives up only when the list of processes moved more than twice
\* for each attempt it may make to join the states to it (snapshot, joined and
\* keep_processes of src/remote/mod.rs).
THEOREM SnapshotsAreFresh == Spec => []SnapshotIsFresh
<1>1. ASSUME AllInTime
      PROVE  SnapshotIsFresh
  <2>1. SUFFICES ASSUME NEW t \in Callers, tasks[t].at = "done"
                 PROVE  Result(tasks[t].since, tasks[t].result)
    BY DEF SnapshotIsFresh, Result
  <2>2. t \in Tasks BY DEF Tasks
  <2>3. FreshTask(tasks[t], cache) BY <1>1, <2>2 DEF AllInTime, FreshInv, FreshReads
  <2> QED BY <2>1, <2>3 DEF FreshTask
<1> QED BY <1>1, AllInTimeAlways, PTL
=============================================================================

------------------------- MODULE ProcessTableProofs -------------------------
(***************************************************************************)
(* What holds of ProcessTable for every set of pids, images and states.    *)
(***************************************************************************)
EXTENDS ProcessTable, FiniteSetTheorems, SequenceTheorems, TLAPS

\* Any set of pids can be counted: how many run an image is a number.
LEMMA RunsFinite ==
  ASSUME NEW S \in SUBSET Pids
  PROVE  IsFiniteSet(S) /\ Cardinality(S) \in Nat
<1>1. IsFiniteSet(S)
  BY PidsFinite, FS_Subset
<1>2. QED
  BY <1>1, FS_CardinalityType

\* An entry that takes a verdict is still an entry.
LEMMA VerdictType ==
  ASSUME NEW e \in Entry, NEW v \in Nat
  PROVE  Judged(e, v) \in Entry
  BY DEF Entry, Judged

\* A count that processes join or leave is still a count, or forgotten.
LEMMA CountType ==
  ASSUME NEW r \in Running, NEW n \in Int
  PROVE  /\ [r EXCEPT !.processes = @ + n] \in Running
         /\ Dropped(r, n) \in Running \cup {None}
  BY DEF Running, Dropped

\* A running image that takes a verdict is still one.
LEMMA RunningVerdictType ==
  ASSUME NEW r \in Running, NEW v \in Nat
  PROVE  /\ RunJudged(r, v) \in Running
         /\ RunJudged(r, v).verdict = v /\ RunJudged(r, v).processes = r.processes
  BY DEF Running, RunJudged

\* A verdict the core takes leaves the table well-typed.
LEMMA TakesVerdictType ==
  ASSUME TypeOK, TakesVerdict
  PROVE  /\ processes' \in [Pids -> Entry \cup {None}]
         /\ images' \in [Images -> Running \cup {None}]
         /\ passports' \subseteq Pids
         /\ verdicts' \in Seq(Image)
         /\ newest' \in [Images -> Nat]
<1> DEFINE image == Head(verdicts)
<1>1. image \in Image /\ verdicts' \in Seq(Image)
  BY DEF TypeOK, TakesVerdict, Rest
<1>2. image.path \in Images /\ image.verdict \in Nat
  BY <1>1 DEF Image
<1>3. Given(image)
  BY DEF TakesVerdict
<1> HIDE DEF image
<1>4. CASE images[image.path] = None
  BY <1>1, <1>3, <1>4 DEF TypeOK, Given
<1>5. CASE images[image.path] # None
  <2>1. \A p \in Pids : Runs(p, image.path) => Judged(processes[p], image.verdict) \in Entry
    BY <1>2, VerdictType DEF TypeOK, Runs, Listed
  <2>2. images[image.path] \in Running
    BY <1>2, <1>5 DEF TypeOK
  <2>3. RunJudged(images[image.path], image.verdict) \in Running
    BY <1>2, <2>2, RunningVerdictType
  <2>4. processes' \in [Pids -> Entry \cup {None}]
    <3>1. processes' = [p \in Pids |-> IF Runs(p, image.path)
                                       THEN Judged(processes[p], image.verdict)
                                       ELSE processes[p]]
      BY <1>3, <1>5 DEF Given
    <3>2. QED
      BY <2>1, <3>1 DEF TypeOK
  <2>5. images' = [images EXCEPT ![image.path] = RunJudged(images[image.path], image.verdict)]
    BY <1>3, <1>5 DEF Given
  <2>6. images' \in [Images -> Running \cup {None}]
    BY <2>3, <2>5 DEF TypeOK
  <2>7. passports' \subseteq Pids
    BY <1>3, <1>5 DEF TypeOK, Given, Retold
  <2>8. newest' \in [Images -> Nat]
    <3>1. newest' = [newest EXCEPT ![image.path] =
                       IF newest[image.path] < image.verdict THEN image.verdict ELSE newest[image.path]]
      BY <1>3, <1>5 DEF Given
    <3> QED BY <1>2, <3>1 DEF TypeOK
  <2>9. QED
    BY <1>1, <2>4, <2>6, <2>7, <2>8
<1>6. QED
  BY <1>4, <1>5

\* And so does a process that joins.
LEMMA JoinsType ==
  ASSUME TypeOK, NEW p \in Pids, NEW i \in Paths, Joins(p, i)
  PROVE  /\ processes' \in [Pids -> Entry \cup {None}]
         /\ images' \in [Images -> Running \cup {None}]
         /\ requests' \in Seq(Images)
<1>1. KnownVerdict(i) \in Nat
  BY DEF TypeOK, KnownVerdict, Paths, Running
<1>2. rows[p].seq \in Nat
  BY DEF TypeOK, Joins, Row
<1>3. processes' \in [Pids -> Entry \cup {None}]
  <2>1. [seq |-> rows[p].seq, image |-> i, verdict |-> KnownVerdict(i), state |-> NoState] \in Entry
    BY <1>1, <1>2 DEF Entry
  <2>2. QED
    BY <2>1 DEF TypeOK, Joins
<1>4. ASSUME NEW im \in [Images -> Running \cup {None}], NEW j \in Paths
      PROVE  /\ Acquired(im, j) \in [Images -> Running \cup {None}]
             /\ Released(im, j) \in [Images -> Running \cup {None}]
  <2>1. CASE j = NoImage
    BY <2>1 DEF Acquired, Released
  <2>2. CASE j # NoImage /\ im[j] = None
    BY <2>2, <1>4 DEF Acquired, Released, Running, Paths
  <2>3. CASE j # NoImage /\ im[j] # None
    <3>1. im[j] \in Running /\ im[j].processes \in Int /\ j \in Images
      BY <2>3, <1>4 DEF Running, Paths
    <3>2. /\ [im[j] EXCEPT !.processes = @ + 1] \in Running
          /\ Dropped(im[j], 1) \in Running \cup {None}
      BY <3>1, CountType, 1 \in Int
    <3>3. Acquired(im, j) = [im EXCEPT ![j] = [im[j] EXCEPT !.processes = @ + 1]]
      BY <2>3, <3>1 DEF Acquired
    <3>4. Released(im, j) = [im EXCEPT ![j] = Dropped(im[j], 1)]
      BY <2>3, <3>1 DEF Released
    <3>5. QED
      BY <3>1, <3>2, <3>3, <3>4, <1>4
  <2>4. QED
    BY <2>1, <2>2, <2>3
<1>5. images' \in [Images -> Running \cup {None}]
  <2>1. Listed(p) => processes[p].image \in Paths
    BY DEF TypeOK, Listed, Entry
  <2>2. QED
    BY <1>4, <2>1 DEF TypeOK, Joins
<1>6. requests' \in Seq(Images)
  BY DEF TypeOK, Joins, Asked, Paths
<1>7. QED
  BY <1>3, <1>5, <1>6

\* And the end of a walk.
LEMMA RetainsType ==
  ASSUME TypeOK, Retains
  PROVE  images' \in [Images -> Running \cup {None}]
<1>1. ASSUME NEW i \in Images, images[i] # None
      PROVE  Dropped(images[i], Cardinality(LeavingRun(i))) \in Running \cup {None}
  <2>1. Cardinality(LeavingRun(i)) \in Nat
    BY RunsFinite DEF LeavingRun, Leaving
  <2>2. images[i] \in Running
    BY <1>1 DEF TypeOK
  <2>3. QED
    BY <2>1, <2>2, CountType, Nat \subseteq Int
<1>2. QED
  BY <1>1 DEF TypeOK, Retains

\* What the judge finds or works out is a verdict, and is kept as one.
LEMMA JudgesType ==
  ASSUME TypeOK, Judges
  PROVE  /\ judging' \in Image
         /\ judged_before' \in [Images -> BeforeIt \cup {None}]
         /\ persisted' \in [Images -> CachedVerdict \cup {None}]
<1> DEFINE verdict == VerdictOn(stamped.path, stamped.stamp)
<1>1. stamped.path \in Images /\ stamped.stamp \in Nat
  BY DEF TypeOK, Judges, Stamped
<1>2. verdict \in Nat
  BY <1>1 DEF TypeOK, VerdictOn, WorkedOut, Again, Describes, BeforeIt, CachedVerdict
<1>3. /\ judging' = [path |-> stamped.path, verdict |-> verdict]
      /\ judged_before' = JudgedBefore(stamped.path, stamped.stamp, verdict)
      /\ persisted' = Remembered(stamped.path, stamped.stamp, verdict)
  BY DEF Judges
<1> HIDE DEF verdict
<1>4. [stamp |-> stamped.stamp, verdict |-> verdict] \in BeforeIt
  BY <1>1, <1>2 DEF BeforeIt
<1>5. [stamp |-> stamped.stamp, verdict |-> verdict, resolver |-> Resolver] \in CachedVerdict
  BY <1>1, <1>2 DEF CachedVerdict, Resolver
<1>6. judging' \in Image
  BY <1>1, <1>2, <1>3 DEF Image
<1>7. judged_before' \in [Images -> BeforeIt \cup {None}]
  BY <1>1, <1>3, <1>4 DEF TypeOK, JudgedBefore
<1>8. persisted' \in [Images -> CachedVerdict \cup {None}]
  BY <1>1, <1>3, <1>5 DEF TypeOK, Remembered
<1>9. QED
  BY <1>6, <1>7, <1>8

\* Every part of the state keeps its type.
THEOREM TypeCorrect == Spec => []TypeOK
<1>1. Init => TypeOK
  <2> SUFFICES ASSUME Init PROVE TypeOK
    OBVIOUS
  <2>1. requests \in Seq(Images) /\ verdicts \in Seq(Image)
    BY EmptySeq DEF Init
  <2>2. /\ running \in [Pids -> Row \cup {None}]
        /\ judged_before \in [Images -> BeforeIt \cup {None}]
        /\ processes \in [Pids -> Entry \cup {None}]
        /\ images \in [Images -> Running \cup {None}]
        /\ rows \in [Pids -> Row \cup {None}]
        /\ told \in [Pids -> Passport \cup {None}]
        /\ toldStates \in [Pids -> ToldState \cup {None}]
    BY DEF Init
  <2>3. persisted \in [Images -> CachedVerdict \cup {None}]
    <3>1. LeftBehind \subseteq CachedVerdict \cup {None}
      BY DEF LeftBehind, CachedVerdict, Installed, Resolver
    <3>2. QED
      BY <3>1 DEF Init
  <2>4. QED
    BY <2>1, <2>2, <2>3 DEF Init, TypeOK, Installed
<1>2. TypeOK /\ [Next]_vars => TypeOK'
  <2> SUFFICES ASSUME TypeOK, [Next]_vars PROVE TypeOK'
    OBVIOUS
  <2> USE DEF machine, table, judge, kept, core, follower, history
  <2>1. ASSUME NEW p \in Pids, NEW i \in Images, Starts(p, i) PROVE TypeOK'
    <3>1. running' \in [Pids -> Row \cup {None}] /\ born' \in Nat
      BY <2>1 DEF TypeOK, Starts, Row, Paths
    <3> QED BY <2>1, <3>1 DEF TypeOK, Starts
  <2>2. ASSUME NEW p \in Pids, Ends(p) PROVE TypeOK'
    BY <2>2 DEF TypeOK, Ends
  <2>3. ASSUME NEW i \in Images, Replaced(i) \/ Removed(i) PROVE TypeOK'
    <3>1. CASE Replaced(i)
      BY <3>1 DEF TypeOK, Replaced
    <3>2. CASE Removed(i)
      <4>1. missed' \in [Pids -> BOOLEAN]
        BY <3>2 DEF Removed, TypeOK, Runs, Listed
      <4> QED BY <3>2, <4>1 DEF TypeOK, Removed
    <3> QED BY <2>3, <3>1, <3>2
  <2>4. CASE Stamps
    <3>1. Head(requests) \in Images /\ Tail(requests) \in Seq(Images)
      BY <2>4 DEF TypeOK, Stamps, Free
    <3>2. stamped' \in Stamped
      BY <2>4, <3>1 DEF TypeOK, Stamps, Stamped, NoStamp
    <3>3. QED
      BY <2>4, <3>1, <3>2 DEF TypeOK, Stamps
  <2>20. CASE TurnsAway
    <3>1. Head(requests) \in Images /\ Tail(requests) \in Seq(Images)
      BY <2>20 DEF TypeOK, TurnsAway, Free
    <3>2. judging' \in Image
      BY <2>20, <3>1 DEF TurnsAway, Image
    <3>3. QED
      BY <2>20, <3>1, <3>2 DEF TypeOK, TurnsAway
  <2>19. CASE Judges
    <3>1. UNCHANGED <<machine, table, requests, verdicts, core, follower, history>> /\ stamped' = None
      BY <2>19 DEF Judges
    <3>2. QED
      BY <2>19, <3>1, JudgesType DEF TypeOK
  <2>5. CASE Tells
    BY <2>5 DEF TypeOK, Tells, Sent
  <2>6. CASE AwaitsVerdict
    BY <2>6, TakesVerdictType DEF TypeOK, AwaitsVerdict, TakesVerdict
  <2>7. CASE Started
    BY <2>7 DEF TypeOK, Started
  <2>8. CASE Ticks
    BY <2>8 DEF TypeOK, Ticks
  <2>9. CASE TickTakesVerdict
    BY <2>9, TakesVerdictType DEF TypeOK, TickTakesVerdict, TakesVerdict
  <2>10. CASE Skips
    BY <2>10 DEF TypeOK, Skips
  <2>11. CASE Reads
    BY <2>11 DEF TypeOK, Reads
  <2>12. ASSUME NEW p \in Pids, PassesOver(p) PROVE TypeOK'
    BY <2>12 DEF TypeOK, PassesOver
  <2>13. ASSUME NEW p \in Pids, NEW i \in Paths, Joins(p, i) PROVE TypeOK'
    <3>1. gone' \subseteq Pids \X Nat
      BY <2>13 DEF TypeOK, Joins, Entry, Listed
    <3>2. since' \in [Pids -> Nat]
      BY <2>13 DEF TypeOK, Joins, Paths
    <3>3. missed' \in [Pids -> BOOLEAN]
      BY <2>13 DEF TypeOK, Joins, OutOfReach
    <3>4. QED
      BY <2>13, <3>1, <3>2, <3>3, JoinsType DEF TypeOK, Joins
  <2>14. CASE Retains
    BY <2>14, RetainsType, SMTT(20) DEF TypeOK, Retains, WalkIsOver, Leaving, Entry, Listed
  <2>15. ASSUME NEW seen \in [Pids -> States], Observes(seen) PROVE TypeOK'
    <3>1. processes' \in [Pids -> Entry \cup {None}]
      <4>1. ASSUME NEW p \in Pids, Listed(p)
            PROVE  [processes[p] EXCEPT !.state = seen[p]] \in Entry
        <5>1. processes[p] \in Entry /\ seen[p] \in States
          BY <2>15, <4>1 DEF TypeOK, Listed
        <5> QED BY <5>1 DEF Entry
      <4>2. processes' = [p \in Pids |-> IF Listed(p) THEN [processes[p] EXCEPT !.state = seen[p]]
                                                      ELSE None]
        BY <2>15 DEF Observes
      <4> QED BY <4>1, <4>2
    <3>2. states' \subseteq Pids /\ rows' \in [Pids -> Row \cup {None}] /\ unread = {}
      BY <2>15 DEF TypeOK, Observes
    <3> QED BY <2>15, <3>1, <3>2, SMTT(20) DEF TypeOK, Observes
  <2>16. CASE Takes
    BY <2>16 DEF TypeOK, Takes, Listed, Left, PassportOf, StateOf, Passport, ToldState, Entry
  <2>17. CASE UNCHANGED vars
    BY <2>17 DEF TypeOK, vars
  <2>18. QED
    BY <2>1, <2>2, <2>3, <2>4, <2>5, <2>6, <2>7, <2>8, <2>9, <2>10, <2>11, <2>12,
       <2>13, <2>14, <2>15, <2>16, <2>17, <2>19, <2>20 DEF Next, Machine, Judge, Core, Walk
<1>3. QED
  BY <1>1, <1>2, PTL DEF Spec

\* What a verdict does to the table, process by process.
LEMMA TakesVerdictEffect ==
  ASSUME TypeOK, TakesVerdict, NEW p \in Pids
  PROVE  /\ Listed(p)' <=> Listed(p)
         /\ Listed(p) => StateOf(processes'[p]) = StateOf(processes[p])
         /\ Listed(p) => processes'[p].seq = processes[p].seq
         /\ Listed(p) /\ p \notin passports' => /\ p \notin passports
                                              /\ processes'[p] = processes[p]
<1> DEFINE image == Head(verdicts)
<1>1. Given(image) /\ processes' \in [Pids -> Entry \cup {None}] /\ image.verdict \in Nat
  <2>1. image \in Image
    BY DEF TypeOK, TakesVerdict
  <2>2. QED
    BY <2>1, TakesVerdictType DEF TakesVerdict, Image
<1> HIDE DEF image
<1>2. CASE images[image.path] = None
  <2>1. processes' = processes /\ passports' = passports
    BY <1>1, <1>2 DEF Given
  <2>2. QED
    BY <2>1 DEF Listed
<1>3. CASE images[image.path] # None
  <2>1. /\ processes'[p] = IF Runs(p, image.path) THEN Judged(processes[p], image.verdict)
                                                  ELSE processes[p]
        /\ passports' = passports \cup {q \in Pids : /\ Runs(q, image.path)
                                                     /\ processes[q].verdict # image.verdict}
    BY <1>1, <1>3 DEF Given, Retold
  <2>2. CASE ~Runs(p, image.path)
    BY <2>1, <2>2 DEF Listed
  <2>3. CASE Runs(p, image.path)
    <3>1. processes[p] \in Entry
      BY <2>3 DEF TypeOK, Runs, Listed
    <3>2. processes'[p] \in Entry
      BY <2>1, <2>3, <3>1, <1>1, VerdictType
    <3>3. /\ processes'[p].seq = processes[p].seq
          /\ processes'[p].state = processes[p].state
          /\ processes[p].verdict = image.verdict => processes'[p] = processes[p]
      BY <2>1, <2>3, <3>1 DEF Judged, Entry
    <3>4. Listed(p) /\ Listed(p)'
      BY <2>3, <3>2, NoneAssumption DEF Runs, Listed
    <3>5. QED
      BY <2>1, <2>3, <3>3, <3>4 DEF StateOf
  <2>4. QED
    BY <2>2, <2>3
<1>4. QED
  BY <1>2, <1>3

\* What is marked gone is a pid with a sequence number.
LEMMA GoneTyped ==
  ASSUME TypeOK, NEW g \in gone
  PROVE  g[1] \in Pids /\ g[2] \in Nat /\ g = <<g[1], g[2]>>
  BY DEF TypeOK

\* A verdict taken marks what it changes, so the differences stay enough
\* (ProcessTable::judge).
LEMMA TakesVerdictKeepsDiffsInv ==
  ASSUME TypeOK, DiffsInv, TakesVerdict, UNCHANGED <<gone, states, core, follower>>,
         pc # "idle"
  PROVE  DiffsInv'
<1>1. Marked'
  <2> SUFFICES ASSUME NEW p \in Pids
               PROVE  (/\ Listed(p) /\ p \notin passports => told[p] = PassportOf(processes[p])
                       /\ Listed(p) /\ p \notin states => toldStates[p] = StateOf(processes[p])
                       /\ told[p] # None => Left(p) \/ (Listed(p) /\ processes[p].seq = told[p].seq)
                       /\ toldStates[p] # None => told[p] # None /\ toldStates[p].seq = told[p].seq)'
    BY DEF Marked
  <2> QED
    BY TakesVerdictEffect DEF DiffsInv, Marked, Left, follower
<1>2. GoneAreGone'
  <2> SUFFICES ASSUME NEW g \in gone
               PROVE  g[1] \notin unread /\ (~Listed(g[1])' \/ processes'[g[1]].seq # g[2])
    BY DEF GoneAreGone, core
  <2> QED
    BY TakesVerdictEffect, GoneTyped DEF DiffsInv, GoneAreGone
<1>3. TakenAtIdle'
  BY DEF DiffsInv, TakenAtIdle, core
<1>4. QED
  BY <1>1, <1>2, <1>3 DEF DiffsInv

\* Each step of the machine, the judge, the core and the follower keeps what
\* makes the differences enough.
LEMMA DiffsInvInductive == TypeOK /\ DiffsInv /\ [Next]_vars => DiffsInv'
<1> SUFFICES ASSUME TypeOK, DiffsInv, [Next]_vars PROVE DiffsInv'
  OBVIOUS
<1> USE DEF machine, table, judge, kept, core, follower, history
<1>1. ASSUME Machine \/ Judge \/ UNCHANGED vars PROVE DiffsInv'
  BY <1>1 DEF Machine, Judge, Starts, Ends, Replaced, Removed, TurnsAway, Stamps, Judges, Tells, vars,
              DiffsInv, Marked, GoneAreGone, TakenAtIdle, Listed, Left
<1>2. CASE AwaitsVerdict
  BY <1>2, TakesVerdictKeepsDiffsInv DEF AwaitsVerdict, TakesVerdict
<1>3. CASE TickTakesVerdict
  BY <1>3, TakesVerdictKeepsDiffsInv DEF TickTakesVerdict, TakesVerdict
<1>4. CASE Started \/ Ticks \/ Skips
  <2>1. UNCHANGED <<processes, gone, passports, states, told, toldStates, unread, fresh>>
    BY <1>4 DEF Started, Ticks, Skips
  <2>2. Marked' /\ GoneAreGone'
    BY <2>1 DEF DiffsInv, Marked, GoneAreGone, Listed, Left
  <2>3. TakenAtIdle'
    BY <1>4, <2>1 DEF Started, Ticks, Skips, DiffsInv, TakenAtIdle
  <2>4. QED
    BY <2>2, <2>3 DEF DiffsInv
<1>5. CASE Reads
  <2>1. UNCHANGED <<processes, gone, passports, states, told, toldStates>> /\ gone = {}
    BY <1>5 DEF Reads, DiffsInv, TakenAtIdle
  <2>2. Marked' /\ GoneAreGone'
    BY <2>1 DEF DiffsInv, Marked, GoneAreGone, Listed, Left
  <2>3. TakenAtIdle'
    BY <1>5, <2>1 DEF Reads, TakenAtIdle
  <2>4. QED
    BY <2>2, <2>3 DEF DiffsInv
<1>6. ASSUME NEW p \in Pids, PassesOver(p) PROVE DiffsInv'
  BY <1>6 DEF PassesOver, DiffsInv, Marked, GoneAreGone, TakenAtIdle, Listed, Left
<1>7. ASSUME NEW p \in Pids, NEW i \in Paths, Joins(p, i) PROVE DiffsInv'
  <2>1. /\ processes'[p] # None /\ processes'[p].seq = rows[p].seq
        /\ \A q \in Pids \ {p} : processes'[q] = processes[q]
    <3>1. processes'[p] \in Entry \cup {None}
      BY <1>7, JoinsType
    <3>2. [seq |-> rows[p].seq, image |-> i, verdict |-> KnownVerdict(i), state |-> NoState] \in Entry
      BY <1>7 DEF TypeOK, Joins, Row, Entry, KnownVerdict, Paths, Running
    <3>3. QED
      BY <1>7, <3>2, NoneAssumption DEF TypeOK, Joins
  <2>2. Marked'
    BY <1>7, <2>1 DEF Joins, DiffsInv, Marked, Listed, Left
  <2>3. GoneAreGone'
    BY <1>7, <2>1 DEF Joins, DiffsInv, GoneAreGone, Listed, Stays
  <2>4. TakenAtIdle'
    BY <1>7 DEF Joins, TakenAtIdle
  <2>5. QED
    BY <2>2, <2>3, <2>4 DEF DiffsInv
<1>8. CASE Retains
  <2>1. \A p \in Pids : processes'[p] = IF p \in Leaving THEN None ELSE processes[p]
    BY <1>8 DEF Retains
  <2>2. Marked'
    BY <1>8, <2>1 DEF Retains, WalkIsOver, DiffsInv, Marked, Listed, Left, Leaving
  <2>3. GoneAreGone'
    <3>1. unread' = {}
      BY <1>8 DEF Retains, WalkIsOver
    <3>2. ASSUME NEW g \in gone' PROVE ~Listed(g[1])' \/ processes'[g[1]].seq # g[2]
      <4>1. CASE g \in gone
        BY <4>1, <2>1, GoneTyped DEF DiffsInv, GoneAreGone, Listed
      <4>2. CASE \E p \in Leaving : g = <<p, processes[p].seq>>
        BY <4>2, <2>1 DEF Listed, Leaving
      <4>3. QED
        BY <1>8, <4>1, <4>2 DEF Retains
    <3>3. QED
      BY <3>1, <3>2 DEF GoneAreGone
  <2>4. TakenAtIdle'
    BY <1>8 DEF Retains, WalkIsOver, TakenAtIdle
  <2>5. QED
    BY <2>2, <2>3, <2>4 DEF DiffsInv
<1>9. ASSUME NEW seen \in [Pids -> States], Observes(seen) PROVE DiffsInv'
  <2>1. ASSUME NEW p \in Pids
        PROVE  /\ Listed(p)' <=> Listed(p)
               /\ Listed(p) => PassportOf(processes'[p]) = PassportOf(processes[p])
               /\ Listed(p) => processes'[p].seq = processes[p].seq
               /\ Listed(p) /\ processes[p].state = seen[p] => processes'[p] = processes[p]
    <3>1. CASE ~Listed(p)
      BY <1>9, <3>1 DEF Observes, Listed
    <3>2. CASE Listed(p)
      <4>1. processes[p] \in Entry /\ seen[p] \in States
        BY <3>2 DEF TypeOK, Listed
      <4>2. processes'[p] = [processes[p] EXCEPT !.state = seen[p]]
        BY <1>9, <3>2 DEF Observes
      <4>3. processes'[p] \in Entry
        BY <4>1, <4>2 DEF Entry
      <4>4. QED
        BY <4>1, <4>2, <4>3, <3>2, NoneAssumption DEF Entry, Listed, PassportOf
    <3>3. QED
      BY <3>1, <3>2
  <2>2. Marked'
    BY <1>9, <2>1 DEF Observes, DiffsInv, Marked, Left
  <2>3. GoneAreGone'
    <3> SUFFICES ASSUME NEW g \in gone
                 PROVE  g[1] \notin unread /\ (~Listed(g[1])' \/ processes'[g[1]].seq # g[2])
      BY <1>9 DEF Observes, GoneAreGone
    <3> QED
      BY <2>1, GoneTyped DEF DiffsInv, GoneAreGone
  <2>4. TakenAtIdle'
    BY <1>9 DEF Observes, TakenAtIdle
  <2>5. QED
    BY <2>2, <2>3, <2>4 DEF DiffsInv
<1>10. CASE Takes
  <2>1. ASSUME NEW p \in Pids, Listed(p)
        PROVE  told'[p] = PassportOf(processes[p]) /\ toldStates'[p] = StateOf(processes[p])
    <3>1. processes[p].seq \in Nat
      BY <2>1 DEF TypeOK, Listed, Entry
    <3>2. p \notin passports => ~Left(p)
      <4> SUFFICES ASSUME p \notin passports, Left(p) PROVE FALSE
        OBVIOUS
      <4>1. told[p].seq = processes[p].seq
        <5>1. told[p] = PassportOf(processes[p])
          BY <2>1 DEF DiffsInv, Marked
        <5>2. QED
          BY <5>1 DEF PassportOf
      <4>2. <<p, processes[p].seq>> \in gone
        BY <4>1 DEF Left
      <4>3. QED
        BY <2>1, <4>2 DEF DiffsInv, GoneAreGone
    <3>3. told[p] # None => Left(p) \/ processes[p].seq = told[p].seq
      BY DEF DiffsInv, Marked
    <3>4. CASE p \notin states
      <4>1. toldStates[p] = StateOf(processes[p])
        BY <2>1, <3>4 DEF DiffsInv, Marked
      <4>2. toldStates[p] # None
        BY <2>1, <4>1, NoneAssumption DEF TypeOK, Listed, StateOf, ToldState, Entry
      <4>3. ~Left(p)
        <5>1. told[p].seq = processes[p].seq
          BY <4>1, <4>2 DEF DiffsInv, Marked, StateOf
        <5>2. QED
          BY <2>1, <5>1 DEF DiffsInv, GoneAreGone, Left
      <4>4. QED
        BY <1>10, <2>1, <3>2, <4>1, <4>3 DEF Takes, DiffsInv, Marked
    <3>5. QED
      BY <1>10, <2>1, <3>2, <3>4 DEF Takes, DiffsInv, Marked
  <2>2. ASSUME NEW p \in Pids, ~Listed(p)
        PROVE  told'[p] = None /\ toldStates'[p] = None
    BY <1>10, <2>2 DEF Takes, DiffsInv, Marked, Left
  <2>3. Marked'
    <3> SUFFICES ASSUME NEW p \in Pids
                 PROVE  /\ Listed(p) => /\ told'[p] = PassportOf(processes[p])
                                        /\ toldStates'[p] = StateOf(processes[p])
                                        /\ told'[p] # None /\ toldStates'[p].seq = told'[p].seq
                                        /\ processes[p].seq = told'[p].seq
                        /\ ~Listed(p) => told'[p] = None /\ toldStates'[p] = None
      BY <1>10 DEF Takes, Marked, Listed
    <3>1. Listed(p) => /\ PassportOf(processes[p]) # None
                       /\ PassportOf(processes[p]).seq = processes[p].seq
                       /\ StateOf(processes[p]).seq = processes[p].seq
      BY NoneAssumption DEF TypeOK, Listed, PassportOf, StateOf, Passport, Entry
    <3>2. QED
      BY <2>1, <2>2, <3>1
  <2>4. GoneAreGone' /\ TakenAtIdle'
    BY <1>10 DEF Takes, GoneAreGone, TakenAtIdle
  <2>5. QED
    BY <2>3, <2>4 DEF DiffsInv
<1>11. QED
  BY <1>1, <1>2, <1>3, <1>4, <1>5, <1>6, <1>7, <1>8, <1>9, <1>10
     DEF Next, Core, Walk

\* Whoever applies every difference holds the table's processes: the
\* theorem behind the picture (src/feed.rs) being the core's.
THEOREM FollowersHoldTheTable == Spec => []DiffsSuffice
<1>1. Init => DiffsInv
  BY DEF Init, DiffsInv, Marked, GoneAreGone, TakenAtIdle, Listed, Left
<1>2. TypeOK /\ DiffsInv => DiffsSuffice
  BY DEF TypeOK, DiffsInv, Marked, TakenAtIdle, DiffsSuffice, Left
<1>3. QED
  BY <1>1, <1>2, DiffsInvInductive, TypeCorrect, PTL DEF Spec

-----------------------------------------------------------------------------
(***************************************************************************)
(* ImagesCoherent: the count of an image is the number of listed processes *)
(* that run it, and they all show its verdict.                             *)
(***************************************************************************)
RunBy(i) == {p \in Pids : Runs(p, i)}

\* The run of an image that n processes run.
Counts(run, n) == IF run = None THEN n = 0 ELSE run.processes = n /\ n > 0

AcquiredRun(run) ==
  IF run = None THEN [judged |-> FALSE, verdict |-> 0, processes |-> 1] ELSE [run EXCEPT !.processes = @ + 1]

\* A process more, and as many less as leave, keep the count right.
LEMMA CountJoins ==
  ASSUME NEW run \in Running \cup {None}, NEW n \in Nat, Counts(run, n)
  PROVE  /\ Counts(AcquiredRun(run), n + 1)
         /\ AcquiredRun(run) \in Running
         /\ run # None => AcquiredRun(run).verdict = run.verdict
         /\ AcquiredRun(run).processes = n + 1
<1>1. CASE run = None
  <2>1. [judged |-> FALSE, verdict |-> 0, processes |-> 1] \in Running
    BY DEF Running
  <2>2. [judged |-> FALSE, verdict |-> 0, processes |-> 1] # None
    BY <2>1, NoneAssumption
  <2>3. QED
    BY <1>1, <2>1, <2>2 DEF Counts, AcquiredRun
<1>2. CASE run # None
  <2>1. run \in Running /\ run.processes = n
    BY <1>2 DEF Counts
  <2>2. /\ [run EXCEPT !.processes = @ + 1] \in Running
        /\ [run EXCEPT !.processes = @ + 1].processes = n + 1
        /\ [run EXCEPT !.processes = @ + 1].verdict = run.verdict
    BY <2>1 DEF Running
  <2>3. [run EXCEPT !.processes = @ + 1] # None
    BY <2>2, NoneAssumption
  <2>4. QED
    BY <1>2, <2>2, <2>3 DEF Counts, AcquiredRun
<1>3. QED
  BY <1>1, <1>2

\* With k processes fewer off an image its count is k less, and at none left the
\* image is forgotten.
LEMMA CountLeaves ==
  ASSUME NEW run \in Running, NEW n \in Nat, NEW k \in Nat, k <= n, Counts(run, n)
  PROVE  /\ Counts(Dropped(run, k), n - k)
         /\ Dropped(run, k) # None => Dropped(run, k).verdict = run.verdict
<1>1. run # None /\ run.processes = n
  BY NoneAssumption DEF Counts
<1>2. CASE k = n
  BY <1>1, <1>2 DEF Counts, Dropped
<1>3. CASE k # n
  <2>1. /\ Dropped(run, k) \in Running
        /\ Dropped(run, k).processes = n - k
        /\ Dropped(run, k).verdict = run.verdict
    BY <1>1, <1>3 DEF Dropped, Running
  <2>2. Dropped(run, k) # None
    BY <2>1, NoneAssumption
  <2>3. QED
    BY <1>3, <2>1, <2>2 DEF Counts
<1>4. QED
  BY <1>2, <1>3

\* Counting the runs of every image says the same as ImagesCounted.
LEMMA CountedByRuns ==
  ImagesCounted <=> \A i \in Images : Counts(images[i], Cardinality(RunBy(i)))
<1> SUFFICES ASSUME NEW i \in Images
             PROVE  (IF images[i] = None THEN \A p \in Pids : ~Runs(p, i)
                     ELSE /\ images[i].processes = Cardinality({p \in Pids : Runs(p, i)})
                          /\ images[i].processes > 0)
                    <=> Counts(images[i], Cardinality(RunBy(i)))
  BY DEF ImagesCounted
<1>1. IsFiniteSet(RunBy(i)) /\ Cardinality(RunBy(i)) \in Nat
  BY RunsFinite DEF RunBy
<1>2. Cardinality(RunBy(i)) = 0 <=> \A p \in Pids : ~Runs(p, i)
  BY <1>1, FS_EmptySet DEF RunBy
<1>3. QED
  BY <1>2 DEF Counts, RunBy

Coherent(i) ==
  /\ Counts(images[i], Cardinality(RunBy(i)))
  /\ \A p \in RunBy(i) : processes[p].verdict = images[i].verdict

\* The images are coherent when each one is.
LEMMA CoherentIsAll == ImagesCoherent <=> \A i \in Images : Coherent(i)
<1>1. ASSUME NEW i \in Images, NEW p \in Pids, Runs(p, i), Counts(images[i], Cardinality(RunBy(i)))
      PROVE  images[i] # None
  <2>1. IsFiniteSet(RunBy(i)) /\ RunBy(i) # {}
    BY <1>1, RunsFinite DEF RunBy
  <2>2. Cardinality(RunBy(i)) # 0
    BY <2>1, FS_EmptySet
  <2>3. QED
    BY <1>1, <2>2 DEF Counts
<1>2. VerdictShared /\ ImagesCounted => \A i \in Images : Coherent(i)
  BY CountedByRuns DEF VerdictShared, Coherent, RunBy
<1>3. (\A i \in Images : Coherent(i)) => ImagesCounted
  BY CountedByRuns DEF Coherent
<1>4. (\A i \in Images : Coherent(i)) => VerdictShared
  BY <1>1 DEF VerdictShared, Coherent, RunBy
<1>5. QED
  BY <1>2, <1>3, <1>4 DEF ImagesCoherent

\* A step that leaves the image of each listed process, its verdict and the
\* images alone leaves them coherent.
LEMMA CoherentStays ==
  ASSUME \A i \in Images : Coherent(i), UNCHANGED images,
         \A p \in Pids : /\ Listed(p)' <=> Listed(p)
                         /\ Listed(p) => /\ processes'[p].image = processes[p].image
                                         /\ processes'[p].verdict = processes[p].verdict
  PROVE  \A i \in Images : Coherent(i)'
<1> SUFFICES ASSUME NEW i \in Images PROVE Coherent(i)'
  OBVIOUS
<1>1. RunBy(i)' = RunBy(i)
  BY DEF RunBy, Runs
<1>2. \A p \in RunBy(i) : processes'[p].verdict = processes[p].verdict
  BY DEF RunBy, Runs
<1>3. QED
  BY <1>1, <1>2 DEF Coherent

\* A verdict goes to every process of the image (ProcessTable::judge).
LEMMA VerdictKeepsCoherent ==
  ASSUME TypeOK, \A i \in Images : Coherent(i), TakesVerdict
  PROVE  \A i \in Images : Coherent(i)'
<1> DEFINE image == Head(verdicts)
<1>1. Given(image)
  BY DEF TakesVerdict
<1>2. image.path \in Images /\ image.verdict \in Nat
  <2>1. image \in Image
    BY DEF TypeOK, TakesVerdict
  <2>2. QED
    BY <2>1 DEF Image
<1> HIDE DEF image
<1>3. CASE images[image.path] = None
  BY <1>1, <1>3, CoherentStays DEF Given, Listed
<1>4. CASE images[image.path] # None
  <2>1. /\ processes' = [p \in Pids |-> IF Runs(p, image.path)
                                       THEN Judged(processes[p], image.verdict)
                                       ELSE processes[p]]
        /\ images' = [images EXCEPT ![image.path] = RunJudged(images[image.path], image.verdict)]
    BY <1>1, <1>4 DEF Given
  <2>2. ASSUME NEW p \in Pids, Runs(p, image.path)
        PROVE  /\ processes'[p] # None
               /\ processes'[p].image = image.path /\ processes'[p].verdict = image.verdict
    <3>1. processes[p] \in Entry /\ processes[p].image = image.path
      BY <2>2 DEF TypeOK, Runs, Listed
    <3>2. Judged(processes[p], image.verdict) \in Entry
      BY <3>1, <1>2, VerdictType
    <3>3. /\ Judged(processes[p], image.verdict).image = processes[p].image
          /\ Judged(processes[p], image.verdict).verdict = image.verdict
      BY <3>1 DEF Judged, Entry
    <3>4. QED
      BY <2>1, <2>2, <3>1, <3>2, <3>3, NoneAssumption
  <2>3. ASSUME NEW p \in Pids, ~Runs(p, image.path) PROVE processes'[p] = processes[p]
    BY <2>1, <2>3
  <2>4. ASSUME NEW i \in Images PROVE RunBy(i)' = RunBy(i)
    BY <2>2, <2>3 DEF RunBy, Runs, Listed
  <2>5. ASSUME NEW i \in Images, i = image.path PROVE Coherent(i)'
    <3>1. images[i] \in Running
      BY <1>4, <2>5 DEF TypeOK
    <3>2. images'[i] = RunJudged(images[i], image.verdict)
      BY <2>1, <2>5 DEF TypeOK
    <3>3. /\ images'[i] \in Running
          /\ images'[i].processes = images[i].processes
          /\ images'[i].verdict = image.verdict
      BY <3>1, <3>2, <1>2, RunningVerdictType
    <3>4. Counts(images[i], Cardinality(RunBy(i)))
      BY <2>5 DEF Coherent
    <3>5. Counts(images'[i], Cardinality(RunBy(i)))
      BY <1>4, <2>5, <3>3, <3>4, NoneAssumption DEF Counts
    <3>6. \A p \in RunBy(i) : processes'[p].verdict = images'[i].verdict
      BY <2>2, <2>5, <3>3 DEF RunBy
    <3>7. QED
      BY <2>4, <3>5, <3>6 DEF Coherent
  <2>6. ASSUME NEW i \in Images, i # image.path PROVE Coherent(i)'
    <3>1. images'[i] = images[i]
      BY <2>1, <2>6 DEF TypeOK
    <3>2. \A p \in RunBy(i) : processes'[p] = processes[p]
      BY <2>3, <2>6 DEF RunBy, Runs
    <3>3. Counts(images'[i], Cardinality(RunBy(i)))
      BY <2>6, <3>1 DEF Coherent
    <3>4. \A p \in RunBy(i) : processes'[p].verdict = images'[i].verdict
      BY <2>6, <3>1, <3>2 DEF Coherent
    <3>5. QED
      BY <2>4, <3>3, <3>4 DEF Coherent
  <2>7. QED
    BY <2>5, <2>6
<1>5. QED
  BY <1>3, <1>4

\* What a process that joins does to who runs an image.
LEMMA JoinsEffect ==
  ASSUME TypeOK, NEW p \in Pids, NEW i \in Paths, Joins(p, i)
  PROVE  /\ processes'[p] # None /\ processes'[p].image = i
         /\ processes'[p].verdict = KnownVerdict(i)
         /\ \A q \in Pids \ {p} : processes'[q] = processes[q]
         /\ \A j \in Images : RunBy(j)' = IF j = i THEN RunBy(j) \cup {p} ELSE RunBy(j) \ {p}
<1> DEFINE entry == [seq |-> rows[p].seq, image |-> i, verdict |-> KnownVerdict(i), state |-> NoState]
<1>1. entry \in Entry
  BY DEF TypeOK, Joins, Row, Entry, KnownVerdict, Paths, Running
<1>2. processes' = [processes EXCEPT ![p] = entry]
  BY DEF Joins
<1>3. entry.image = i /\ entry.verdict = KnownVerdict(i)
  OBVIOUS
<1> HIDE DEF entry
<1>4. processes'[p] = entry /\ entry # None
  BY <1>1, <1>2, NoneAssumption DEF TypeOK
<1>5. \A q \in Pids \ {p} : processes'[q] = processes[q]
  BY <1>2 DEF TypeOK
<1>6. \A j \in Images : RunBy(j)' = IF j = i THEN RunBy(j) \cup {p} ELSE RunBy(j) \ {p}
  BY <1>3, <1>4, <1>5 DEF RunBy, Runs, Listed
<1>7. QED
  BY <1>3, <1>4, <1>5, <1>6

\* And to the run of each image: one process more, one less, or both.
LEMMA JoinsImages ==
  ASSUME TypeOK, NEW p \in Pids, NEW i \in Paths, Joins(p, i), NEW j \in Images, Coherent(j)
  PROVE  images'[j] =
           LET run == IF j = i THEN AcquiredRun(images[j]) ELSE images[j]
           IN IF p \in RunBy(j) THEN Dropped(run, 1) ELSE run
<1> DEFINE run == IF j = i THEN AcquiredRun(images[j]) ELSE images[j]
           acquired == Acquired(images, i)
           old == processes[p].image
<1>1. acquired[j] = run /\ acquired \in [Images -> Running \cup {None}]
  <2>1. images \in [Images -> Running \cup {None}]
    BY DEF TypeOK
  <2>2. CASE i = NoImage
    BY <2>1, <2>2, ImagesAssumption DEF Acquired
  <2>3. CASE i \in Images
    <3>1. acquired = [images EXCEPT ![i] = AcquiredRun(images[i])]
      BY <2>3, ImagesAssumption DEF Acquired, AcquiredRun
    <3>2. AcquiredRun(images[i]) \in Running
      BY <2>1, <2>3 DEF AcquiredRun, Running
    <3>3. QED
      BY <2>1, <2>3, <3>1, <3>2
  <2>4. QED
    BY <2>2, <2>3 DEF Paths
<1>2. images' = IF Listed(p) THEN Released(acquired, old) ELSE acquired
  BY DEF Joins
<1> HIDE DEF acquired
<1>3. CASE p \in RunBy(j)
  <2>1. Listed(p) /\ old = j /\ j # NoImage
    BY <1>3, ImagesAssumption DEF RunBy, Runs
  <2>2. images[j] # None
    <3>1. Cardinality(RunBy(j)) # 0
      BY <1>3, RunsFinite, FS_EmptySet DEF RunBy
    <3>2. QED
      BY <3>1 DEF Coherent, Counts
  <2>3. run # None
    <3>1. images[j] \in Running
      BY <2>2 DEF TypeOK
    <3>2. AcquiredRun(images[j]) \in Running
      BY <3>1 DEF AcquiredRun, Running
    <3>3. QED
      BY <2>2, <3>2, NoneAssumption
  <2>4. images' = [acquired EXCEPT ![j] = Dropped(acquired[j], 1)]
    BY <1>1, <1>2, <2>1, <2>3 DEF Released
  <2>5. QED
    BY <1>1, <1>3, <2>4
<1>4. CASE p \notin RunBy(j)
  <2>1. Listed(p) => old # j
    BY <1>4 DEF RunBy, Runs
  <2>2. images'[j] = acquired[j]
    BY <1>1, <1>2, <2>1 DEF Released
  <2>3. QED
    BY <1>1, <1>4, <2>2
<1>5. QED
  BY <1>3, <1>4

\* A process that joins is counted, the one it replaces no more, and it shows
\* the verdict known (reconcile).
LEMMA JoinsKeepsCoherent ==
  ASSUME TypeOK, \A j \in Images : Coherent(j), NEW p \in Pids, NEW i \in Paths, Joins(p, i)
  PROVE  \A j \in Images : Coherent(j)'
<1> SUFFICES ASSUME NEW j \in Images PROVE Coherent(j)'
  OBVIOUS
<1> DEFINE n == Cardinality(RunBy(j))
<1>1. /\ IsFiniteSet(RunBy(j)) /\ n \in Nat /\ RunBy(j) \in SUBSET Pids
      /\ images[j] \in Running \cup {None} /\ Counts(images[j], n)
  BY RunsFinite DEF RunBy, TypeOK, Coherent
<1>2. /\ RunBy(j)' = IF j = i THEN RunBy(j) \cup {p} ELSE RunBy(j) \ {p}
      /\ processes'[p].verdict = KnownVerdict(i)
      /\ \A q \in Pids \ {p} : processes'[q] = processes[q]
  BY JoinsEffect
<1>3. \A q \in RunBy(j) : processes[q].verdict = images[j].verdict
  BY DEF Coherent
<1>4. p \in RunBy(j) => n > 0 /\ images[j] \in Running
  <2>1. p \in RunBy(j) => n # 0
    BY <1>1, FS_EmptySet
  <2>2. QED
    BY <1>1, <2>1 DEF Counts
<1>5. CASE j = i /\ p \notin RunBy(j)
  <2>1. images'[j] = AcquiredRun(images[j])
    BY <1>5, JoinsImages
  <2>2. Cardinality(RunBy(j) \cup {p}) = n + 1
    BY <1>1, <1>5, FS_AddElement
  <2>3. Counts(images'[j], Cardinality(RunBy(j)'))
    BY <1>1, <1>2, <1>5, <2>1, <2>2, CountJoins
  <2>4. KnownVerdict(i) = images'[j].verdict
    <3>1. CASE images[j] = None
      BY <1>5, <2>1, <3>1, ImagesAssumption DEF KnownVerdict, AcquiredRun
    <3>2. CASE images[j] # None
      BY <1>1, <1>5, <2>1, <3>2, CountJoins, ImagesAssumption DEF KnownVerdict
    <3>3. QED
      BY <3>1, <3>2
  <2>5. \A q \in RunBy(j) : images'[j].verdict = images[j].verdict
    <3> SUFFICES ASSUME NEW q \in RunBy(j) PROVE images'[j].verdict = images[j].verdict
      OBVIOUS
    <3>1. n # 0
      BY <1>1, FS_EmptySet
    <3>2. QED
      BY <1>1, <2>1, <3>1, CountJoins DEF Counts
  <2>6. \A q \in RunBy(j)' : processes'[q].verdict = images'[j].verdict
    BY <1>1, <1>2, <1>3, <1>5, <2>4, <2>5
  <2>7. QED
    BY <2>3, <2>6 DEF Coherent
<1>6. CASE j = i /\ p \in RunBy(j)
  <2>1. images'[j] = Dropped(AcquiredRun(images[j]), 1)
    BY <1>6, JoinsImages
  <2>2. RunBy(j)' = RunBy(j)
    BY <1>2, <1>6
  <2>3. /\ AcquiredRun(images[j]) \in Running
        /\ Counts(AcquiredRun(images[j]), n + 1)
        /\ AcquiredRun(images[j]).verdict = images[j].verdict
    BY <1>1, <1>4, <1>6, CountJoins, NoneAssumption
  <2>4. /\ Counts(images'[j], n)
        /\ images'[j] # None => images'[j].verdict = images[j].verdict
    <3>1. n + 1 \in Nat /\ 1 <= n + 1 /\ (n + 1) - 1 = n
      BY <1>1
    <3>2. QED
      BY <2>1, <2>3, <3>1, CountLeaves
  <2>5. images'[j].verdict = images[j].verdict
    BY <1>4, <1>6, <2>4 DEF Counts
  <2>6. KnownVerdict(i) = images[j].verdict
    BY <1>4, <1>6, NoneAssumption, ImagesAssumption DEF KnownVerdict
  <2>7. \A q \in RunBy(j)' : processes'[q].verdict = images'[j].verdict
    BY <1>1, <1>2, <1>3, <2>2, <2>5, <2>6
  <2>8. QED
    BY <2>2, <2>4, <2>7 DEF Coherent
<1>7. CASE j # i /\ p \in RunBy(j)
  <2>1. images'[j] = Dropped(images[j], 1)
    BY <1>7, JoinsImages
  <2>2. RunBy(j)' = RunBy(j) \ {p} /\ Cardinality(RunBy(j) \ {p}) = n - 1
    BY <1>1, <1>2, <1>7, FS_RemoveElement
  <2>3. /\ Counts(images'[j], n - 1)
        /\ images'[j] # None => images'[j].verdict = images[j].verdict
    <3>1. 1 \in Nat /\ 1 <= n
      BY <1>1, <1>4, <1>7
    <3>2. QED
      BY <1>1, <1>4, <1>7, <2>1, <3>1, CountLeaves
  <2>4. \A q \in RunBy(j)' : processes'[q].verdict = images'[j].verdict
    <3> SUFFICES ASSUME NEW q \in RunBy(j) \ {p} PROVE processes'[q].verdict = images'[j].verdict
      BY <2>2
    <3>1. n - 1 # 0
      <4> DEFINE others == RunBy(j) \ {p}
      <4>1. IsFiniteSet(others) /\ others # {} /\ Cardinality(others) = n - 1
        BY <1>1, <2>2, FS_RemoveElement
      <4> HIDE DEF others
      <4>2. Cardinality(others) # 0
        BY <4>1, FS_EmptySet
      <4>3. QED
        BY <4>1, <4>2
    <3>2. images'[j].verdict = images[j].verdict
      BY <2>3, <3>1 DEF Counts
    <3>3. q \in RunBy(j) /\ q \in Pids \ {p}
      BY <1>1
    <3>4. QED
      BY <1>2, <1>3, <3>2, <3>3
  <2>5. QED
    BY <2>2, <2>3, <2>4 DEF Coherent
<1>8. CASE j # i /\ p \notin RunBy(j)
  <2>1. images'[j] = images[j]
    BY <1>8, JoinsImages
  <2>2. RunBy(j)' = RunBy(j)
    BY <1>2, <1>8
  <2>3. \A q \in RunBy(j)' : processes'[q].verdict = images'[j].verdict
    BY <1>1, <1>2, <1>3, <1>8, <2>1, <2>2
  <2>4. QED
    BY <1>1, <2>1, <2>2, <2>3 DEF Coherent
<1>9. QED
  BY <1>5, <1>6, <1>7, <1>8

\* What leaves at the end of a walk is counted off, image by image.
LEMMA RetainsKeepsCoherent ==
  ASSUME TypeOK, \A j \in Images : Coherent(j), Retains
  PROVE  \A j \in Images : Coherent(j)'
<1> SUFFICES ASSUME NEW j \in Images PROVE Coherent(j)'
  OBVIOUS
<1> DEFINE n == Cardinality(RunBy(j))
           k == Cardinality(LeavingRun(j))
<1>1. /\ IsFiniteSet(RunBy(j)) /\ n \in Nat /\ RunBy(j) \in SUBSET Pids
      /\ images[j] \in Running \cup {None} /\ Counts(images[j], n)
      /\ \A q \in RunBy(j) : processes[q].verdict = images[j].verdict
  BY RunsFinite DEF RunBy, TypeOK, Coherent
<1>2. /\ LeavingRun(j) \in SUBSET RunBy(j) /\ LeavingRun(j) \in SUBSET Pids
      /\ k \in Nat /\ k <= n
  <2>1. LeavingRun(j) \in SUBSET RunBy(j) /\ LeavingRun(j) \in SUBSET Pids
    BY DEF LeavingRun, Leaving, RunBy, Runs
  <2>2. QED
    BY <1>1, <2>1, RunsFinite, FS_Subset
<1>3. \A p \in Pids : processes'[p] = IF p \in Leaving THEN None ELSE processes[p]
  BY DEF Retains
<1>4. RunBy(j)' = RunBy(j) \ LeavingRun(j)
  BY <1>3 DEF RunBy, Runs, Listed, LeavingRun, Leaving
<1>5. \A q \in RunBy(j)' : q \in RunBy(j) /\ processes'[q] = processes[q]
  BY <1>1, <1>3, <1>4 DEF LeavingRun, RunBy, Runs
<1>6. images'[j] = IF images[j] = None \/ LeavingRun(j) = {} THEN images[j]
                   ELSE Dropped(images[j], k)
  BY DEF Retains
<1>7. CASE images[j] = None \/ LeavingRun(j) = {}
  <2>1. RunBy(j)' = RunBy(j)
    <3>1. images[j] = None => RunBy(j) = {}
      BY <1>1, FS_EmptySet DEF Counts
    <3>2. QED
      BY <1>4, <1>7, <3>1
  <2>2. images'[j] = images[j]
    BY <1>6, <1>7
  <2>3. \A q \in RunBy(j)' : processes'[q].verdict = images'[j].verdict
    BY <1>1, <1>5, <2>2
  <2>4. QED
    BY <1>1, <2>1, <2>2, <2>3 DEF Coherent
<1>8. CASE ~(images[j] = None \/ LeavingRun(j) = {})
  <2>1. images'[j] = Dropped(images[j], k) /\ images[j] \in Running
    BY <1>1, <1>6, <1>8
  <2>2. /\ Counts(images'[j], n - k)
        /\ images'[j] # None => images'[j].verdict = images[j].verdict
    BY <1>1, <1>2, <2>1, CountLeaves
  <2>3. Cardinality(RunBy(j)') = n - k /\ IsFiniteSet(RunBy(j)')
    <3>1. RunBy(j) \cap LeavingRun(j) = LeavingRun(j)
      BY <1>2
    <3>2. QED
      BY <1>1, <1>4, <3>1, FS_Difference
  <2>4. ASSUME NEW q \in RunBy(j)' PROVE processes'[q].verdict = images'[j].verdict
    <3>1. n - k # 0
      BY <2>3, <2>4, FS_EmptySet
    <3>2. images'[j].verdict = images[j].verdict
      BY <2>2, <3>1 DEF Counts
    <3>3. QED
      BY <1>1, <1>5, <2>4, <3>2
  <2>5. QED
    BY <2>2, <2>3, <2>4 DEF Coherent
<1>9. QED
  BY <1>7, <1>8

\* A sample moves the states alone (observe).
LEMMA ObservesKeepsCoherent ==
  ASSUME TypeOK, \A j \in Images : Coherent(j), NEW seen \in [Pids -> States], Observes(seen)
  PROVE  \A j \in Images : Coherent(j)'
<1>1. ASSUME NEW p \in Pids, Listed(p)
      PROVE  /\ Listed(p)' /\ processes'[p].image = processes[p].image
             /\ processes'[p].verdict = processes[p].verdict
  <2>1. processes[p] \in Entry /\ seen[p] \in States
    BY <1>1 DEF TypeOK, Listed
  <2>2. processes'[p] = [processes[p] EXCEPT !.state = seen[p]]
    BY <1>1 DEF Observes
  <2>3. processes'[p] \in Entry
    BY <2>1, <2>2 DEF Entry
  <2>4. QED
    BY <2>1, <2>2, <2>3, NoneAssumption DEF Entry, Listed
<1>2. ASSUME NEW p \in Pids, ~Listed(p) PROVE ~Listed(p)'
  BY <1>2 DEF Observes, Listed
<1>3. UNCHANGED images
  BY DEF Observes
<1>4. QED
  BY <1>1, <1>2, <1>3, CoherentStays

\* The count of an image is the number of the listed processes that run it,
\* and they all show its verdict, however pids change hands, verdicts come
\* late and walks are read off.
THEOREM ImagesStayCoherent == Spec => []ImagesCoherent
<1>1. Init => ImagesCoherent
  BY DEF Init, ImagesCoherent, ImagesCounted, VerdictShared, Runs, Listed
<1>2. ImagesCoherent' <=> (\A i \in Images : Coherent(i))'
  BY CoherentIsAll, PTL
<1>3. TypeOK /\ ImagesCoherent /\ [Next]_vars => ImagesCoherent'
  <2> SUFFICES ASSUME TypeOK, ImagesCoherent, [Next]_vars PROVE \A i \in Images : Coherent(i)'
    BY <1>2
  <2>1. \A i \in Images : Coherent(i)
    BY CoherentIsAll
  <2> USE DEF machine, table, judge, kept, core, follower, history
  <2>2. CASE UNCHANGED <<processes, images>>
    BY <2>1, <2>2, CoherentStays DEF Listed
  <2>3. CASE Machine \/ Judge \/ UNCHANGED vars
    <3>1. UNCHANGED <<processes, images>>
      BY <2>3 DEF Machine, Judge, Starts, Ends, Replaced, Removed, TurnsAway, Stamps, Judges, Tells, vars
    <3>2. QED
      BY <2>2, <3>1
  <2>4. CASE Started \/ Ticks \/ Skips \/ Reads \/ Takes \/ \E p \in Pids : PassesOver(p)
    <3>1. UNCHANGED <<processes, images>>
      BY <2>4 DEF Started, Ticks, Skips, Reads, Takes, PassesOver
    <3>2. QED
      BY <2>2, <3>1
  <2>5. CASE AwaitsVerdict \/ TickTakesVerdict
    BY <2>1, <2>5, VerdictKeepsCoherent DEF AwaitsVerdict, TickTakesVerdict
  <2>6. CASE \E p \in Pids, i \in Paths : Joins(p, i)
    BY <2>1, <2>6, JoinsKeepsCoherent
  <2>7. CASE Retains
    BY <2>1, <2>7, RetainsKeepsCoherent
  <2>8. CASE \E seen \in [Pids -> States] : Observes(seen)
    BY <2>1, <2>8, ObservesKeepsCoherent
  <2>9. QED
    BY <2>3, <2>4, <2>5, <2>6, <2>7, <2>8 DEF Next, Core, Walk
<1>4. QED
  BY <1>1, <1>3, TypeCorrect, PTL DEF Spec

-----------------------------------------------------------------------------
(***************************************************************************)
(* Verdicts come in order and no process keeps one older than its start:   *)
(* what the judge and its two memories promise, and what is owed to each   *)
(* listed process.                                                         *)
(***************************************************************************)
\* What is remembered of this run is remembered for the next.  A verdict of
\* this build was given on the file it is kept for or on one after it, or on
\* none, and then the file it is kept for is gone for good.
KeptWell ==
  \A i \in Images :
    /\ judged_before[i] # None => /\ Describes(i, judged_before[i].stamp)
                                  /\ persisted[i].verdict = judged_before[i].verdict
    /\ persisted[i] # None /\ persisted[i].resolver = Resolver =>
         /\ persisted[i].stamp # NoStamp
         /\ persisted[i].stamp <= file[i] /\ persisted[i].verdict <= file[i]
         /\ \/ persisted[i].stamp <= persisted[i].verdict
            \/ persisted[i].verdict = 0 /\ (persisted[i].stamp < file[i] \/ i \notin there)

\* The judge is at one thing at a time; the stamp it holds is of the file as
\* it was, and what is kept by that stamp is a verdict on the file.
OneRequest ==
  stamped # None =>
    /\ judging = None
    /\ stamped.stamp <= file[stamped.path]
    /\ stamped.stamp # NoStamp /\ Describes(stamped.path, stamped.stamp) =>
         stamped.stamp <= persisted[stamped.path].verdict

\* Verdict v on image i is by default or no older than those shown.
NotOlder(i, v) == v = 0 \/ newest[i] <= v

\* No verdict on its way, no file being judged and no file there is older
\* than a verdict shown, nor than a verdict on its way before it.
InOrder ==
  /\ \A i \in Images : newest[i] <= file[i]
  /\ stamped # None =>
       /\ NotOlder(stamped.path, stamped.stamp)
       /\ \A n \in 1..Len(verdicts) :
            verdicts[n].path = stamped.path /\ stamped.stamp # NoStamp
              => verdicts[n].verdict <= stamped.stamp
  /\ judging # None =>
       /\ judging.verdict <= file[judging.path]
       /\ NotOlder(judging.path, judging.verdict)
       /\ \A n \in 1..Len(verdicts) :
            verdicts[n].path = judging.path /\ judging.verdict # 0
              => verdicts[n].verdict <= judging.verdict
  /\ \A n \in 1..Len(verdicts) :
       /\ verdicts[n].verdict <= file[verdicts[n].path]
       /\ NotOlder(verdicts[n].path, verdicts[n].verdict)
  /\ \A m, n \in 1..Len(verdicts) :
       m <= n /\ verdicts[m].path = verdicts[n].path /\ verdicts[n].verdict # 0
         => verdicts[m].verdict <= verdicts[n].verdict
  /\ \A i \in Images : images[i] # None => images[i].verdict \in {0, newest[i]}

\* A verdict that does for process p of image i is still to come, after the
\* n-th of those on their way.
InTheQueue(i) == \E n \in 1..Len(requests) : requests[n] = i
StampDoes(p, stamp) == stamp = NoStamp \/ since[p] <= stamp
Owed(p, i, n) ==
  \/ InTheQueue(i)
  \/ stamped # None /\ stamped.path = i /\ StampDoes(p, stamped.stamp)
  \/ judging # None /\ judging.path = i /\ Does(p, judging.verdict)
  \/ \E m \in 1..Len(verdicts) : n < m /\ verdicts[m].path = i /\ Does(p, verdicts[m].verdict)

\* Every verdict shown to a process, on its way or to be given that does not
\* do for it is followed by one that does.
DueTo(p, i) ==
  /\ since[p] <= file[i]
  /\ OutOfReach(i) => missed[p]
  /\ Does(p, processes[p].verdict) \/ Owed(p, i, 0)
  /\ \A n \in 1..Len(verdicts) :
       verdicts[n].path = i => Does(p, verdicts[n].verdict) \/ Owed(p, i, n)
  /\ judging # None /\ judging.path = i => Does(p, judging.verdict) \/ InTheQueue(i)
  /\ stamped # None /\ stamped.path = i => StampDoes(p, stamped.stamp) \/ InTheQueue(i)
Due == \A p \in Pids, i \in Images : Runs(p, i) => DueTo(p, i)

JudgeInv == KeptWell /\ OneRequest /\ InOrder /\ Due

\* The numbers these compare are numbers.
LEMMA JudgeTyped ==
  ASSUME TypeOK
  PROVE  /\ \A i \in Images :
              /\ file[i] \in Nat /\ newest[i] \in Nat
              /\ images[i] # None => images[i].verdict \in Nat
              /\ judged_before[i] # None => /\ judged_before[i].stamp \in Nat
                                            /\ judged_before[i].verdict \in Nat
              /\ persisted[i] # None => /\ persisted[i].stamp \in Nat
                                        /\ persisted[i].verdict \in Nat
         /\ stamped # None => stamped.path \in Images /\ stamped.stamp \in Nat
         /\ judging # None => judging.path \in Images /\ judging.verdict \in Nat
         /\ \A n \in 1..Len(verdicts) : /\ verdicts[n].path \in Images
                                        /\ verdicts[n].verdict \in Nat
         /\ \A p \in Pids : /\ since[p] \in Nat
                            /\ Listed(p) => processes[p].verdict \in Nat
<1>1. ASSUME NEW i \in Images
      PROVE  /\ file[i] \in Nat /\ newest[i] \in Nat
             /\ images[i] # None => images[i].verdict \in Nat
             /\ judged_before[i] # None => /\ judged_before[i].stamp \in Nat
                                           /\ judged_before[i].verdict \in Nat
             /\ persisted[i] # None => /\ persisted[i].stamp \in Nat
                                       /\ persisted[i].verdict \in Nat
  BY <1>1 DEF TypeOK, Running, BeforeIt, CachedVerdict
<1>2. /\ stamped # None => stamped.path \in Images /\ stamped.stamp \in Nat
      /\ judging # None => judging.path \in Images /\ judging.verdict \in Nat
  BY DEF TypeOK, Stamped, Image
<1>3. ASSUME NEW n \in 1..Len(verdicts)
      PROVE  verdicts[n].path \in Images /\ verdicts[n].verdict \in Nat
  <2>1. verdicts[n] \in Image
    BY DEF TypeOK
  <2> QED BY <2>1 DEF Image
<1>4. ASSUME NEW p \in Pids
      PROVE  since[p] \in Nat /\ (Listed(p) => processes[p].verdict \in Nat)
  BY DEF TypeOK, Listed, Entry
<1> QED BY <1>1, <1>2, <1>3, <1>4

\* A step that leaves the files and the judge alone, and of each process and
\* each image leaves the verdict or takes it off the list, keeps what is owed.
LEMMA TableKeepsJudgeInv ==
  ASSUME TypeOK, JudgeInv, UNCHANGED <<file, there, judge, newest>>,
         \A i \in Images : images'[i] # None =>
           \/ images[i] # None /\ images'[i].verdict = images[i].verdict
           \/ images'[i].verdict = 0,
         \A p \in Pids, i \in Images :
           Runs(p, i)' => /\ Runs(p, i) /\ since'[p] = since[p] /\ missed'[p] = missed[p]
                          /\ processes'[p].verdict = processes[p].verdict
  PROVE  JudgeInv'
<1>0. /\ file' = file /\ there' = there /\ requests' = requests /\ stamped' = stamped
      /\ judging' = judging /\ verdicts' = verdicts /\ judged_before' = judged_before
      /\ persisted' = persisted /\ newest' = newest
  BY DEF judge, kept
<1>1. KeptWell' /\ OneRequest'
  BY <1>0 DEF JudgeInv, KeptWell, OneRequest, Describes
<1>2. InOrder'
  <2>1. ASSUME NEW i \in Images, images'[i] # None
        PROVE  images'[i].verdict \in {0, newest[i]}
    BY <2>1 DEF JudgeInv, InOrder
  <2> QED BY <1>0, <2>1 DEF JudgeInv, InOrder, NotOlder
<1>3. Due'
  <2> SUFFICES ASSUME NEW p \in Pids, NEW i \in Images, Runs(p, i)' PROVE DueTo(p, i)'
    BY DEF Due
  <2>1. /\ Runs(p, i) /\ since'[p] = since[p] /\ missed'[p] = missed[p]
        /\ processes'[p].verdict = processes[p].verdict
    OBVIOUS
  <2>2. DueTo(p, i)
    BY <2>1 DEF JudgeInv, Due
  <2> QED BY <1>0, <2>1, <2>2 DEF DueTo, Owed, Does, StampDoes, InTheQueue, OutOfReach
<1> QED BY <1>1, <1>2, <1>3 DEF JudgeInv

\* A file written, or put back, is later than every verdict on it.
LEMMA ReplacedKeepsJudgeInv ==
  ASSUME TypeOK, JudgeInv, NEW i \in Images, Replaced(i)
  PROVE  JudgeInv'
<1>1. /\ UNCHANGED <<processes, images, requests, stamped, judging, verdicts, judged_before,
                     persisted, since, missed, newest>>
      /\ i \notin Remote /\ there' = there \cup {i}
      /\ file'[i] = file[i] + 1 /\ \A j \in Images : j # i => file'[j] = file[j]
      /\ \A j \in Images : file'[j] \in Nat /\ file[j] <= file'[j]
  BY DEF Replaced, table, judge, kept, history, TypeOK
<1>2. KeptWell'
  <2> SUFFICES ASSUME NEW j \in Images, persisted[j] # None, persisted[j].resolver = Resolver
               PROVE  /\ persisted[j].stamp # NoStamp
                      /\ persisted[j].stamp <= file'[j] /\ persisted[j].verdict <= file'[j]
                      /\ \/ persisted[j].stamp <= persisted[j].verdict
                         \/ /\ persisted[j].verdict = 0
                            /\ persisted[j].stamp < file'[j] \/ j \notin there'
    BY <1>1 DEF JudgeInv, KeptWell, Describes
  <2>1. /\ persisted[j].stamp # NoStamp
        /\ persisted[j].stamp <= file[j] /\ persisted[j].verdict <= file[j]
        /\ \/ persisted[j].stamp <= persisted[j].verdict
           \/ persisted[j].verdict = 0 /\ (persisted[j].stamp < file[j] \/ j \notin there)
    BY DEF JudgeInv, KeptWell
  <2>2. file[j] \in Nat /\ persisted[j].stamp \in Nat /\ persisted[j].verdict \in Nat
    BY JudgeTyped
  <2>3. CASE j = i
    BY <1>1, <2>1, <2>2, <2>3
  <2>4. CASE j # i
    BY <1>1, <2>1, <2>2, <2>4
  <2> QED BY <2>3, <2>4
<1>3. OneRequest'
  BY <1>1, JudgeTyped DEF JudgeInv, OneRequest, Describes
<1>4. InOrder'
  <2>1. \A j \in Images : newest[j] <= file'[j]
    BY <1>1, JudgeTyped DEF JudgeInv, InOrder
  <2>2. judging # None => judging.verdict <= file'[judging.path]
    BY <1>1, JudgeTyped DEF JudgeInv, InOrder
  <2>3. \A n \in 1..Len(verdicts) : verdicts[n].verdict <= file'[verdicts[n].path]
    BY <1>1, JudgeTyped DEF JudgeInv, InOrder
  <2> QED BY <1>1, <2>1, <2>2, <2>3 DEF JudgeInv, InOrder, NotOlder
<1>5. Due'
  <2> SUFFICES ASSUME NEW p \in Pids, NEW j \in Images, Runs(p, j) PROVE DueTo(p, j)'
    BY <1>1 DEF Due, Runs, Listed
  <2>1. DueTo(p, j)
    BY DEF JudgeInv, Due
  <2>2. since[p] <= file'[j] /\ (OutOfReach(j)' => OutOfReach(j))
    BY <1>1, <2>1, JudgeTyped DEF DueTo, OutOfReach
  <2> QED BY <1>1, <2>1, <2>2 DEF DueTo, Owed, Does, StampDoes, InTheQueue
<1> QED BY <1>2, <1>3, <1>4, <1>5 DEF JudgeInv

\* A file that goes is missed by every process of it.
LEMMA RemovedKeepsJudgeInv ==
  ASSUME TypeOK, JudgeInv, NEW i \in Images, Removed(i)
  PROVE  JudgeInv'
<1>1. /\ UNCHANGED <<processes, images, file, requests, stamped, judging, verdicts,
                     judged_before, persisted, since, newest>>
      /\ there' = there \ {i}
      /\ \A p \in Pids : missed'[p] = (missed[p] \/ Runs(p, i))
  BY DEF Removed, table, judge, kept
<1>2. KeptWell' /\ OneRequest' /\ InOrder'
  BY <1>1 DEF JudgeInv, KeptWell, OneRequest, InOrder, NotOlder, Describes
<1>3. Due'
  <2> SUFFICES ASSUME NEW p \in Pids, NEW j \in Images, Runs(p, j) PROVE DueTo(p, j)'
    BY <1>1 DEF Due, Runs, Listed
  <2>1. DueTo(p, j)
    BY DEF JudgeInv, Due
  <2>2. OutOfReach(j)' => missed'[p]
    BY <1>1, <2>1 DEF DueTo, OutOfReach
  <2>3. \A v : Does(p, v) => Does(p, v)'
    BY <1>1 DEF Does
  <2>4. \A n : Owed(p, j, n) => Owed(p, j, n)'
    BY <1>1 DEF Owed, Does, StampDoes, InTheQueue
  <2> QED BY <1>1, <2>1, <2>2, <2>3, <2>4 DEF DueTo, Does, StampDoes, InTheQueue
<1> QED BY <1>2, <1>3 DEF JudgeInv

\* A request the judge takes was for its image or leaves the others in the
\* queue.
LEMMA HeadLeaves ==
  ASSUME requests \in Seq(Images), requests # <<>>, requests' = Tail(requests), NEW i \in Images
  PROVE  InTheQueue(i) => Head(requests) = i \/ InTheQueue(i)'
<1> SUFFICES ASSUME NEW n \in 1..Len(requests), requests[n] = i, Head(requests) # i
             PROVE  InTheQueue(i)'
  BY DEF InTheQueue
<1>1. n # 1
  OBVIOUS
<1>2. n - 1 \in 1..Len(requests') /\ requests'[n - 1] = i
  BY <1>1
<1> QED BY <1>2 DEF InTheQueue

\* The default verdict does for whoever runs an image out of reach.
LEMMA TurnsAwayKeepsJudgeInv ==
  ASSUME TypeOK, JudgeInv, TurnsAway
  PROVE  JudgeInv'
<1> DEFINE h == Head(requests)
<1>0. requests \in Seq(Images) /\ requests # <<>> /\ h \in Images
  BY DEF TypeOK, TurnsAway, Free
<1>1. /\ UNCHANGED <<processes, images, file, there, stamped, verdicts, judged_before, persisted,
                     since, missed, newest>>
      /\ judging = None /\ stamped = None
      /\ requests' = Tail(requests) /\ OutOfReach(h)
      /\ judging' = [path |-> h, verdict |-> 0]
  BY DEF TurnsAway, Free, machine, table, kept, history
<1>2. judging' # None /\ judging'.path = h /\ judging'.verdict = 0
  <2>1. [path |-> h, verdict |-> 0] \in Image
    BY <1>0 DEF Image
  <2> QED BY <1>1, <2>1, NoneAssumption
<1>3. \A i \in Images : InTheQueue(i) => h = i \/ InTheQueue(i)'
  BY <1>0, <1>1, HeadLeaves
<1> HIDE DEF h
<1>4. KeptWell' /\ OneRequest'
  BY <1>1 DEF JudgeInv, KeptWell, OneRequest, Describes
<1>5. InOrder'
  BY <1>0, <1>1, <1>2, JudgeTyped DEF JudgeInv, InOrder, NotOlder
<1>6. Due'
  <2> SUFFICES ASSUME NEW p \in Pids, NEW i \in Images, Runs(p, i) PROVE DueTo(p, i)'
    BY <1>1 DEF Due, Runs, Listed
  <2>1. DueTo(p, i)
    BY DEF JudgeInv, Due
  <2>2. h = i => Does(p, 0)'
    BY <1>1, <2>1 DEF DueTo, Does
  <2>3. \A n : Owed(p, i, n) => Owed(p, i, n)'
    BY <1>1, <1>2, <1>3, <2>2 DEF Owed, Does
  <2> QED BY <1>1, <1>2, <2>1, <2>2, <2>3 DEF DueTo, Does, OutOfReach
<1> QED BY <1>4, <1>5, <1>6 DEF JudgeInv

\* The stamp of the file is read no earlier than the request was made, and
\* what is kept by it is a verdict on the file that is there.
LEMMA StampsKeepsJudgeInv ==
  ASSUME TypeOK, JudgeInv, Stamps
  PROVE  JudgeInv'
<1> DEFINE h == Head(requests)
<1>0. requests \in Seq(Images) /\ requests # <<>> /\ h \in Images
  BY DEF TypeOK, Stamps, Free
<1>1. /\ UNCHANGED <<processes, images, file, there, judging, verdicts, judged_before, persisted,
                     since, missed, newest>>
      /\ judging = None /\ stamped = None
      /\ requests' = Tail(requests) /\ h \in there
  BY DEF Stamps, Free, OutOfReach, machine, table, kept, history
<1>2. PICK stamp \in {file[h], NoStamp} : stamped' = [path |-> h, stamp |-> stamp]
  BY DEF Stamps
<1>3. stamped' # None /\ stamped'.path = h /\ stamped'.stamp = stamp /\ stamp \in Nat
  <2>1. file[h] \in Nat /\ NoStamp \in Nat
    BY <1>0, JudgeTyped DEF NoStamp
  <2>2. [path |-> h, stamp |-> stamp] \in Stamped
    BY <1>0, <2>1 DEF Stamped
  <2> QED BY <1>2, <2>1, <2>2, NoneAssumption
<1>4. \A i \in Images : InTheQueue(i) => h = i \/ InTheQueue(i)'
  BY <1>0, <1>1, HeadLeaves
<1> HIDE DEF h
<1>5. KeptWell'
  BY <1>1 DEF JudgeInv, KeptWell, Describes
<1>6. OneRequest'
  <2>1. stamp <= file[h]
    BY <1>0, <1>3, JudgeTyped DEF NoStamp
  <2>2. ASSUME stamp # NoStamp, Describes(h, stamp) PROVE stamp <= persisted[h].verdict
    <3>1. stamp = file[h] /\ persisted[h] # None /\ persisted[h].stamp = stamp
          /\ persisted[h].resolver = Resolver
      BY <1>2, <2>2 DEF Describes
    <3> QED BY <1>0, <1>1, <3>1, JudgeTyped DEF JudgeInv, KeptWell
  <2> QED BY <1>1, <1>3, <2>1, <2>2 DEF OneRequest, Describes
<1>7. InOrder'
  <2>1. stamp = NoStamp \/ newest[h] <= stamp
    BY <1>0, <1>2 DEF JudgeInv, InOrder
  <2>2. ASSUME NEW n \in 1..Len(verdicts), verdicts[n].path = h, stamp # NoStamp
        PROVE  verdicts[n].verdict <= stamp
    BY <1>2, <2>2 DEF JudgeInv, InOrder
  <2> QED BY <1>1, <1>3, <2>1, <2>2 DEF JudgeInv, InOrder, NotOlder, NoStamp
<1>8. Due'
  <2> SUFFICES ASSUME NEW p \in Pids, NEW i \in Images, Runs(p, i) PROVE DueTo(p, i)'
    BY <1>1 DEF Due, Runs, Listed
  <2>1. DueTo(p, i)
    BY DEF JudgeInv, Due
  <2>2. h = i => StampDoes(p, stamp)
    BY <1>2, <2>1 DEF DueTo, StampDoes
  <2>3. \A n : Owed(p, i, n) => Owed(p, i, n)'
    BY <1>1, <1>3, <1>4, <2>2 DEF Owed, Does, StampDoes
  <2> QED BY <1>1, <1>3, <2>1, <2>2, <2>3 DEF DueTo, Does, StampDoes, OutOfReach
<1> QED BY <1>5, <1>6, <1>7, <1>8 DEF JudgeInv

\* The verdict the judge comes to, found or worked out, is on the file it
\* found, on one no older than the stamp it read, or on none when it is gone.
LEMMA VerdictHolds ==
  ASSUME TypeOK, KeptWell, OneRequest, stamped # None,
         NEW v, v = VerdictOn(stamped.path, stamped.stamp)
  PROVE  /\ v \in Nat /\ v <= file[stamped.path]
         /\ \/ v = file[stamped.path]
            \/ v = 0 /\ stamped.path \notin there
            \/ stamped.stamp # NoStamp /\ stamped.stamp <= v
<1> DEFINE i == stamped.path
<1>0. i \in Images /\ stamped.stamp \in Nat /\ stamped.stamp <= file[i] /\ file[i] \in Nat
  BY JudgeTyped DEF OneRequest
<1>1. CASE stamped.stamp = NoStamp \/ ~(Again(i, stamped.stamp) \/ Describes(i, stamped.stamp))
  <2>1. v = WorkedOut(i)
    BY <1>1 DEF VerdictOn
  <2> QED BY <1>0, <2>1 DEF WorkedOut
<1>2. CASE stamped.stamp # NoStamp /\ (Again(i, stamped.stamp) \/ Describes(i, stamped.stamp))
  <2>1. Describes(i, stamped.stamp)
    BY <1>0, <1>2 DEF KeptWell, Again
  <2>2. v = persisted[i].verdict
    BY <1>0, <1>2 DEF KeptWell, VerdictOn, Again
  <2>3. persisted[i] # None /\ persisted[i].resolver = Resolver
    BY <2>1 DEF Describes
  <2>4. v \in Nat /\ v <= file[i]
    BY <1>0, <2>2, <2>3, JudgeTyped DEF KeptWell
  <2>5. stamped.stamp <= v
    BY <1>2, <2>1, <2>2 DEF OneRequest
  <2> QED BY <1>2, <2>4, <2>5
<1> QED BY <1>1, <1>2

\* What the judge remembers of it, if the file has a stamp.
LEMMA JudgesRemembers ==
  ASSUME TypeOK, KeptWell, Judges, NEW v, v = VerdictOn(stamped.path, stamped.stamp), v \in Nat
  PROVE  /\ \A j \in Images \ {stamped.path} : /\ judged_before'[j] = judged_before[j]
                                               /\ persisted'[j] = persisted[j]
         /\ stamped.stamp = NoStamp => judged_before' = judged_before /\ persisted' = persisted
         /\ stamped.stamp # NoStamp =>
              /\ judged_before'[stamped.path] # None
              /\ judged_before'[stamped.path].stamp = stamped.stamp
              /\ judged_before'[stamped.path].verdict = v
              /\ persisted'[stamped.path] # None
              /\ persisted'[stamped.path].stamp = stamped.stamp
              /\ persisted'[stamped.path].verdict = v
              /\ persisted'[stamped.path].resolver = Resolver
<1> DEFINE i == stamped.path
<1>0. i \in Images /\ stamped.stamp \in Nat
  BY JudgeTyped DEF Judges
<1>1. /\ judged_before' = JudgedBefore(i, stamped.stamp, v)
      /\ persisted' = Remembered(i, stamped.stamp, v)
  BY DEF Judges
<1>2. CASE stamped.stamp = NoStamp
  BY <1>1, <1>2 DEF JudgedBefore, Remembered
<1>3. CASE stamped.stamp # NoStamp
  <2>1. [stamp |-> stamped.stamp, verdict |-> v] \in BeforeIt
    BY <1>0 DEF BeforeIt
  <2>2. judged_before' = [judged_before EXCEPT ![i] = [stamp |-> stamped.stamp, verdict |-> v]]
    BY <1>1, <1>3 DEF JudgedBefore
  <2>3. /\ \A j \in Images \ {i} : judged_before'[j] = judged_before[j]
        /\ judged_before'[i] # None /\ judged_before'[i].stamp = stamped.stamp
        /\ judged_before'[i].verdict = v
    BY <1>0, <2>1, <2>2, NoneAssumption DEF TypeOK
  <2>4. CASE Again(i, stamped.stamp) \/ Describes(i, stamped.stamp)
    <3>1. persisted' = persisted
      BY <1>1, <2>4 DEF Remembered
    <3>2. /\ persisted[i] # None /\ persisted[i].stamp = stamped.stamp
          /\ persisted[i].resolver = Resolver
      BY <1>0, <2>4 DEF KeptWell, Describes, Again
    <3>3. persisted[i].verdict = v
      BY <1>0, <1>3, <2>4 DEF KeptWell, VerdictOn, Again
    <3> QED BY <1>3, <2>3, <3>1, <3>2, <3>3
  <2>5. CASE ~(Again(i, stamped.stamp) \/ Describes(i, stamped.stamp))
    <3> DEFINE entry == [stamp |-> stamped.stamp, verdict |-> v, resolver |-> Resolver]
    <3>1. persisted' = [persisted EXCEPT ![i] = entry]
      BY <1>1, <1>3, <2>5 DEF Remembered
    <3>2. entry \in CachedVerdict
      BY <1>0 DEF CachedVerdict, Resolver
    <3>3. entry.stamp = stamped.stamp /\ entry.verdict = v /\ entry.resolver = Resolver
      OBVIOUS
    <3> HIDE DEF entry
    <3>4. persisted'[i] = entry /\ \A j \in Images \ {i} : persisted'[j] = persisted[j]
      BY <1>0, <3>1 DEF TypeOK
    <3> QED BY <1>3, <2>3, <3>2, <3>3, <3>4, NoneAssumption
  <2> QED BY <2>4, <2>5
<1> QED BY <1>2, <1>3

\* So it keeps what it promises.
LEMMA JudgesKeepsJudgeInv ==
  ASSUME TypeOK, JudgeInv, Judges,
         NEW i, i = stamped.path, NEW v, v = VerdictOn(stamped.path, stamped.stamp)
  PROVE  JudgeInv'
<1>0. /\ UNCHANGED <<processes, images, file, there, requests, verdicts, since, missed, newest>>
      /\ stamped # None /\ stamped' = None /\ judging = None
      /\ judging' = [path |-> i, verdict |-> v]
  BY DEF Judges, JudgeInv, OneRequest, machine, table, history
<1>1. /\ v \in Nat /\ v <= file[i] /\ i \in Images
      /\ v = file[i] \/ (v = 0 /\ i \notin there) \/ (stamped.stamp # NoStamp /\ stamped.stamp <= v)
      /\ stamped.stamp \in Nat /\ stamped.stamp <= file[i] /\ file[i] \in Nat
  BY <1>0, VerdictHolds, JudgeTyped DEF JudgeInv, OneRequest
<1>2. /\ \A j \in Images \ {i} : /\ judged_before'[j] = judged_before[j]
                                 /\ persisted'[j] = persisted[j]
      /\ stamped.stamp = NoStamp => judged_before' = judged_before /\ persisted' = persisted
      /\ stamped.stamp # NoStamp =>
           /\ judged_before'[i] # None
           /\ judged_before'[i].stamp = stamped.stamp /\ judged_before'[i].verdict = v
           /\ persisted'[i] # None /\ persisted'[i].stamp = stamped.stamp
           /\ persisted'[i].verdict = v /\ persisted'[i].resolver = Resolver
  BY <1>1, JudgesRemembers DEF JudgeInv
<1>3. judging' # None /\ judging'.path = i /\ judging'.verdict = v
  <2>1. [path |-> i, verdict |-> v] \in Image
    BY <1>1 DEF Image
  <2> QED BY <1>0, <2>1, NoneAssumption
<1>4. KeptWell'
  <2>1. ASSUME NEW j \in Images, j # i \/ stamped.stamp = NoStamp
        PROVE  /\ judged_before'[j] # None => /\ Describes(j, judged_before[j].stamp)'
                                              /\ persisted'[j].verdict = judged_before'[j].verdict
               /\ persisted'[j] # None /\ persisted'[j].resolver = Resolver =>
                    /\ persisted'[j].stamp # NoStamp
                    /\ persisted'[j].stamp <= file'[j] /\ persisted'[j].verdict <= file'[j]
                    /\ \/ persisted'[j].stamp <= persisted'[j].verdict
                       \/ /\ persisted'[j].verdict = 0
                          /\ persisted'[j].stamp < file'[j] \/ j \notin there'
    <3>1. judged_before'[j] = judged_before[j] /\ persisted'[j] = persisted[j]
      BY <1>2, <2>1
    <3> QED BY <1>0, <3>1 DEF JudgeInv, KeptWell, Describes
  <2>2. ASSUME stamped.stamp # NoStamp
        PROVE  /\ Describes(i, judged_before[i].stamp)'
               /\ persisted'[i].verdict = judged_before'[i].verdict
               /\ persisted'[i].stamp # NoStamp
               /\ persisted'[i].stamp <= file'[i] /\ persisted'[i].verdict <= file'[i]
               /\ \/ persisted'[i].stamp <= persisted'[i].verdict
                  \/ persisted'[i].verdict = 0 /\ i \notin there'
    BY <1>0, <1>1, <1>2, <2>2 DEF Describes
  <2> QED BY <2>1, <2>2 DEF KeptWell
<1>5. OneRequest'
  BY <1>0 DEF OneRequest
<1>6. InOrder'
  <2>1. v = 0 \/ newest[i] <= v
    BY <1>0, <1>1, JudgeTyped DEF JudgeInv, InOrder, NotOlder, NoStamp
  <2>2. ASSUME NEW n \in 1..Len(verdicts), verdicts[n].path = i, v # 0
        PROVE  verdicts[n].verdict <= v
    <3>1. CASE v = file[i]
      BY <2>2, <3>1 DEF JudgeInv, InOrder
    <3>2. CASE stamped.stamp # NoStamp /\ stamped.stamp <= v
      <4>1. verdicts[n].verdict <= stamped.stamp
        BY <1>0, <2>2, <3>2 DEF JudgeInv, InOrder
      <4> QED BY <1>1, <3>2, <4>1, JudgeTyped
    <3> QED BY <1>1, <2>2, <3>1, <3>2
  <2> QED BY <1>0, <1>1, <1>3, <2>1, <2>2 DEF JudgeInv, InOrder, NotOlder
<1>7. Due'
  <2> SUFFICES ASSUME NEW p \in Pids, NEW j \in Images, Runs(p, j) PROVE DueTo(p, j)'
    BY <1>0 DEF Due, Runs, Listed
  <2>1. DueTo(p, j)
    BY DEF JudgeInv, Due
  <2>2. ASSUME j = i, StampDoes(p, stamped.stamp) PROVE Does(p, v)
    <3>1. i \notin there => missed[p]
      BY <2>1, <2>2 DEF DueTo, OutOfReach
    <3>2. (v = 0 /\ i \notin there) \/ since[p] <= v
      BY <1>1, <2>1, <2>2, JudgeTyped DEF DueTo, StampDoes
    <3> QED BY <1>1, <3>1, <3>2, JudgeTyped DEF Does
  <2>3. \A w : Does(p, w)' <=> Does(p, w)
    BY <1>0 DEF Does
  <2>4. ASSUME NEW n, Owed(p, j, n) PROVE Owed(p, j, n)'
    <3>1. CASE stamped.path = j /\ StampDoes(p, stamped.stamp)
      BY <1>3, <2>2, <2>3, <3>1 DEF Owed
    <3> QED BY <1>0, <2>3, <2>4, <3>1 DEF Owed, InTheQueue
  <2>5. j = i => Does(p, v) \/ InTheQueue(j)
    BY <1>0, <2>1, <2>2 DEF DueTo
  <2> QED BY <1>0, <1>3, <2>1, <2>3, <2>4, <2>5 DEF DueTo, InTheQueue, OutOfReach
<1> QED BY <1>4, <1>5, <1>6, <1>7 DEF JudgeInv

\* A verdict sent is the last in the queue, and no older than the others.
LEMMA TellsKeepsJudgeInv ==
  ASSUME TypeOK, JudgeInv, Tells
  PROVE  JudgeInv'
<1> DEFINE len == Len(verdicts)
<1>0. /\ UNCHANGED <<processes, images, file, there, requests, stamped, judged_before, persisted,
                     since, missed, newest>>
      /\ judging # None /\ judging' = None /\ stamped = None
      /\ verdicts' = Append(verdicts, judging)
  BY DEF Tells, Sent, JudgeInv, OneRequest, machine, table, kept, history
<1>1. /\ verdicts \in Seq(Image) /\ judging \in Image /\ len \in Nat
      /\ Len(verdicts') = len + 1 /\ verdicts'[len + 1] = judging
      /\ \A n \in 1..len : verdicts'[n] = verdicts[n]
  BY <1>0 DEF TypeOK
<1>2. \A n \in 1..Len(verdicts') : n \in 1..len \/ n = len + 1
  BY <1>1
<1>3. KeptWell' /\ OneRequest'
  BY <1>0 DEF JudgeInv, KeptWell, OneRequest, Describes
<1>4. /\ \A i \in Images : newest[i] <= file[i]
      /\ judging.verdict <= file[judging.path]
      /\ NotOlder(judging.path, judging.verdict)
      /\ \A n \in 1..len :
           verdicts[n].path = judging.path /\ judging.verdict # 0
             => verdicts[n].verdict <= judging.verdict
      /\ \A n \in 1..len : /\ verdicts[n].verdict <= file[verdicts[n].path]
                           /\ NotOlder(verdicts[n].path, verdicts[n].verdict)
      /\ \A m, n \in 1..len :
           m <= n /\ verdicts[m].path = verdicts[n].path /\ verdicts[n].verdict # 0
             => verdicts[m].verdict <= verdicts[n].verdict
      /\ \A i \in Images : images[i] # None => images[i].verdict \in {0, newest[i]}
  BY <1>0 DEF JudgeInv, InOrder
<1>5. judging.path \in Images /\ judging.verdict \in Nat
  BY <1>0, JudgeTyped
<1> HIDE DEF len
<1>6. InOrder'
  <2>1. ASSUME NEW n \in 1..Len(verdicts')
        PROVE  /\ verdicts'[n].verdict <= file[verdicts'[n].path]
               /\ NotOlder(verdicts'[n].path, verdicts'[n].verdict)
    BY <1>1, <1>2, <1>4, <2>1
  <2>2. ASSUME NEW m \in 1..Len(verdicts'), NEW n \in 1..Len(verdicts'), m <= n,
               verdicts'[m].path = verdicts'[n].path, verdicts'[n].verdict # 0
        PROVE  verdicts'[m].verdict <= verdicts'[n].verdict
    <3>1. CASE n \in 1..len
      <4>1. m \in 1..len
        BY <1>1, <2>2, <3>1
      <4> QED BY <1>1, <1>4, <2>2, <3>1, <4>1
    <3>2. CASE n = len + 1 /\ m \in 1..len
      BY <1>1, <1>4, <2>2, <3>2
    <3>3. CASE n = len + 1 /\ m = len + 1
      BY <1>1, <1>5, <3>3
    <3> QED BY <1>2, <3>1, <3>2, <3>3
  <2> QED BY <1>0, <1>4, <2>1, <2>2 DEF InOrder, NotOlder
<1>7. Due'
  <2> SUFFICES ASSUME NEW p \in Pids, NEW i \in Images, Runs(p, i) PROVE DueTo(p, i)'
    BY <1>0 DEF Due, Runs, Listed
  <2>1. DueTo(p, i)
    BY DEF JudgeInv, Due
  <2>2. \A w : Does(p, w)' <=> Does(p, w)
    BY <1>0 DEF Does
  <2>3. ASSUME NEW n \in 0..len, Owed(p, i, n) PROVE Owed(p, i, n)'
    <3>1. CASE InTheQueue(i)
      BY <1>0, <3>1 DEF Owed, InTheQueue
    <3>2. CASE judging.path = i /\ Does(p, judging.verdict)
      <4>1. len + 1 \in 1..Len(verdicts') /\ n < len + 1
        BY <1>1
      <4> QED BY <1>1, <2>2, <3>2, <4>1 DEF Owed
    <3>3. ASSUME NEW m \in 1..len, n < m, verdicts[m].path = i, Does(p, verdicts[m].verdict)
          PROVE  Owed(p, i, n)'
      <4>1. m \in 1..Len(verdicts') /\ verdicts'[m] = verdicts[m]
        BY <1>1
      <4> QED BY <2>2, <3>3, <4>1 DEF Owed
    <3> QED BY <1>0, <2>3, <3>1, <3>2, <3>3 DEF Owed, len
  <2>4. ASSUME NEW n \in 1..Len(verdicts'), verdicts'[n].path = i
        PROVE  Does(p, verdicts'[n].verdict) \/ Owed(p, i, n)'
    <3>1. CASE n \in 1..len
      BY <1>1, <2>1, <2>3, <2>4, <3>1 DEF DueTo, len
    <3>2. CASE n = len + 1
      BY <1>0, <1>1, <2>1, <2>4, <3>2 DEF DueTo, Owed, InTheQueue
    <3> QED BY <1>2, <3>1, <3>2
  <2>5. Does(p, processes[p].verdict) \/ Owed(p, i, 0)'
    <3>1. 0 \in 0..len
      BY <1>1
    <3> QED BY <2>1, <2>3, <3>1 DEF DueTo
  <2> QED BY <1>0, <2>1, <2>2, <2>4, <2>5 DEF DueTo, OutOfReach
<1> QED BY <1>3, <1>6, <1>7 DEF JudgeInv

\* What the core makes of the verdict it takes: every process of the image
\* shows it, and nothing else moves.
LEMMA TakesVerdictShows ==
  ASSUME TypeOK, TakesVerdict, NEW image, image = Head(verdicts)
  PROVE  /\ image.path \in Images /\ image.verdict \in Nat
         /\ \A i \in Images : images'[i] # None =>
              /\ images[i] # None
              /\ images'[i].verdict = IF i = image.path THEN image.verdict ELSE images[i].verdict
         /\ \A i \in Images : newest'[i] =
              IF i = image.path /\ images[i] # None /\ newest[i] < image.verdict
              THEN image.verdict ELSE newest[i]
         /\ \A p \in Pids, i \in Images : Runs(p, i)' => Runs(p, i)
         /\ \A p \in Pids : Listed(p) =>
              processes'[p].verdict = IF Runs(p, image.path) /\ images[image.path] # None
                                      THEN image.verdict ELSE processes[p].verdict
<1>1. /\ image \in Image /\ Given(image)
      /\ image.path \in Images /\ image.verdict \in Nat
  <2>1. image \in Image
    BY DEF TypeOK, TakesVerdict
  <2> QED BY <2>1 DEF TakesVerdict, Image
<1>2. CASE images[image.path] = None
  <2>1. processes' = processes /\ images' = images /\ newest' = newest
    BY <1>1, <1>2 DEF Given
  <2> QED BY <1>1, <1>2, <2>1 DEF Runs, Listed
<1>3. CASE images[image.path] # None
  <2>1. /\ processes' = [p \in Pids |-> IF Runs(p, image.path)
                                       THEN Judged(processes[p], image.verdict)
                                       ELSE processes[p]]
        /\ images' = [images EXCEPT ![image.path] = RunJudged(images[image.path], image.verdict)]
        /\ newest' = [newest EXCEPT ![image.path] =
                        IF newest[image.path] < image.verdict THEN image.verdict
                        ELSE newest[image.path]]
    BY <1>1, <1>3 DEF Given
  <2>2. /\ images[image.path] \in Running
        /\ images'[image.path].verdict = image.verdict
        /\ \A i \in Images : i # image.path => images'[i] = images[i]
    <3>1. images[image.path] \in Running
      BY <1>1, <1>3 DEF TypeOK
    <3>2. RunJudged(images[image.path], image.verdict).verdict = image.verdict
      BY <1>1, <3>1, RunningVerdictType
    <3> QED BY <1>1, <2>1, <3>1, <3>2 DEF TypeOK
  <2>3. ASSUME NEW p \in Pids, Runs(p, image.path)
        PROVE  /\ processes'[p].image = image.path /\ processes'[p].verdict = image.verdict
    <3>1. processes[p] \in Entry /\ processes[p].image = image.path
      BY <2>3 DEF TypeOK, Runs, Listed
    <3>2. /\ Judged(processes[p], image.verdict).image = processes[p].image
          /\ Judged(processes[p], image.verdict).verdict = image.verdict
      BY <3>1 DEF Judged, Entry
    <3> QED BY <2>1, <2>3, <3>1, <3>2
  <2>4. ASSUME NEW p \in Pids, ~Runs(p, image.path) PROVE processes'[p] = processes[p]
    BY <2>1, <2>4
  <2>5. \A p \in Pids, i \in Images : Runs(p, i)' => Runs(p, i)
    <3> SUFFICES ASSUME NEW p \in Pids, NEW i \in Images, Runs(p, i)' PROVE Runs(p, i)
      OBVIOUS
    <3>1. CASE Runs(p, image.path)
      BY <2>3, <3>1 DEF Runs
    <3>2. CASE ~Runs(p, image.path)
      BY <2>4, <3>2 DEF Runs, Listed
    <3> QED BY <3>1, <3>2
  <2>6. \A p \in Pids : Listed(p) =>
          processes'[p].verdict = IF Runs(p, image.path) /\ images[image.path] # None
                                  THEN image.verdict ELSE processes[p].verdict
    BY <1>3, <2>3, <2>4
  <2>7. \A i \in Images : newest'[i] =
          IF i = image.path /\ images[i] # None /\ newest[i] < image.verdict
          THEN image.verdict ELSE newest[i]
    BY <1>1, <1>3, <2>1 DEF TypeOK
  <2> QED BY <1>1, <1>3, <2>2, <2>5, <2>6, <2>7
<1> QED BY <1>2, <1>3

\* The verdict taken is, but for default ones, the oldest of those on their
\* way.
LEMMA TakesVerdictKeepsJudgeInv ==
  ASSUME TypeOK, JudgeInv, ImagesCoherent, TakesVerdict, NEW image, image = Head(verdicts)
  PROVE  JudgeInv'
<1> DEFINE len == Len(verdicts)
<1>0. /\ UNCHANGED <<file, there, requests, stamped, judging, judged_before, persisted, since, missed>>
      /\ verdicts \in Seq(Image) /\ verdicts # <<>> /\ verdicts' = Tail(verdicts)
  BY DEF TypeOK, TakesVerdict, Rest, machine, kept
<1>1. /\ len \in Nat /\ len >= 1 /\ Len(verdicts') = len - 1 /\ image = verdicts[1]
      /\ \A n \in 1..Len(verdicts') : n + 1 \in 1..len /\ verdicts'[n] = verdicts[n + 1]
      /\ 1 \in 1..len
  BY <1>0
<1>2. /\ image.path \in Images /\ image.verdict \in Nat
      /\ \A i \in Images : images'[i] # None =>
           /\ images[i] # None
           /\ images'[i].verdict = IF i = image.path THEN image.verdict ELSE images[i].verdict
      /\ \A i \in Images : newest'[i] =
           IF i = image.path /\ images[i] # None /\ newest[i] < image.verdict
           THEN image.verdict ELSE newest[i]
      /\ \A p \in Pids, i \in Images : Runs(p, i)' => Runs(p, i)
      /\ \A p \in Pids : Listed(p) =>
           processes'[p].verdict = IF Runs(p, image.path) /\ images[image.path] # None
                                   THEN image.verdict ELSE processes[p].verdict
  BY TakesVerdictShows
<1>3. KeptWell' /\ OneRequest'
  BY <1>0 DEF JudgeInv, KeptWell, OneRequest, Describes
<1>4. /\ \A i \in Images : newest[i] <= file[i]
      /\ stamped # None =>
           /\ NotOlder(stamped.path, stamped.stamp)
           /\ \A n \in 1..len :
                verdicts[n].path = stamped.path /\ stamped.stamp # NoStamp
                  => verdicts[n].verdict <= stamped.stamp
      /\ judging # None =>
           /\ judging.verdict <= file[judging.path]
           /\ NotOlder(judging.path, judging.verdict)
           /\ \A n \in 1..len :
                verdicts[n].path = judging.path /\ judging.verdict # 0
                  => verdicts[n].verdict <= judging.verdict
      /\ \A n \in 1..len : /\ verdicts[n].verdict <= file[verdicts[n].path]
                           /\ NotOlder(verdicts[n].path, verdicts[n].verdict)
      /\ \A m, n \in 1..len :
           m <= n /\ verdicts[m].path = verdicts[n].path /\ verdicts[n].verdict # 0
             => verdicts[m].verdict <= verdicts[n].verdict
      /\ \A i \in Images : images[i] # None => images[i].verdict \in {0, newest[i]}
  BY DEF JudgeInv, InOrder
<1> HIDE DEF len
<1>5. InOrder'
  <2>1. ASSUME NEW i \in Images PROVE newest'[i] <= file[i]
    BY <1>1, <1>2, <1>4
  <2>2. ASSUME stamped # None
        PROVE  /\ NotOlder(stamped.path, stamped.stamp)'
               /\ \A n \in 1..Len(verdicts') :
                    verdicts'[n].path = stamped.path /\ stamped.stamp # NoStamp
                      => verdicts'[n].verdict <= stamped.stamp
    <3>1. stamped.path \in Images
      BY <2>2, JudgeTyped
    <3> QED BY <1>0, <1>1, <1>2, <1>4, <2>2, <3>1 DEF NotOlder, NoStamp
  <2>3. ASSUME judging # None
        PROVE  /\ NotOlder(judging.path, judging.verdict)'
               /\ \A n \in 1..Len(verdicts') :
                    verdicts'[n].path = judging.path /\ judging.verdict # 0
                      => verdicts'[n].verdict <= judging.verdict
    <3>1. judging.path \in Images
      BY <2>3, JudgeTyped
    <3> QED BY <1>0, <1>1, <1>2, <1>4, <2>3, <3>1 DEF NotOlder
  <2>4. ASSUME NEW n \in 1..Len(verdicts')
        PROVE  /\ verdicts'[n].verdict <= file[verdicts'[n].path]
               /\ NotOlder(verdicts[n].path, verdicts[n].verdict)'
    <3>1. n + 1 \in 1..len /\ verdicts'[n] = verdicts[n + 1] /\ 1 <= n + 1
      BY <1>1
    <3>2. verdicts[n + 1].path \in Images
      BY <3>1, JudgeTyped DEF len
    <3>3. verdicts[n + 1].path = image.path /\ verdicts[n + 1].verdict # 0
            => image.verdict <= verdicts[n + 1].verdict
      BY <1>1, <1>4, <3>1
    <3> QED BY <1>2, <1>4, <3>1, <3>2, <3>3 DEF NotOlder
  <2>5. ASSUME NEW m \in 1..Len(verdicts'), NEW n \in 1..Len(verdicts'), m <= n,
               verdicts'[m].path = verdicts'[n].path, verdicts'[n].verdict # 0
        PROVE  verdicts'[m].verdict <= verdicts'[n].verdict
    BY <1>1, <1>4, <2>5
  <2>6. ASSUME NEW i \in Images, images'[i] # None PROVE images'[i].verdict \in {0, newest'[i]}
    <3>1. CASE i = image.path
      <4>1. images[i] # None /\ images'[i].verdict = image.verdict
        BY <1>2, <2>6, <3>1
      <4>2. image.verdict = 0 \/ newest[i] <= image.verdict
        BY <1>1, <1>4, <3>1 DEF NotOlder
      <4> QED BY <1>2, <3>1, <4>1, <4>2, JudgeTyped
    <3>2. CASE i # image.path
      BY <1>2, <1>4, <2>6, <3>2
    <3> QED BY <3>1, <3>2
  <2> QED BY <1>0, <1>4, <2>1, <2>2, <2>3, <2>4, <2>5, <2>6 DEF InOrder
<1>6. Due'
  <2> SUFFICES ASSUME NEW p \in Pids, NEW i \in Images, Runs(p, i)' PROVE DueTo(p, i)'
    BY DEF Due
  <2>1. /\ Runs(p, i) /\ Listed(p) /\ processes[p].image = i
        /\ images[i] # None /\ processes[p].verdict = images[i].verdict
    BY <1>2 DEF ImagesCoherent, VerdictShared, Runs
  <2>2. DueTo(p, i)
    BY <2>1 DEF JudgeInv, Due
  <2>3. \A w : Does(p, w)' <=> Does(p, w)
    BY <1>0 DEF Does
  <2>4. ASSUME NEW n \in 0..Len(verdicts'), Owed(p, i, n + 1) PROVE Owed(p, i, n)'
    <3>1. ASSUME NEW m \in 1..len, n + 1 < m, verdicts[m].path = i, Does(p, verdicts[m].verdict)
          PROVE  Owed(p, i, n)'
      <4>1. /\ m - 1 \in 1..Len(verdicts') /\ n < m - 1 /\ (m - 1) + 1 = m
        BY <1>1, <3>1
      <4>2. verdicts'[m - 1] = verdicts[m]
        BY <1>1, <4>1
      <4> QED BY <2>3, <3>1, <4>1, <4>2 DEF Owed
    <3>2. CASE \/ InTheQueue(i)
               \/ stamped # None /\ stamped.path = i /\ StampDoes(p, stamped.stamp)
               \/ judging # None /\ judging.path = i /\ Does(p, judging.verdict)
      BY <1>0, <3>2 DEF Owed, InTheQueue, StampDoes, Does
    <3> QED BY <2>4, <3>1, <3>2 DEF Owed, len
  <2>5. 0 \in 0..Len(verdicts') /\ 0 + 1 = 1
    BY <1>1
  <2>6. Does(p, processes'[p].verdict) \/ Owed(p, i, 0)'
    <3>1. CASE i = image.path
      <4>1. processes'[p].verdict = verdicts[1].verdict /\ verdicts[1].path = i
        BY <1>1, <1>2, <2>1, <3>1
      <4>2. Does(p, verdicts[1].verdict) \/ Owed(p, i, 1)
        BY <1>1, <2>2, <4>1 DEF DueTo, len
      <4> QED BY <2>4, <2>5, <4>1, <4>2
    <3>2. CASE i # image.path
      <4>1. processes'[p].verdict = processes[p].verdict
        BY <1>2, <2>1, <3>2 DEF Runs
      <4>2. ASSUME NEW m \in 1..Len(verdicts), 0 < m, verdicts[m].path = i PROVE 1 < m
        BY <1>1, <3>2, <4>2
      <4>3. Owed(p, i, 0) => Owed(p, i, 1)
        BY <4>2 DEF Owed
      <4> QED BY <2>2, <2>4, <2>5, <4>1, <4>3 DEF DueTo
    <3> QED BY <3>1, <3>2
  <2>7. ASSUME NEW n \in 1..Len(verdicts'), verdicts'[n].path = i
        PROVE  Does(p, verdicts'[n].verdict) \/ Owed(p, i, n)'
    <3>1. n + 1 \in 1..len /\ verdicts'[n] = verdicts[n + 1]
      BY <1>1
    <3> QED BY <2>2, <2>4, <2>7, <3>1 DEF DueTo, len
  <2> QED BY <1>0, <2>2, <2>3, <2>6, <2>7 DEF DueTo, OutOfReach, InTheQueue, StampDoes
<1> QED BY <1>3, <1>5, <1>6 DEF JudgeInv

\* A joining process or the end of a walk leaves an image the verdict it has,
\* or starts it with none.
LEMMA JoinsKeepVerdicts ==
  ASSUME TypeOK, \A j \in Images : Coherent(j), NEW p \in Pids, NEW i \in Paths, Joins(p, i),
         NEW j \in Images, images'[j] # None
  PROVE  \/ images[j] # None /\ images'[j].verdict = images[j].verdict
         \/ images'[j].verdict = 0
<1> DEFINE run == IF j = i THEN AcquiredRun(images[j]) ELSE images[j]
<1>1. images'[j] = IF p \in RunBy(j) THEN Dropped(run, 1) ELSE run
  BY JoinsImages
<1>2. images[j] \in Running \cup {None}
  BY DEF TypeOK
<1>3. run \in Running \cup {None}
  BY <1>2 DEF AcquiredRun, Running
<1>4. run # None => \/ images[j] # None /\ run.verdict = images[j].verdict
                    \/ run.verdict = 0
  <2>1. CASE j = i /\ images[j] = None
    BY <2>1 DEF AcquiredRun
  <2>2. CASE j = i /\ images[j] # None
    <3>1. [images[j] EXCEPT !.processes = @ + 1].verdict = images[j].verdict
      BY <1>2, <2>2 DEF Running
    <3> QED BY <2>2, <3>1 DEF AcquiredRun
  <2>3. CASE j # i
    BY <2>3
  <2> QED BY <2>1, <2>2, <2>3
<1>5. p \in RunBy(j) => run # None
  <2>1. ASSUME p \in RunBy(j) PROVE images[j] # None
    <3>1. Cardinality(RunBy(j)) # 0
      BY <2>1, RunsFinite, FS_EmptySet DEF RunBy
    <3> QED BY <3>1 DEF Coherent, Counts
  <2>2. images[j] # None => AcquiredRun(images[j]) \in Running
    BY <1>2 DEF AcquiredRun, Running
  <2> QED BY <2>1, <2>2, NoneAssumption
<1> HIDE DEF run
<1>6. CASE p \notin RunBy(j)
  BY <1>1, <1>4, <1>6
<1>7. CASE p \in RunBy(j)
  <2>1. run \in Running /\ Dropped(run, 1) # None
    BY <1>1, <1>3, <1>5, <1>7
  <2>2. Dropped(run, 1).verdict = run.verdict
    BY <2>1 DEF Dropped, Running
  <2> QED BY <1>1, <1>4, <1>5, <1>7, <2>2
<1> QED BY <1>6, <1>7

\* A process that joins has its image asked about.
LEMMA JoinsKeepsJudgeInv ==
  ASSUME TypeOK, JudgeInv, ImagesCoherent, NEW p \in Pids, NEW i \in Paths, Joins(p, i)
  PROVE  JudgeInv'
<1>0. /\ UNCHANGED <<file, there, stamped, judging, verdicts, judged_before, persisted, newest>>
      /\ requests' = Asked(i) /\ requests \in Seq(Images)
      /\ since' = [since EXCEPT ![p] = IF i = NoImage THEN 0 ELSE file[i]]
      /\ missed' = [missed EXCEPT ![p] = i # NoImage /\ OutOfReach(i)]
  BY DEF Joins, machine, kept, TypeOK
<1>1. /\ processes'[p].image = i
      /\ \A q \in Pids \ {p} : processes'[q] = processes[q]
  BY JoinsEffect
<1>2. KeptWell' /\ OneRequest'
  BY <1>0 DEF JudgeInv, KeptWell, OneRequest, Describes
<1>3. InOrder'
  <2>0. \A j \in Images : Coherent(j)
    BY CoherentIsAll
  <2>1. ASSUME NEW j \in Images, images'[j] # None PROVE images'[j].verdict \in {0, newest[j]}
    <3>1. \/ images[j] # None /\ images'[j].verdict = images[j].verdict
          \/ images'[j].verdict = 0
      BY <2>0, <2>1, JoinsKeepVerdicts
    <3> QED BY <3>1 DEF JudgeInv, InOrder
  <2> QED BY <1>0, <2>1 DEF JudgeInv, InOrder, NotOlder
<1>4. Due'
  <2> SUFFICES ASSUME NEW q \in Pids, NEW j \in Images, Runs(q, j)' PROVE DueTo(q, j)'
    BY DEF Due
  <2>1. ASSUME NEW n \in 1..Len(requests)
        PROVE  n \in 1..Len(requests') /\ requests'[n] = requests[n]
    BY <1>0, <2>1 DEF Asked, Paths
  <2>2. CASE q = p
    <3>0. processes'[p].image = j
      BY <2>2 DEF Runs
    <3>1. j = i /\ i # NoImage /\ since'[q] = file[j]
      BY <1>0, <1>1, <2>2, <3>0, ImagesAssumption DEF TypeOK
    <3>5. missed'[q] <=> OutOfReach(j)
      <4>1. missed'[p] = (i # NoImage /\ OutOfReach(i))
        BY <1>0 DEF TypeOK
      <4> QED BY <2>2, <3>1, <4>1
    <3>2. Len(requests') \in 1..Len(requests') /\ requests'[Len(requests')] = j
      BY <1>0, <3>1 DEF Asked
    <3>3. InTheQueue(j)'
      BY <3>2 DEF InTheQueue
    <3>4. since'[q] <= file'[j] /\ (OutOfReach(j)' => missed'[q])
      BY <1>0, <3>1, <3>5, JudgeTyped DEF OutOfReach
    <3> QED BY <3>3, <3>4 DEF DueTo, Owed
  <2>3. CASE q # p
    <3>1. /\ Runs(q, j) /\ since'[q] = since[q] /\ missed'[q] = missed[q]
          /\ processes'[q] = processes[q]
      BY <1>0, <1>1, <2>3 DEF Runs, Listed, TypeOK
    <3>2. DueTo(q, j)
      BY <3>1 DEF JudgeInv, Due
    <3>3. InTheQueue(j) => InTheQueue(j)'
      BY <2>1 DEF InTheQueue
    <3>4. /\ \A v : Does(q, v)' <=> Does(q, v)
          /\ \A v : StampDoes(q, v)' <=> StampDoes(q, v)
      BY <3>1 DEF Does, StampDoes
    <3>5. \A n : Owed(q, j, n) => Owed(q, j, n)'
      BY <1>0, <3>3, <3>4 DEF Owed
    <3> QED BY <1>0, <3>1, <3>2, <3>3, <3>4, <3>5 DEF DueTo, OutOfReach
  <2> QED BY <2>2, <2>3
<1> QED BY <1>2, <1>3, <1>4 DEF JudgeInv

\* What leaves is owed nothing.
LEMMA RetainsKeepsJudgeInv ==
  ASSUME TypeOK, JudgeInv, Retains
  PROVE  JudgeInv'
<1>1. UNCHANGED <<file, there, judge, newest>>
  BY DEF Retains, machine
<1>2. ASSUME NEW i \in Images, images'[i] # None
      PROVE  images[i] # None /\ images'[i].verdict = images[i].verdict
  <2>1. images'[i] = IF images[i] = None \/ LeavingRun(i) = {} THEN images[i]
                     ELSE Dropped(images[i], Cardinality(LeavingRun(i)))
    BY DEF Retains
  <2>2. images[i] # None => images[i] \in Running
    BY DEF TypeOK
  <2> QED BY <1>2, <2>1, <2>2 DEF Dropped, Running
<1>3. ASSUME NEW p \in Pids, NEW i \in Images, Runs(p, i)'
      PROVE  /\ Runs(p, i) /\ since'[p] = since[p] /\ missed'[p] = missed[p]
             /\ processes'[p].verdict = processes[p].verdict
  <2>1. p \notin Leaving /\ missed[p] \in BOOLEAN
    BY <1>3 DEF Retains, Runs, Listed, TypeOK
  <2> QED BY <1>3, <2>1 DEF Retains, Runs, Listed
<1> QED BY <1>1, <1>2, <1>3, TableKeepsJudgeInv

\* A sample moves no verdict.
LEMMA ObservesKeepsJudgeInv ==
  ASSUME TypeOK, JudgeInv, NEW seen \in [Pids -> States], Observes(seen)
  PROVE  JudgeInv'
<1>1. UNCHANGED <<file, there, judge, images, history>>
  BY DEF Observes, machine
<1>2. ASSUME NEW p \in Pids, NEW i \in Images, Runs(p, i)'
      PROVE  Runs(p, i) /\ processes'[p].verdict = processes[p].verdict
  <2>1. Listed(p)
    BY <1>2 DEF Observes, Runs, Listed
  <2>2. processes[p] \in Entry /\ processes'[p] = [processes[p] EXCEPT !.state = seen[p]]
    BY <2>1 DEF TypeOK, Listed, Observes
  <2>3. processes'[p].image = processes[p].image /\ processes'[p].verdict = processes[p].verdict
    BY <2>2 DEF Entry
  <2> QED BY <1>2, <2>1, <2>3 DEF Runs
<1> QED BY <1>1, <1>2, TableKeepsJudgeInv DEF history

\* Every step keeps what the judge promises and what is owed.
LEMMA JudgeInvInductive ==
  TypeOK /\ ImagesCoherent /\ JudgeInv /\ [Next]_vars => JudgeInv'
<1> SUFFICES ASSUME TypeOK, ImagesCoherent, JudgeInv, [Next]_vars PROVE JudgeInv'
  OBVIOUS
<1>1. CASE UNCHANGED <<file, there, judge, images, processes, history>>
  BY <1>1, TableKeepsJudgeInv DEF Runs, Listed, history
<1>2. CASE \E p \in Pids, i \in Images : Starts(p, i)
  BY <1>1, <1>2 DEF Starts, table
<1>3. CASE \E p \in Pids : Ends(p)
  BY <1>1, <1>3 DEF Ends, table
<1>4. CASE \E i \in Images : Replaced(i) \/ Removed(i)
  BY <1>4, ReplacedKeepsJudgeInv, RemovedKeepsJudgeInv
<1>5. CASE Judge
  BY <1>5, TurnsAwayKeepsJudgeInv, StampsKeepsJudgeInv, JudgesKeepsJudgeInv, TellsKeepsJudgeInv
     DEF Judge
<1>6. CASE AwaitsVerdict \/ TickTakesVerdict
  BY <1>6, TakesVerdictKeepsJudgeInv DEF AwaitsVerdict, TickTakesVerdict
<1>7. CASE Started \/ Ticks \/ Skips \/ Reads \/ Takes \/ \E p \in Pids : PassesOver(p)
  BY <1>1, <1>7 DEF Started, Ticks, Skips, Reads, Takes, PassesOver, machine, table
<1>8. CASE \E p \in Pids, i \in Paths : Joins(p, i)
  BY <1>8, JoinsKeepsJudgeInv
<1>9. CASE Retains
  BY <1>9, RetainsKeepsJudgeInv
<1>10. CASE \E seen \in [Pids -> States] : Observes(seen)
  BY <1>10, ObservesKeepsJudgeInv
<1>11. CASE UNCHANGED vars
  BY <1>1, <1>11 DEF vars, machine, table
<1> QED
  BY <1>2, <1>3, <1>4, <1>5, <1>6, <1>7, <1>8, <1>9, <1>10, <1>11
     DEF Next, Machine, Core, Walk

\* And it holds from the start, whatever an earlier run left behind.
LEMMA JudgeKeepsPromises == Spec => []JudgeInv
<1>1. Init => JudgeInv
  <2> SUFFICES ASSUME Init PROVE JudgeInv
    OBVIOUS
  <2>1. /\ verdicts = <<>> /\ stamped = None /\ judging = None
        /\ \A i \in Images : /\ judged_before[i] = None /\ images[i] = None
                             /\ file[i] = Installed /\ persisted[i] \in LeftBehind
                             /\ newest[i] = 0
        /\ \A p \in Pids : processes[p] = None
    BY DEF Init
  <2>2. KeptWell
    BY <2>1 DEF KeptWell, LeftBehind, Installed, Resolver, NoStamp
  <2>3. InOrder /\ OneRequest /\ Due
    BY <2>1 DEF InOrder, OneRequest, Due, Runs, Listed, Installed
  <2> QED BY <2>2, <2>3 DEF JudgeInv
<1> QED BY <1>1, JudgeInvInductive, TypeCorrect, ImagesStayCoherent, PTL DEF Spec

\* Once no answer is owed on an image, every process of it shows a verdict on
\* a file no older than the one it was started from (the comment on
\* reconcile), or the default one, its file having been out of reach since.
THEOREM VerdictsAreFresh == Spec => []JudgedAfresh
<1>1. TypeOK /\ JudgeInv => JudgedAfresh
  <2> SUFFICES ASSUME TypeOK, JudgeInv, NEW p \in Pids, NEW i \in Images,
                      Runs(p, i), ~Outstanding(i)
               PROVE  Does(p, processes[p].verdict)
    BY DEF JudgedAfresh
  <2>1. Owed(p, i, 0) => Outstanding(i)
    BY DEF Owed, Outstanding, InTheQueue
  <2> QED BY <2>1 DEF JudgeInv, Due, DueTo
<1> QED BY <1>1, TypeCorrect, JudgeKeepsPromises, PTL

\* Nobody is shown the verdict on an older file than a process of that image
\* was shown before, however requests, verdicts and ticks fall and files go
\* and come back.
THEOREM VerdictsNeverGoBack == Spec => []VerdictNeverOlder
<1>1. ImagesCoherent /\ JudgeInv => VerdictNeverOlder
  BY DEF ImagesCoherent, VerdictShared, JudgeInv, InOrder, VerdictNeverOlder
<1> QED BY <1>1, ImagesStayCoherent, JudgeKeepsPromises, PTL
=============================================================================

---------------------------- MODULE ProcessTable ----------------------------
(***************************************************************************)
(* The processes the core lists, the verdicts on the images they run, and  *)
(* the differences it hands on: crates/core/src/state/process.rs, driven   *)
(* by the supervisor's tick and sample (crates/core/src/supervisor.rs) and *)
(* by the image judge's thread (crates/core/src/providers/process/mod.rs). *)
(*                                                                         *)
(* The machine starts and ends processes and replaces files while the core *)
(* reads; the core walks the rows of a snapshot one by one, asking the     *)
(* judge as it goes, so the judge interleaves with the walk.  A verdict is *)
(* abstracted to the version of the file it was given on, 0 being the      *)
(* default one, on no file: what the properties tell apart is whether a    *)
(* process shows a verdict on a file, and whether that file is older than  *)
(* the process.  The judge answers at once, with the default verdict, for  *)
(* a file that is not there or lies on another machine; it keeps its other *)
(* verdicts by the stamp of the file, if it can be read, in memory and     *)
(* across runs (signature_cache.rs); a stamp names a version, as on a      *)
(* volume with a change journal.                                           *)
(*                                                                         *)
(* `told` and `toldStates` follow the differences the way the picture does *)
(* (src/feed.rs, Picture::update); Feed.tla puts the channel in between.   *)
(***************************************************************************)
EXTENDS Integers, Sequences, FiniteSets

CONSTANTS
  Pids,        \* process ids
  Images,      \* image paths
  Remote,      \* those that name a file on another machine (is_remote)
  NoImage,     \* the empty path: the process could not be read
  States,      \* what a process may look like in a sample
  NoState,     \* ProcessState::default(), before the first look
  None,        \* no entry for the key
  MaxBorn,     \* bound: processes ever started
  MaxVersion   \* bound: the last version of a file

Paths == Images \cup {NoImage}
Row == [seq : Nat, image : Paths]
Entry == [seq : Nat, image : Paths, verdict : Nat, state : States \cup {NoState}]
\* The verdict of a running image is an Option: 0 while none came.
Running == [judged : BOOLEAN, verdict : Nat, processes : Int]
Image == [path : Images, verdict : Nat]
Stamped == [path : Images, stamp : Nat]
BeforeIt == [stamp : Nat, verdict : Nat]
CachedVerdict == [stamp : Nat, verdict : Nat, resolver : Nat]
Passport == [seq : Nat, image : Paths, verdict : Nat]
ToldState == [seq : Nat, state : States \cup {NoState}]

ASSUME PidsFinite == IsFiniteSet(Pids)
ASSUME ImagesAssumption == NoImage \notin Images /\ Remote \subseteq Images
ASSUME NoneAssumption ==
  None \notin Row \cup Entry \cup Running \cup Image \cup Passport \cup ToldState
             \cup Stamped \cup BeforeIt \cup CachedVerdict
ASSUME BoundsAssumption == MaxBorn \in Nat /\ MaxVersion \in Nat

VARIABLES
  running,     \* the machine: the process on each pid
  born,        \* the machine: the last sequence number given out
  file,        \* the machine: the version of the file at each path
  there,       \* the machine: the paths that have a file
  processes,   \* ProcessTable.processes
  images,      \* ProcessTable.images: the verdict and how many run it
  gone,        \* ProcessTable.gone
  passports,   \* ProcessTable.passports: pids whose passport moved
  states,      \* ProcessTable.states: pids whose state moved
  requests,    \* Images.requests, the judge's queue
  stamped,     \* the request the judge works on, with the stamp of the file
  judged_before, \* judged_before: the verdicts of this run
  persisted,   \* SignatureCache.verdicts, kept across runs
  judging,     \* the verdict the judge worked out and has not sent
  verdicts,    \* Images.verdicts, what the core has not taken
  pc,          \* where the core's thread is
  rows,        \* the snapshot it walks
  unread,      \* the pids of the rows it has not come to
  fresh,       \* Reader.fresh: a sample is held for the next tick
  told,        \* the passports a follower of the differences holds
  toldStates,  \* the states it holds
  since,       \* history: the version of its file when a process joined
  missed,      \* history: whether its file was out of reach since
  newest       \* history: the newest file a verdict shown of an image was on

machine == <<running, born, file, there>>
table == <<processes, images, gone, passports, states>>
kept == <<judged_before, persisted>>
judge == <<requests, stamped, kept, judging, verdicts>>
core == <<pc, rows, unread, fresh>>
follower == <<told, toldStates>>
history == <<since, missed, newest>>
vars == <<machine, table, judge, core, follower, history>>

PassportOf(entry) == [seq |-> entry.seq, image |-> entry.image, verdict |-> entry.verdict]
StateOf(entry) == [seq |-> entry.seq, state |-> entry.state]

Listed(p) == processes[p] # None
Runs(p, i) == Listed(p) /\ processes[p].image = i

\* The resolver of this build (RESOLVER); and the version a file has as the
\* agent starts, written after the one before it.
Resolver == 7
Installed == 2

\* What an earlier run left: nothing, a verdict of an older build, or one
\* that still holds.  (One on the file of before is as good as nothing.)
LeftBehind ==
  {None, [stamp |-> Installed, verdict |-> Installed - 1, resolver |-> Resolver - 1],
         [stamp |-> Installed, verdict |-> Installed, resolver |-> Resolver]}

Init ==
  /\ running = [p \in Pids |-> None]
  /\ born = 0
  /\ file = [i \in Images |-> Installed]
  /\ there = Images
  /\ processes = [p \in Pids |-> None]
  /\ images = [i \in Images |-> None]
  /\ gone = {} /\ passports = {} /\ states = {}
  /\ requests = <<>> /\ stamped = None /\ judging = None /\ verdicts = <<>>
  /\ judged_before = [i \in Images |-> None]
  /\ persisted \in {before \in [Images -> LeftBehind] : \A i \in Remote : before[i] = None}
  /\ pc = "start"
  /\ rows = [p \in Pids |-> None]
  /\ unread = {}
  /\ fresh = FALSE
  /\ told = [p \in Pids |-> None]
  /\ toldStates = [p \in Pids |-> None]
  /\ since = [p \in Pids |-> 0] /\ missed = [p \in Pids |-> FALSE]
  /\ newest = [i \in Images |-> 0]

\* No file to judge: it is on another machine, or gone (judge's first look).
OutOfReach(i) == i \in Remote \/ i \notin there

(***************************************************************************)
(* The machine.  A sequence number names one process for good; a pid goes  *)
(* to another process once its own is over.  A file is written, goes, and  *)
(* comes back as another version: the change journal counts each of these. *)
(* (What happens to files on other machines nobody looks at; a file whose  *)
(* attributes cannot be read is as good as gone.)                          *)
(***************************************************************************)
Starts(p, i) ==
  /\ running[p] = None
  /\ born < MaxBorn
  /\ i \in there
  /\ born' = born + 1
  /\ running' = [running EXCEPT ![p] = [seq |-> born + 1, image |-> i]]
  /\ UNCHANGED <<file, there, table, judge, core, follower, history>>

Ends(p) ==
  /\ running[p] # None
  /\ running' = [running EXCEPT ![p] = None]
  /\ UNCHANGED <<born, file, there, table, judge, core, follower, history>>

Replaced(i) ==
  /\ i \notin Remote
  /\ file[i] < MaxVersion
  /\ file' = [file EXCEPT ![i] = @ + 1]
  /\ there' = there \cup {i}
  /\ UNCHANGED <<running, born, table, judge, core, follower, history>>

Removed(i) ==
  /\ ~OutOfReach(i)
  /\ there' = there \ {i}
  /\ missed' = [p \in Pids |-> missed[p] \/ Runs(p, i)]
  /\ UNCHANGED <<running, born, file, table, judge, core, follower, since, newest>>

(***************************************************************************)
(* The judge's thread.  A file out of reach is answered at once, with the  *)
(* default verdict, and nothing is looked up or kept.  Otherwise it takes  *)
(* the stamp of the file -- which may fail --, then finds the verdict by   *)
(* it or works it out, and sends it.  The file may be replaced, or go, in  *)
(* between.                                                                *)
(***************************************************************************)
Free == stamped = None /\ judging = None /\ requests # <<>>

TurnsAway ==
  /\ Free
  /\ OutOfReach(Head(requests))
  /\ judging' = [path |-> Head(requests), verdict |-> 0]
  /\ requests' = Tail(requests)
  /\ UNCHANGED <<machine, table, stamped, kept, verdicts, core, follower, history>>

\* file_stamp found nothing.
NoStamp == 0
Stamps ==
  /\ Free
  /\ ~OutOfReach(Head(requests))
  /\ \E stamp \in {file[Head(requests)], NoStamp} :
       stamped' = [path |-> Head(requests), stamp |-> stamp]
  /\ requests' = Tail(requests)
  /\ UNCHANGED <<machine, table, kept, judging, verdicts, core, follower, history>>

\* Whether a verdict kept still answers for the file: of this run by its
\* stamp, of an earlier one by the build as well (describes).  A file without
\* a stamp has none.
Again(path, stamp) ==
  judged_before[path] # None /\ judged_before[path].stamp = stamp
DescribesAnyBuild(path, stamp) == persisted[path] # None /\ persisted[path].stamp = stamp
Describes(path, stamp) ==
  /\ persisted[path] # None
  /\ persisted[path].stamp = stamp /\ persisted[path].resolver = Resolver

\* A verdict worked out: on the file as it is by now, on none if it is gone.
WorkedOut(path) == IF path \in there THEN file[path] ELSE 0
VerdictOn(path, stamp) ==
  IF stamp = NoStamp THEN WorkedOut(path)
  ELSE IF Again(path, stamp) THEN judged_before[path].verdict
  ELSE IF Describes(path, stamp) THEN persisted[path].verdict
  ELSE WorkedOut(path)

\* It is remembered by the stamp, here and for the runs to come.
JudgedBefore(path, stamp, verdict) ==
  IF stamp = NoStamp THEN judged_before
  ELSE [judged_before EXCEPT ![path] = [stamp |-> stamp, verdict |-> verdict]]
Remembered(path, stamp, verdict) ==
  IF stamp = NoStamp \/ Again(path, stamp) \/ Describes(path, stamp) THEN persisted
  ELSE [persisted EXCEPT ![path] = [stamp |-> stamp, verdict |-> verdict, resolver |-> Resolver]]

Judges ==
  /\ stamped # None
  /\ LET path == stamped.path
         stamp == stamped.stamp
         verdict == VerdictOn(path, stamp)
     IN /\ judging' = [path |-> path, verdict |-> verdict]
        /\ judged_before' = JudgedBefore(path, stamp, verdict)
        /\ persisted' = Remembered(path, stamp, verdict)
  /\ stamped' = None
  /\ UNCHANGED <<machine, table, requests, verdicts, core, follower, history>>

\* Verdicts come in the order they were asked for.
SentFirst == <<judging>> \o verdicts
Sent == Append(verdicts, judging)

Tells ==
  /\ judging # None
  /\ verdicts' = Sent
  /\ judging' = None
  /\ UNCHANGED <<machine, table, requests, stamped, kept, core, follower, history>>

\* ProcessEntry::judged, and the image with it.
Judged(entry, verdict) == [entry EXCEPT !.verdict = verdict]
RunJudged(run, verdict) == [run EXCEPT !.judged = TRUE, !.verdict = verdict]

\* Whose passport that moves.
RetoldToNone(image) == {}
Retold(image) ==
  {p \in Pids : Runs(p, image.path) /\ processes[p].verdict # image.verdict}

(***************************************************************************)
(* ProcessTable::judge: the verdict goes to every process running the      *)
(* image, and is dropped when none does.                                   *)
(***************************************************************************)
Given(image) ==
  IF images[image.path] = None
  THEN UNCHANGED <<processes, images, passports, newest>>
  ELSE /\ processes' = [p \in Pids |-> IF Runs(p, image.path)
                                       THEN Judged(processes[p], image.verdict)
                                       ELSE processes[p]]
       /\ passports' = passports \cup Retold(image)
       /\ images' = [images EXCEPT ![image.path] = RunJudged(@, image.verdict)]
       /\ newest' = [newest EXCEPT ![image.path] = IF @ < image.verdict THEN image.verdict ELSE @]

\* Each verdict is applied, one after the other.
Rest == Tail(verdicts)

TakesVerdict ==
  /\ verdicts # <<>>
  /\ verdicts' = Rest
  /\ Given(Head(verdicts))
  /\ UNCHANGED <<machine, gone, states, requests, stamped, kept, judging, core, follower,
                 since, missed>>

(***************************************************************************)
(* Supervisor::start: the first snapshot, and a wait for the verdicts on   *)
(* its images that a deadline may cut short.                               *)
(***************************************************************************)
Pending == {i \in Images : images[i] # None /\ ~images[i].judged}

AwaitsVerdict == pc = "await" /\ Pending # {} /\ TakesVerdict

Started ==
  /\ pc = "await"
  /\ pc' = "idle"
  /\ UNCHANGED <<machine, table, judge, rows, unread, fresh, follower, history>>

(***************************************************************************)
(* Supervisor::tick: takes what the judge sent, samples when due and when  *)
(* no sample is held already, hands on what changed.                       *)
(***************************************************************************)
Ticks ==
  /\ pc = "idle"
  /\ pc' = "judged"
  /\ UNCHANGED <<machine, table, judge, rows, unread, fresh, follower, history>>

TickTakesVerdict == pc = "judged" /\ TakesVerdict

\* No interval is due, the sample due reads the machine alone, the list
\* could not be read, or the first sample is still held.
Skips ==
  /\ pc = "judged" /\ verdicts = <<>>
  /\ pc' = "take"
  /\ UNCHANGED <<machine, table, judge, rows, unread, fresh, follower, history>>

Reads ==
  /\ \/ pc = "start"
     \/ pc = "judged" /\ verdicts = <<>> /\ ~fresh
  /\ rows' = running
  /\ unread' = {p \in Pids : running[p] # None}
  /\ fresh' = (pc = "start")
  /\ pc' = "walk"
  /\ UNCHANGED <<machine, table, judge, follower, history>>

(***************************************************************************)
(* ProcessTable::reconcile, one row: a process already listed stays; any   *)
(* other joins with what its handle tells -- nothing, when it is over by   *)
(* now -- takes a verdict already known, and is asked about either way.    *)
(***************************************************************************)
Stays(p) == Listed(p) /\ processes[p].seq = rows[p].seq

\* What `images` becomes when a process of image i joins.
Acquired(im, i) ==
  IF i = NoImage THEN im
  ELSE IF im[i] = None THEN [im EXCEPT ![i] = [judged |-> FALSE, verdict |-> 0, processes |-> 1]]
  ELSE [im EXCEPT ![i].processes = @ + 1]

\* And when n of them leave: the image nobody runs is forgotten, verdict and all.
Dropped(run, n) ==
  IF run.processes = n THEN None ELSE [run EXCEPT !.processes = @ - n]

ReleasedNever(im, i) == im
Released(im, i) ==
  IF i = NoImage \/ im[i] = None THEN im ELSE [im EXCEPT ![i] = Dropped(@, 1)]

KnownVerdict(i) == IF i = NoImage \/ images[i] = None THEN 0 ELSE images[i].verdict

PassesOver(p) ==
  /\ pc = "walk" /\ p \in unread /\ Stays(p)
  /\ unread' = unread \ {p}
  /\ UNCHANGED <<machine, table, judge, pc, rows, fresh, follower, history>>

\* What opening the process finds as its image: its own; nothing, when it is
\* over or belongs to another by now; and, where the system does not tell
\* the sequence number of a handle, the image of whoever has the pid now.
Sights(p) == {rows[p].image, NoImage} \cup (IF running[p] = None THEN {} ELSE {running[p].image})

\* Each process that joins has its image judged anew, known or not.
Asked(i) == IF i = NoImage THEN requests ELSE Append(requests, i)

Joins(p, i) ==
  /\ pc = "walk" /\ p \in unread /\ ~Stays(p)
  /\ i \in Sights(p)
  /\ unread' = unread \ {p}
  /\ processes' = [processes EXCEPT ![p] = [seq |-> rows[p].seq, image |-> i,
                                            verdict |-> KnownVerdict(i), state |-> NoState]]
  /\ requests' = Asked(i)
  /\ images' = IF Listed(p) THEN Released(Acquired(images, i), processes[p].image)
                            ELSE Acquired(images, i)
  /\ gone' = IF Listed(p) THEN gone \cup {<<p, processes[p].seq>>} ELSE gone
  /\ passports' = passports \cup {p}
  /\ states' = states \cup {p}
  /\ since' = [since EXCEPT ![p] = IF i = NoImage THEN 0 ELSE file[i]]
  /\ missed' = [missed EXCEPT ![p] = i # NoImage /\ OutOfReach(i)]
  /\ UNCHANGED <<machine, stamped, kept, judging, verdicts, pc, rows, fresh, follower, newest>>

\* The end of reconcile: what the snapshot does not list leaves.
Leaving == {p \in Pids : Listed(p) /\ rows[p] = None}
LeavingRun(i) == {p \in Leaving : processes[p].image = i}

WalkCutShort == pc = "walk"
WalkIsOver == pc = "walk" /\ unread = {}

Retains ==
  /\ WalkIsOver
  /\ processes' = [p \in Pids |-> IF p \in Leaving THEN None ELSE processes[p]]
  /\ gone' = gone \cup {<<p, processes[p].seq>> : p \in Leaving}
  /\ passports' = passports \ Leaving
  /\ states' = states \ Leaving
  /\ images' = [i \in Images |->
                  IF images[i] = None \/ LeavingRun(i) = {} THEN images[i]
                  ELSE Dropped(images[i], Cardinality(LeavingRun(i)))]
  /\ since' = [p \in Pids |-> IF p \in Leaving THEN 0 ELSE since[p]]
  /\ missed' = [p \in Pids |-> p \notin Leaving /\ missed[p]]
  /\ pc' = "observe"
  /\ UNCHANGED <<machine, judge, rows, unread, fresh, follower, newest>>

\* ProcessTable::observe for every row of the sample.
Observes(seen) ==
  /\ pc = "observe"
  /\ processes' = [p \in Pids |-> IF Listed(p) THEN [processes[p] EXCEPT !.state = seen[p]]
                                               ELSE None]
  /\ states' = states \cup {p \in Pids : Listed(p) /\ processes[p].state # seen[p]}
  /\ rows' = [p \in Pids |-> None]
  /\ pc' = IF fresh THEN "await" ELSE "take"
  /\ UNCHANGED <<machine, images, gone, passports, judge, unread, fresh, follower, history>>

(***************************************************************************)
(* ProcessTable::take, and the follower that applies the difference: the   *)
(* ones gone first, each only if it is still the one it holds.             *)
(***************************************************************************)
Left(p) == told[p] # None /\ <<p, told[p].seq>> \in gone

Takes ==
  /\ pc = "take"
  /\ told' = [p \in Pids |-> IF p \in passports /\ Listed(p) THEN PassportOf(processes[p])
                             ELSE IF Left(p) THEN None ELSE told[p]]
  /\ toldStates' = [p \in Pids |-> IF p \in states /\ Listed(p) THEN StateOf(processes[p])
                                   ELSE IF Left(p) THEN None ELSE toldStates[p]]
  /\ gone' = {} /\ passports' = {} /\ states' = {}
  /\ fresh' = FALSE
  /\ pc' = "idle"
  /\ UNCHANGED <<machine, processes, images, judge, rows, unread, history>>

Machine == \/ \E p \in Pids, i \in Images : Starts(p, i)
           \/ \E p \in Pids : Ends(p)
           \/ \E i \in Images : Replaced(i) \/ Removed(i)
Judge == TurnsAway \/ Stamps \/ Judges \/ Tells
Walk == \/ \E p \in Pids : PassesOver(p)
        \/ \E p \in Pids, i \in Paths : Joins(p, i)
        \/ Retains
        \/ \E seen \in [Pids -> States] : Observes(seen)
Core == AwaitsVerdict \/ Started \/ Ticks \/ TickTakesVerdict \/ Skips \/ Reads \/ Walk \/ Takes

Next == Machine \/ Judge \/ Core
Spec == Init /\ [][Next]_vars

\* The judge's thread and the core's run as long as the agent does; the
\* machine owes nothing.
Fairness == WF_vars(Judge) /\ WF_vars(Core)
FairSpec == Spec /\ Fairness

-----------------------------------------------------------------------------
\* Each part of the state holds what its type in the code allows.
TypeOK ==
  /\ running \in [Pids -> Row \cup {None}]
  /\ born \in Nat
  /\ file \in [Images -> Nat]
  /\ there \subseteq Images
  /\ processes \in [Pids -> Entry \cup {None}]
  /\ images \in [Images -> Running \cup {None}]
  /\ gone \subseteq Pids \X Nat
  /\ passports \subseteq Pids
  /\ states \subseteq Pids
  /\ requests \in Seq(Images)
  /\ stamped \in Stamped \cup {None}
  /\ judged_before \in [Images -> BeforeIt \cup {None}]
  /\ persisted \in [Images -> CachedVerdict \cup {None}]
  /\ judging \in Image \cup {None}
  /\ verdicts \in Seq(Image)
  /\ pc \in {"start", "await", "idle", "judged", "walk", "observe", "take"}
  /\ rows \in [Pids -> Row \cup {None}]
  /\ unread \subseteq {p \in Pids : pc = "walk" /\ rows[p] # None}
  /\ fresh \in BOOLEAN
  /\ told \in [Pids -> Passport \cup {None}]
  /\ toldStates \in [Pids -> ToldState \cup {None}]
  /\ since \in [Pids -> Nat]
  /\ missed \in [Pids -> BOOLEAN]
  /\ newest \in [Images -> Nat]

\* Whoever has applied every difference handed on holds exactly the
\* processes of the table, with their verdicts and states: a pid that went
\* to another process between two samples replaces the first one, a verdict
\* that came for a process that then left brings nothing back (take, and
\* Picture::update).
DiffsSuffice ==
  pc = "idle" /\ ~fresh =>
    \A p \in Pids :
      /\ told[p] = IF Listed(p) THEN PassportOf(processes[p]) ELSE None
      /\ toldStates[p] = IF Listed(p) THEN StateOf(processes[p]) ELSE None

\* Why: what a listed process has told is current unless it is marked, what
\* the follower holds beside that is marked gone, and no mark of a process
\* gone names one that is listed.
Marked ==
  \A p \in Pids :
    /\ Listed(p) /\ p \notin passports => told[p] = PassportOf(processes[p])
    /\ Listed(p) /\ p \notin states => toldStates[p] = StateOf(processes[p])
    /\ told[p] # None => Left(p) \/ (Listed(p) /\ processes[p].seq = told[p].seq)
    /\ toldStates[p] # None => told[p] # None /\ toldStates[p].seq = told[p].seq
GoneAreGone ==
  \A g \in gone : /\ g[1] \notin unread
                  /\ ~Listed(g[1]) \/ processes[g[1]].seq # g[2]
TakenAtIdle ==
  /\ pc = "await" => fresh
  /\ pc = "start" => ~fresh
  /\ pc \in {"start", "idle", "judged"} /\ ~fresh => gone = {}
  /\ pc = "idle" /\ ~fresh => passports = {} /\ states = {}
DiffsInv == Marked /\ GoneAreGone /\ TakenAtIdle

\* An image is known exactly while some listed process runs it, and its
\* count is the number of them: the count never falls below nothing, and
\* no verdict outlives the last process (release).
ImagesCounted ==
  \A i \in Images :
    IF images[i] = None THEN \A p \in Pids : ~Runs(p, i)
    ELSE /\ images[i].processes = Cardinality({p \in Pids : Runs(p, i)})
         /\ images[i].processes > 0

\* Every process of an image shows the verdict of the image, whichever of
\* the two came first (reconcile and judge).
VerdictShared ==
  \A p \in Pids, i \in Images : Runs(p, i) => /\ images[i] # None
                                              /\ processes[p].verdict = images[i].verdict

\* So the images and the processes tell the same of each other, after any
\* run of reconciles and verdicts.
ImagesCoherent == ImagesCounted /\ VerdictShared

\* A verdict on image i is still to come: asked, being given, or sent.
Outstanding(i) ==
  \/ \E n \in 1..Len(requests) : requests[n] = i
  \/ stamped # None /\ stamped.path = i
  \/ judging # None /\ judging.path = i
  \/ \E n \in 1..Len(verdicts) : verdicts[n].path = i

\* A verdict does for a process on a file no older than the one it was
\* started from; or, by default, if its file was out of reach since.
Does(p, verdict) == verdict >= since[p] \/ (verdict = 0 /\ missed[p])

\* Once no answer is owed on an image, every process of it shows a verdict on
\* a file no older than the one it was started from -- a path already judged
\* is judged again for each process that joins (the comment on reconcile) --,
\* and the default verdict only if its file was gone, or out of reach, at
\* some time since it joined (judge).
JudgedAfresh ==
  \A p \in Pids, i \in Images :
    Runs(p, i) /\ ~Outstanding(i) => Does(p, processes[p].verdict)

\* Nobody is shown the verdict on an older file than a process of that image
\* was shown before, in the order the requests, the judge and the core's
\* ticks can fall, through files that go and come back, the default verdict
\* in between, and images forgotten and listed again.
VerdictNeverOlder ==
  \A p \in Pids, i \in Images : Runs(p, i) => processes[p].verdict \in {0, newest[i]}

\* Every image that is listed is judged in the end, even the ones the judge
\* never opens; and no follower shows a process without a verdict for good,
\* while its file stays within reach.
Unjudged(p) == told[p] # None /\ told[p].image # NoImage /\ told[p].verdict = 0 /\ ~missed[p]
JudgedInTheEnd ==
  /\ \A i \in Images : []<>(i \notin Pending)
  /\ \A p \in Pids : []<>~Unjudged(p)
=============================================================================

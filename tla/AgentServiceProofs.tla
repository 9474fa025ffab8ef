------------------------- MODULE AgentServiceProofs -------------------------
(***************************************************************************)
(* What holds of AgentService for any commands, calls and failures: what   *)
(* the SCM says is so, and the commands refine OneAtATime.                 *)
(***************************************************************************)
EXTENDS AgentService, TLAPS

\* The status is what was told last, and the pipe goes with the process.
Coherent ==
  /\ status = IF pc = "none" THEN Stopped ELSE Told(pc)
  /\ pc \in {"running", "stopping", "core_stopped"} => pipe \in {"current", "lost"}
  /\ pc \in {"stopping", "core_stopped"} => stopSent
  /\ pc = "none" => pipe \notin {"current", "lost"}

\* The targets taken are those of the commands under way.
Taken ==
  /\ \A t \in Targets : busy[t] # None =>
       busy[t] \in Commands /\ Pending(busy[t]) /\ ask[busy[t]].target = t
  /\ \A c \in Commands : Pending(c) => busy[ask[c].target] = c
  /\ \A c \in Calls : at[c] # "answered" => answer[c] = None
  /\ pipe = "none" => \A t \in Targets : busy[t] = None

Inv == TypeOK /\ Coherent /\ Taken

\* One call goes on, is answered, or stays where it is.
CallGoes(c) == Pending(c) /\ \E where \in UnderWay : Goes(c, where)
CallAnswered(c) == Pending(c) /\ \E a \in {"ok", "error"} : Reply(c, a)

\* What a step tells the SCM is of a status' type, and says "running" once it
\* runs and "stopping" once it stops.
LEMMA ToldType ==
  ASSUME NEW step \in Steps
  PROVE  /\ Told(step) \in [state : {"start_pending", "running", "stop_pending"}, checkpoint : 0..4]
         /\ Told(step).state = "running" <=> step = "running"
         /\ Told(step).state = "stop_pending" <=> step \in {"stopping", "core_stopped"}
<1>1. Count[step] \in 0..4
  BY DEF Steps, Starting, Count
<1>2. QED
  BY <1>1 DEF Told, Status, Steps, Starting

\* The SCM says stopped of no process, running of one that runs.
LEMMA StateTold ==
  ASSUME TypeOK, Coherent
  PROVE  /\ State = "stopped" <=> pc = "none"
         /\ State = "running" <=> pc = "running"
         /\ State = "stop_pending" <=> pc \in {"stopping", "core_stopped"}
<1>1. CASE pc = "none"
  BY <1>1 DEF Coherent, Stopped, Status, State
<1>2. CASE pc # "none"
  <2>1. pc \in Steps /\ status = Told(pc)
    BY <1>2 DEF TypeOK, Coherent
  <2>2. QED
    BY <1>2, <2>1, ToldType DEF State
<1>3. QED
  BY <1>1, <1>2

\* The invariant holds at first.
LEMMA InitInv == Init => Inv
<1> SUFFICES ASSUME Init PROVE Inv
  OBVIOUS
<1>1. "registered" \in Steps /\ "registered" # "none"
  BY DEF Steps, Starting
<1>2. status \in [state : {"stopped", "start_pending", "running", "stop_pending"}, checkpoint : 0..4]
  BY <1>1, ToldType DEF Init
<1>3. TypeOK
  <2>1. [action |-> "none", target |-> "service"]
          \in [action : ServiceActions \cup ProcessActions \cup AppActions \cup {"none"}, target : Targets]
    BY CallsAssumption DEF Targets
  <2>2. 0 \in 0..MaxFailures
    BY CallsAssumption
  <2>3. QED
    BY <1>1, <1>2, <2>1, <2>2 DEF Init, TypeOK, UnderWay
<1>4. Coherent
  BY <1>1 DEF Init, Coherent
<1>5. Taken
  BY DEF Init, Taken, Pending, UnderWay, Calls
<1>6. QED
  BY <1>3, <1>4, <1>5 DEF Inv

-----------------------------------------------------------------------------
\* The calls.
CallsType ==
  /\ busy \in [Targets -> Commands \cup {None}]
  /\ at \in [Calls -> UnderWay \cup {"unsent", "answered"}]
  /\ ask \in [Calls -> [action : ServiceActions \cup ProcessActions \cup AppActions \cup {"none"},
                        target : Targets]]
  /\ answer \in [Calls -> {None, "ok", "error", "busy", "lost"}]

\* A call that goes a step further is one of its kind still, and is taken
\* once.
LEMMA GoesKeeps ==
  ASSUME Inv, NEW c \in Calls, CallGoes(c), pipe' = pipe
  PROVE  CallsType' /\ Taken'
<1>1. PICK where \in UnderWay : Goes(c, where)
  BY DEF CallGoes
<1>2. CallsType'
  BY <1>1 DEF Inv, TypeOK, CallsType, Goes
<1>3. \A d \in Calls : Pending(d)' <=> Pending(d)
  BY <1>1 DEF Inv, TypeOK, CallGoes, Goes, Pending
<1>4. \A d \in Calls : at'[d] # "answered" => at[d] # "answered"
  BY <1>1 DEF Inv, TypeOK, CallGoes, Goes, Pending, UnderWay
<1>5. QED
  BY <1>1, <1>2, <1>3, <1>4 DEF Inv, Taken, Goes, Calls

\* So is a call that is answered.
LEMMA AnsweredKeeps ==
  ASSUME Inv, NEW c \in Calls, CallAnswered(c), pipe' = pipe
  PROVE  CallsType' /\ Taken'
<1>1. PICK a \in {"ok", "error"} : Reply(c, a)
  BY DEF CallAnswered
<1>2. ask[c].target \in Targets
  BY DEF Inv, TypeOK
<1>30. PICK h \in {"ok", "error", "lost"} : h = Heard(c, a)
  BY DEF Heard
<1>3. busy' = Free(c) /\ at' = [at EXCEPT ![c] = "answered"] /\ answer' = [answer EXCEPT ![c] = h] /\ ask' = ask
  BY <1>1, <1>30 DEF Reply
<1>4. CallsType'
  BY <1>2, <1>3 DEF Inv, TypeOK, CallsType, Free
<1>5. \A d \in Calls : d # c => (Pending(d)' <=> Pending(d)) /\ at'[d] = at[d] /\ answer'[d] = answer[d]
  BY <1>3 DEF Inv, TypeOK, Pending
<1>6. at'[c] = "answered" /\ ~Pending(c)'
  BY <1>3 DEF Inv, TypeOK, Pending, UnderWay
<1>7. \A t \in Targets : busy'[t] # None => busy'[t] = busy[t] /\ busy[t] # c
  <2>1. CASE c \in Commands
    <3>1. busy' = [busy EXCEPT ![ask[c].target] = None]
      BY <1>3, <2>1 DEF Free
    <3>2. QED
      BY <1>2, <3>1, <2>1 DEF Inv, TypeOK, Taken
  <2>2. CASE c \notin Commands
    BY <1>3, <2>2 DEF Free, Inv, Taken
  <2>3. QED
    BY <2>1, <2>2
<1>8. \A d \in Commands : d # c /\ Pending(d) => busy'[ask[d].target] = d
  <2> SUFFICES ASSUME NEW d \in Commands, d # c, Pending(d) PROVE busy'[ask[d].target] = d
    OBVIOUS
  <2>1. busy[ask[d].target] = d /\ ask[d].target \in Targets
    BY DEF Inv, Taken, TypeOK, Calls
  <2>2. c \in Commands => ask[c].target # ask[d].target
    BY <2>1 DEF Inv, Taken, CallAnswered
  <2>3. QED
    BY <1>2, <1>3, <2>1, <2>2 DEF Free, Inv, TypeOK
<1>9. \A t \in Targets : busy'[t] # None =>
        busy'[t] \in Commands /\ at'[busy'[t]] \in UnderWay /\ ask'[busy'[t]].target = t
  <2> SUFFICES ASSUME NEW t \in Targets, busy'[t] # None
               PROVE  busy'[t] \in Commands /\ at'[busy'[t]] \in UnderWay /\ ask'[busy'[t]].target = t
    OBVIOUS
  <2>1. busy'[t] = busy[t] /\ busy[t] # c /\ busy[t] # None
    BY <1>7
  <2>2. busy[t] \in Commands /\ Pending(busy[t]) /\ ask[busy[t]].target = t
    BY <2>1 DEF Inv, Taken
  <2>3. at'[busy[t]] = at[busy[t]]
    BY <1>5, <2>1, <2>2 DEF Calls
  <2>4. QED
    BY <1>3, <2>1, <2>2, <2>3 DEF Pending
<1>10. \A d \in Commands : Pending(d)' => busy'[ask'[d].target] = d
  BY <1>3, <1>5, <1>6, <1>8 DEF Calls
<1>11. \A d \in Calls : at'[d] # "answered" => answer'[d] = None
  BY <1>5, <1>6 DEF Inv, Taken
<1>12. pipe' = "none" => \A t \in Targets : busy'[t] = None
  BY <1>7 DEF Inv, Taken
<1>13. QED
  BY <1>4, <1>9, <1>10, <1>11, <1>12 DEF Taken, Pending

\* So are the calls whose answers are lost.
LEMMA LostKeeps ==
  ASSUME Inv, Lost
  PROVE  CallsType' /\ Taken'
<1>1. CallsType'
  BY DEF Inv, TypeOK, CallsType, Lost
<1>2. \A c \in Calls : at'[c] # "answered" => at'[c] = at[c] /\ answer'[c] = answer[c]
  BY DEF Lost
<1>3. \A c \in Commands : ~Pending(c)'
  BY DEF Lost, Pending, UnderWay, Calls
<1>4. \A t \in Targets : busy'[t] = None
  BY DEF Lost
<1>5. QED
  BY <1>1, <1>2, <1>3, <1>4 DEF Taken, Inv

\* A step that leaves the calls alone leaves what is taken alone.
LEMMA CallsStay ==
  ASSUME Inv, UNCHANGED calls, pipe' = "none" => pipe = "none"
  PROVE  CallsType' /\ Taken'
BY DEF Inv, TypeOK, CallsType, Taken, calls, Pending

-----------------------------------------------------------------------------
\* The process and the SCM.
ProcessType ==
  /\ status \in [state : {"stopped", "start_pending", "running", "stop_pending"}, checkpoint : 0..4]
  /\ recover \in BOOLEAN /\ deleted \in BOOLEAN /\ due \in BOOLEAN /\ stopSent \in BOOLEAN
  /\ pc \in Steps \cup {"none"} /\ pipe \in {"none", "current", "leaving", "lost"}
  /\ failures \in 0..MaxFailures

\* The types of the process and of the calls make up all types.
LEMMA TypeParts == TypeOK <=> ProcessType /\ CallsType
BY DEF TypeOK, ProcessType, CallsType

\* Whatever is told next, the status is of its type.
LEMMA TellType ==
  ASSUME NEW step \in Steps, Tell(step)
  PROVE  /\ status' \in [state : {"stopped", "start_pending", "running", "stop_pending"}, checkpoint : 0..4]
         /\ pc' \in Steps /\ pc' # "none" /\ status' = Told(pc')
<1>1. step # "none"
  BY DEF Steps, Starting
<1>2. QED
  BY <1>1, ToldType DEF Tell

\* A stopped service has a status.
LEMMA StoppedType == Stopped \in [state : {"stopped", "start_pending", "running", "stop_pending"}, checkpoint : 0..4]
BY DEF Stopped, Status

\* What a call does to the service.
CallMoves ==
  \/ Spawn /\ pc = "none" /\ due' \in BOOLEAN /\ UNCHANGED <<deleted, pipe, failures>>
  \/ stopSent' = TRUE /\ due' \in BOOLEAN /\ UNCHANGED <<status, recover, deleted, pc, pipe, failures>>
  \/ deleted' \in BOOLEAN /\ UNCHANGED <<status, recover, process, due>>

\* A process started leaves the status coherent: it is the one just
\* registered.
LEMMA SpawnKeeps ==
  ASSUME Inv, Spawn, pc = "none", due' \in BOOLEAN, UNCHANGED <<deleted, pipe, failures>>
  PROVE  ProcessType' /\ Coherent'
<1>1. "registered" \in Steps
  BY DEF Steps, Starting
<1>2. Tell("registered")
  BY DEF Spawn, Tell
<1>3. ProcessType'
  BY <1>1, <1>2, TellType DEF Inv, TypeOK, ProcessType, Spawn
<1>4. pc' = "registered" /\ status' = Told(pc')
  BY DEF Spawn
<1>5. QED
  BY <1>3, <1>4 DEF Coherent

\* What a call does to the service leaves the status coherent.
LEMMA CallMovesKeep ==
  ASSUME Inv, CallMoves
  PROVE  ProcessType' /\ Coherent' /\ pipe' = pipe
<1>1. CASE Spawn /\ pc = "none" /\ due' \in BOOLEAN /\ UNCHANGED <<deleted, pipe, failures>>
  BY <1>1, SpawnKeeps
<1>2. CASE stopSent' = TRUE /\ due' \in BOOLEAN /\ UNCHANGED <<status, recover, deleted, pc, pipe, failures>>
  BY <1>2 DEF Inv, TypeOK, ProcessType, Coherent
<1>3. CASE deleted' \in BOOLEAN /\ UNCHANGED <<status, recover, process, due>>
  BY <1>3 DEF Inv, TypeOK, ProcessType, Coherent, process
<1>4. QED
  BY <1>1, <1>2, <1>3 DEF CallMoves

-----------------------------------------------------------------------------
\* Every step of a call: where the call goes, and what the service does.
CallDoes(c) ==
  /\ CallGoes(c) \/ CallAnswered(c) \/ UNCHANGED calls
  /\ CallMoves

\* A step of a call is one of the above.
LEMMA CallStep ==
  ASSUME Inv, NEW c \in Calls, CallSteps(c)
  PROVE  CallDoes(c)
<1> USE DEF CallDoes, CallGoes, CallAnswered, Pending, UnderWay, On
<1>0. deleted \in BOOLEAN /\ due \in BOOLEAN /\ (State = "stopped" => pc = "none")
  BY StateTold DEF Inv, TypeOK
<1>1. CASE Begins(c)
  BY <1>0, <1>1 DEF Begins, CallMoves, scm
<1>2. CASE OnProcess(c)
  BY <1>0, <1>2 DEF OnProcess, CallMoves, scm
<1>3. CASE Starts(c)
  BY <1>0, <1>3 DEF Starts, CallMoves, scm
<1>4. CASE Stops(c)
  BY <1>0, <1>4 DEF Stops, StopTaken, CallMoves, scm
<1>5. CASE NotActive(c)
  BY <1>0, <1>5 DEF NotActive, CallMoves, scm
<1>6. CASE Refused(c)
  BY <1>0, <1>6 DEF Refused, CallMoves, scm
<1>7. CASE Waited(c)
  BY <1>0, <1>7 DEF Waited, CallMoves, scm
<1>8. CASE TimesOut(c)
  BY <1>0, <1>8 DEF TimesOut, CallMoves, scm
<1>9. CASE AsksToStop(c)
  BY <1>0, <1>9 DEF AsksToStop, StopTaken, CallMoves, scm
<1>10. CASE SeesStopped(c)
  BY <1>0, <1>10 DEF SeesStopped, CallMoves, scm
<1>11. CASE Deletes(c)
  BY <1>0, <1>11 DEF Deletes, CallMoves
<1>12. QED
  BY <1>1, <1>2, <1>3, <1>4, <1>5, <1>6, <1>7, <1>8, <1>9, <1>10, <1>11 DEF CallSteps

\* A step of a call keeps the invariant.
LEMMA CallKeeps ==
  ASSUME Inv, NEW c \in Calls, CallSteps(c)
  PROVE  Inv'
<1>1. CallDoes(c)
  BY CallStep
<1>2. ProcessType' /\ Coherent' /\ pipe' = pipe
  BY <1>1, CallMovesKeep DEF CallDoes
<1>3. CallsType' /\ Taken'
  BY <1>1, <1>2, GoesKeeps, AnsweredKeeps, CallsStay DEF CallDoes
<1>4. QED
  BY <1>2, <1>3, TypeParts DEF Inv, TypeOK, ProcessType, CallsType

\* A client's command is taken or refused, an app's call begins.
LEMMA SendsKeeps ==
  ASSUME Inv, NEW c \in Commands, NEW t \in Targets, NEW a \in ServiceActions \cup ProcessActions,
         Takes(c, t, a) \/ IsBusy(c, t, a)
  PROVE  CallsType' /\ Taken'
<1>1. c \in Calls /\ at[c] = "unsent" /\ ~Pending(c) /\ pipe # "none" /\ pipe' = pipe
      /\ ask' = [ask EXCEPT ![c] = [action |-> a, target |-> t]]
  BY DEF Takes, IsBusy, Serves, Asked, Pending, UnderWay, Calls, process
<1>2. [action |-> a, target |-> t] \in [action : ServiceActions \cup ProcessActions \cup AppActions \cup {"none"}, target : Targets]
  OBVIOUS
<1>3. ask' \in [Calls -> [action : ServiceActions \cup ProcessActions \cup AppActions \cup {"none"}, target : Targets]]
  BY <1>1, <1>2 DEF Inv, TypeOK
<1>4. ask'[c].target = t /\ \A d \in Calls : d # c => ask'[d] = ask[d]
  BY <1>1 DEF Inv, TypeOK
<1>5. CASE Takes(c, t, a)
  <2>1. busy' = [busy EXCEPT ![t] = c] /\ at' = [at EXCEPT ![c] = "queued"] /\ answer' = answer /\ busy[t] = None
    BY <1>5 DEF Takes, IsFree
  <2>2. CallsType'
    BY <1>1, <1>3, <2>1 DEF Inv, TypeOK, CallsType, UnderWay
  <2>3. \A u \in Targets : busy'[u] # None =>
          busy'[u] \in Commands /\ at'[busy'[u]] \in UnderWay /\ ask'[busy'[u]].target = u
    <3> SUFFICES ASSUME NEW u \in Targets, busy'[u] # None
                 PROVE  busy'[u] \in Commands /\ at'[busy'[u]] \in UnderWay /\ ask'[busy'[u]].target = u
      OBVIOUS
    <3>1. CASE u = t
      BY <1>1, <1>4, <2>1, <3>1 DEF Inv, TypeOK, UnderWay
    <3>2. CASE u # t
      <4>1. busy'[u] = busy[u] /\ busy[u] \in Commands /\ Pending(busy[u]) /\ ask[busy[u]].target = u
        BY <2>1, <3>2 DEF Inv, TypeOK, Taken
      <4>2. busy[u] # c /\ busy[u] \in Calls
        BY <1>1, <4>1 DEF Calls
      <4>3. QED
        BY <1>4, <2>1, <4>1, <4>2 DEF Inv, TypeOK, Pending
    <3>3. QED
      BY <3>1, <3>2
  <2>4. \A d \in Commands : at'[d] \in UnderWay => busy'[ask'[d].target] = d
    <3> SUFFICES ASSUME NEW d \in Commands, at'[d] \in UnderWay
                 PROVE  busy'[ask'[d].target] = d
      OBVIOUS
    <3>1. CASE d = c
      BY <1>4, <2>1, <3>1 DEF Inv, TypeOK
    <3>2. CASE d # c
      <4>1. d \in Calls /\ at'[d] = at[d] /\ ask'[d] = ask[d]
        BY <1>4, <2>1, <3>2 DEF Inv, TypeOK, Calls
      <4>2. busy[ask[d].target] = d /\ ask[d].target \in Targets
        BY <4>1 DEF Inv, TypeOK, Taken, Pending
      <4>3. d # None
        BY CallsAssumption
      <4>4. QED
        BY <2>1, <4>1, <4>2, <4>3 DEF Inv, TypeOK
    <3>3. QED
      BY <3>1, <3>2
  <2>5. \A d \in Calls : at'[d] # "answered" => answer'[d] = None
    BY <1>1, <2>1 DEF Inv, TypeOK, Taken
  <2>6. QED
    BY <1>1, <2>2, <2>3, <2>4, <2>5 DEF Taken, Pending
<1>6. CASE IsBusy(c, t, a)
  <2>1. busy' = busy /\ at' = [at EXCEPT ![c] = "answered"] /\ answer' = [answer EXCEPT ![c] = "busy"]
    BY <1>6 DEF IsBusy
  <2>2. CallsType'
    BY <1>1, <1>3, <2>1 DEF Inv, TypeOK, CallsType
  <2>3. \A d \in Calls : d # c => at'[d] = at[d] /\ answer'[d] = answer[d] /\ ask'[d] = ask[d]
    BY <1>4, <2>1 DEF Inv, TypeOK
  <2>4. at'[c] = "answered"
    BY <1>1, <2>1 DEF Inv, TypeOK
  <2>5. \A u \in Targets : busy[u] # c
    BY <1>1, CallsAssumption DEF Inv, Taken
  <2>6. \A d \in Calls : at'[d] # "answered" => answer'[d] = None
    BY <2>3, <2>4 DEF Inv, Taken
  <2>7. \A d \in Commands : at'[d] \in UnderWay => busy'[ask'[d].target] = d
    BY <2>1, <2>3, <2>4 DEF Inv, Taken, Pending, UnderWay, Calls
  <2>8. \A u \in Targets : busy'[u] # None =>
          busy'[u] \in Commands /\ at'[busy'[u]] \in UnderWay /\ ask'[busy'[u]].target = u
    BY <2>1, <2>3, <2>5 DEF Inv, Taken, Pending, Calls
  <2>9. QED
    BY <1>1, <2>1, <2>2, <2>6, <2>7, <2>8 DEF Taken, Pending
<1>7. QED
  BY <1>5, <1>6

\* An application that asks the SCM itself takes no slot.
LEMMA AppAsksKeeps ==
  ASSUME Inv, NEW c \in Apps, NEW a \in AppActions, AppAsks(c, a)
  PROVE  CallsType' /\ Taken'
<1>1. c \in Calls /\ c \notin Commands /\ at[c] = "unsent" /\ pipe' = pipe
  BY CallsAssumption DEF AppAsks, Asked, Calls, process
<1>2. ask' = [ask EXCEPT ![c] = [action |-> a, target |-> "service"]] /\ at' = [at EXCEPT ![c] = "asking"]
      /\ busy' = busy /\ answer' = answer
  BY DEF AppAsks, Asked
<1>3. [action |-> a, target |-> "service"] \in [action : ServiceActions \cup ProcessActions \cup AppActions \cup {"none"}, target : Targets]
  BY CallsAssumption DEF Targets
<1>4. CallsType'
  BY <1>2, <1>3 DEF Inv, TypeOK, CallsType, UnderWay
<1>5. \A d \in Calls : d # c => at'[d] = at[d] /\ ask'[d] = ask[d]
  BY <1>2 DEF Inv, TypeOK
<1>6. \A d \in Calls : at'[d] # "answered" => answer'[d] = None
  BY <1>1, <1>2, <1>5 DEF Inv, Taken
<1>7. \A d \in Commands : at'[d] = at[d] /\ ask'[d] = ask[d]
  BY <1>1, <1>5 DEF Calls
<1>8. QED
  BY <1>1, <1>2, <1>4, <1>6, <1>7 DEF Taken, Pending, Inv

-----------------------------------------------------------------------------
\* A step of the process that tells where it is, and leaves the rest.
LEMMA TellsKeeps ==
  ASSUME Inv, NEW step \in Steps, Tell(step), pc \in Steps,
         step \in {"running", "stopping", "core_stopped"} => pipe \in {"current", "lost"},
         step \in {"stopping", "core_stopped"} => stopSent,
         UNCHANGED <<recover, deleted, stopSent, pipe, failures, calls, due>>
  PROVE  Inv'
<1>1. /\ status' \in [state : {"stopped", "start_pending", "running", "stop_pending"}, checkpoint : 0..4]
      /\ pc' \in Steps /\ pc' # "none" /\ status' = Told(pc') /\ pc' = step
  BY TellType DEF Tell
<1>2. ProcessType'
  BY <1>1 DEF Inv, TypeOK, ProcessType
<1>3. Coherent'
  BY <1>1 DEF Coherent
<1>4. QED
  BY <1>2, <1>3, CallsStay, TypeParts DEF Inv, TypeOK, ProcessType, CallsType

\* A step of the service's process keeps the invariant.
LEMMA ProcessKeeps ==
  ASSUME Inv, ProcessSteps
  PROVE  Inv'
<1>1. CASE Progresses
  <2>1. After[pc] \in Steps \ {"running", "stopping", "core_stopped"} /\ pc \in Steps
    BY <1>1 DEF Progresses, After, Steps, Starting
  <2>2. Tell(After[pc]) /\ UNCHANGED <<recover, deleted, stopSent, pipe, failures, calls, due>>
    BY <1>1 DEF Progresses
  <2>3. QED
    BY <2>1, <2>2, TellsKeeps
<1>2. CASE Binds
  <2>1. ProcessType' /\ Coherent'
    BY <1>2 DEF Binds, Inv, TypeOK, ProcessType, Coherent, scm
  <2>2. CallsType' /\ Taken'
    BY <1>2, CallsStay DEF Binds
  <2>3. QED
    BY <2>1, <2>2 DEF Inv, TypeOK, ProcessType, CallsType
<1>3. CASE Runs
  BY <1>3, TellsKeeps DEF Runs, IsBound, Steps, Starting
<1>4. CASE Stopping
  BY <1>4, TellsKeeps DEF Stopping, Steps, Inv, Coherent
<1>5. CASE CoreStops
  BY <1>5, TellsKeeps DEF CoreStops, Steps, Inv, Coherent
<1>6. CASE Ends
  <2>1. ProcessType' /\ Coherent'
    BY <1>6, StoppedType DEF Ends, Inv, TypeOK, ProcessType, Coherent
  <2>2. CallsType' /\ Taken'
    BY <1>6, CallsStay, LostKeeps DEF Ends
  <2>3. QED
    BY <2>1, <2>2 DEF Inv, TypeOK, ProcessType, CallsType
<1>7. CASE BindFails
  <2>1. ProcessType' /\ Coherent'
    BY <1>7, StoppedType DEF BindFails, StartFails, FailedToStart, Inv, TypeOK, ProcessType, Coherent
  <2>2. CallsType' /\ Taken'
    BY <1>7, CallsStay DEF BindFails, StartFails
  <2>3. QED
    BY <2>1, <2>2 DEF Inv, TypeOK, ProcessType, CallsType
<1>8. QED
  BY <1>1, <1>2, <1>3, <1>4, <1>5, <1>6, <1>7 DEF ProcessSteps

\* Exits, failures, pipes lost, crashes and recoveries keep the invariant.
LEMMA FaultsKeep ==
  ASSUME Inv, PipeStops \/ Exits \/ Fails \/ Crashes \/ Recovers
  PROVE  Inv'
<1>0. failures < MaxFailures => failures + 1 \in 0..MaxFailures
  BY CallsAssumption DEF Inv, TypeOK
<1>1. CASE Exits
  <2>1. pc \notin {"running", "stopping", "core_stopped"}
    BY <1>1 DEF Exits, Inv, Coherent
  <2>2. ProcessType' /\ Coherent'
    BY <1>1, <2>1 DEF Exits, Inv, TypeOK, ProcessType, Coherent, scm
  <2>3. CallsType' /\ Taken'
    BY <1>1, LostKeeps DEF Exits
  <2>4. QED
    BY <2>2, <2>3 DEF Inv, TypeOK, ProcessType, CallsType
<1>2. CASE Fails
  <2>1. ProcessType' /\ Coherent'
    BY <1>0, <1>2, StoppedType DEF Fails, StartFails, FailedToStart, IsBound, Inv, TypeOK, ProcessType, Coherent
  <2>2. CallsType' /\ Taken'
    BY <1>2, CallsStay DEF Fails, StartFails
  <2>3. QED
    BY <2>1, <2>2 DEF Inv, TypeOK, ProcessType, CallsType
<1>3. CASE Crashes
  <2>1. ProcessType' /\ Coherent'
    BY <1>0, <1>3, StoppedType DEF Crashes, IsBound, Inv, TypeOK, ProcessType, Coherent
  <2>2. CASE IsBound
    BY <1>3, <2>1, <2>2, LostKeeps DEF Crashes, Inv, TypeOK, ProcessType, CallsType
  <2>3. CASE ~IsBound
    BY <1>3, <2>1, <2>3, CallsStay DEF Crashes, Inv, TypeOK, ProcessType, CallsType
  <2>4. QED
    BY <2>2, <2>3
<1>4. CASE Recovers
  <2>1. pc = "none"
    BY <1>4, StateTold DEF Recovers, Inv
  <2>2. ProcessType' /\ Coherent'
    BY <1>4, <2>1, SpawnKeeps DEF Recovers, Inv, TypeOK
  <2>3. CallsType' /\ Taken'
    BY <1>4, CallsStay DEF Recovers
  <2>4. QED
    BY <2>2, <2>3 DEF Inv, TypeOK, ProcessType, CallsType
<1>5. CASE PipeStops
  <2>1. ProcessType' /\ Coherent'
    BY <1>0, <1>5 DEF PipeStops, Inv, TypeOK, ProcessType, Coherent, scm
  <2>2. CallsType' /\ Taken'
    BY <1>5, CallsStay DEF PipeStops
  <2>3. QED
    BY <2>1, <2>2 DEF Inv, TypeOK, ProcessType, CallsType
<1>6. QED
  BY <1>1, <1>2, <1>3, <1>4, <1>5

\* Every step keeps the invariant.
LEMMA NextKeeps == Inv /\ [Next]_vars => Inv'
<1> SUFFICES ASSUME Inv, [Next]_vars PROVE Inv'
  OBVIOUS
<1>1. CASE ProcessSteps
  BY <1>1, ProcessKeeps
<1>2. CASE PipeStops \/ Exits \/ Fails \/ Crashes \/ Recovers
  BY <1>2, FaultsKeep
<1>3. ASSUME NEW c \in Commands, NEW t \in Targets, NEW a \in ServiceActions \cup ProcessActions,
             Takes(c, t, a) \/ IsBusy(c, t, a)
      PROVE  Inv'
  <2>1. ProcessType' /\ Coherent'
    BY <1>3 DEF Takes, IsBusy, Inv, TypeOK, ProcessType, Coherent, scm, process
  <2>2. QED
    BY <1>3, <2>1, SendsKeeps DEF Inv, TypeOK, ProcessType, CallsType
<1>4. ASSUME NEW c \in Apps, NEW a \in AppActions, AppAsks(c, a)
      PROVE  Inv'
  <2>1. ProcessType' /\ Coherent'
    BY <1>4 DEF AppAsks, Inv, TypeOK, ProcessType, Coherent, scm, process
  <2>2. QED
    BY <1>4, <2>1, AppAsksKeeps DEF Inv, TypeOK, ProcessType, CallsType
<1>5. ASSUME NEW c \in Calls, CallSteps(c)
      PROVE  Inv'
  BY <1>5, CallKeeps
<1>6. CASE UNCHANGED vars
  <2>1. ProcessType' /\ Coherent'
    BY <1>6 DEF vars, scm, process, Inv, TypeOK, ProcessType, Coherent
  <2>2. UNCHANGED calls /\ UNCHANGED pipe
    BY <1>6 DEF vars, process
  <2>3. QED
    BY <2>1, <2>2, CallsStay DEF Inv, TypeOK, ProcessType, CallsType
<1>7. Spellings \subseteq Targets /\ Processes \subseteq Targets
  BY DEF Targets
<1>8. QED
  BY <1>1, <1>2, <1>3, <1>4, <1>5, <1>6, <1>7 DEF Next

\* What the SCM says of the service is so, at every time: a service said to
\* run has a process that bound the pipe, a stopped one has no process, one
\* said to stop was asked to after it ran.
THEOREM StatusAlwaysTrue == Spec => []StatusIsTrue
<1>1. Inv => StatusIsTrue
  BY StateTold DEF Inv, StatusIsTrue, Coherent
<1>2. QED
  BY <1>1, InitInv, NextKeeps, PTL DEF Spec

-----------------------------------------------------------------------------
\* The commands are those of OneAtATime, step for step.
Shown == [c \in Commands |-> Answer(answer[c])]

\* What each answer is in the abstract specification.
LEMMA AnswerShown ==
  /\ Answer(None) = None /\ Answer("ok") = "done" /\ Answer("error") = "error"
  /\ Answer("busy") = "busy" /\ Answer("lost") = "lost"
BY CallsAssumption DEF Answer

\* The initial states are initial states of the abstract specification.
LEMMA InitShown == Init => Abstract!Init
<1> SUFFICES ASSUME Init PROVE Abstract!Init
  OBVIOUS
<1>1. \A c \in Commands : answer[c] = None
  BY DEF Init, Calls
<1>2. QED
  BY <1>1, AnswerShown DEF Init, Abstract!Init

\* The end of a process ends what it had under way.
LEMMA LostShown ==
  ASSUME Inv, Lost
  PROVE  Abstract!Ends
<1>1. ASSUME NEW c \in Commands
      PROVE  Answer(answer'[c]) = IF \E t \in Targets : busy[t] = c THEN "lost" ELSE Answer(answer[c])
  <2>1. c \in Calls /\ c # None
    BY CallsAssumption DEF Calls
  <2>2. Pending(c) <=> \E t \in Targets : busy[t] = c
    BY <2>1 DEF Inv, Taken, TypeOK
  <2>3. answer'[c] = IF Pending(c) THEN "lost" ELSE answer[c]
    BY <2>1 DEF Lost
  <2>4. QED
    BY <2>2, <2>3, AnswerShown
<1>2. busy' = [t \in Targets |-> None]
  BY DEF Lost
<1>3. QED
  BY <1>1, <1>2 DEF Abstract!Ends

\* A step of a call is a step of the abstract specification, or none.
LEMMA CallShown ==
  ASSUME Inv, NEW c \in Calls, CallSteps(c)
  PROVE  [Abstract!Next]_(Abstract!vars)
<1>1. CASE CallGoes(c) \/ UNCHANGED calls
  BY <1>1 DEF CallGoes, Goes, calls, Abstract!vars
<1>2. CASE CallAnswered(c) /\ c \notin Commands
  <2>1. busy' = busy /\ \A d \in Commands : answer'[d] = answer[d]
    BY <1>2 DEF CallAnswered, Reply, Free, Inv, TypeOK, Calls
  <2>2. QED
    BY <2>1 DEF Abstract!vars
<1>3. CASE CallAnswered(c) /\ c \in Commands
  <2>1. PICK a \in {"ok", "error"} : Reply(c, a)
    BY <1>3 DEF CallAnswered
  <2> DEFINE t == ask[c].target
  <2>2. t \in Targets /\ busy[t] = c /\ c # None
    BY <1>3, CallsAssumption DEF CallAnswered, Inv, Taken, TypeOK, Calls
  <2> DEFINE h == Heard(c, a)
  <2>3. busy' = [busy EXCEPT ![t] = None] /\ answer' = [answer EXCEPT ![c] = h]
    BY <1>3, <2>1 DEF Reply, Free
  <2>4. Answer(h) \in {"done", "error", "lost"}
    BY AnswerShown DEF Heard
  <2>5. [d \in Commands |-> Answer(answer'[d])] = [[d \in Commands |-> Answer(answer[d])] EXCEPT ![c] = Answer(h)]
    BY <1>3, <2>3 DEF Inv, TypeOK, Calls
  <2> HIDE DEF t, h
  <2>6. Abstract!Answers(t, Answer(h))
    BY <2>2, <2>3, <2>5 DEF Abstract!Answers
  <2>7. QED
    BY <2>2, <2>4, <2>6 DEF Abstract!Next
<1>4. QED
  BY <1>1, <1>2, <1>3, CallStep DEF CallDoes

\* So is a call sent, taken or refused.
LEMMA SendsShown ==
  ASSUME Inv, NEW c \in Commands, NEW t \in Targets, NEW a \in ServiceActions \cup ProcessActions,
         Takes(c, t, a) \/ IsBusy(c, t, a)
  PROVE  Abstract!Next
<1>1. c \in Calls /\ at[c] = "unsent" /\ answer[c] = None /\ c # None
  BY CallsAssumption DEF Takes, IsBusy, Asked, Calls, Inv, Taken
<1>2. Abstract!Unsent(c)
  BY <1>1, AnswerShown DEF Abstract!Unsent, Inv, Taken, Pending, UnderWay
<1>3. CASE Takes(c, t, a)
  <2>1. Abstract!Takes(c, t)
    BY <1>2, <1>3 DEF Takes, IsFree, Abstract!Takes
  <2>2. QED
    BY <2>1 DEF Abstract!Next
<1>4. CASE IsBusy(c, t, a)
  <2>1. [d \in Commands |-> Answer(answer'[d])] = [[d \in Commands |-> Answer(answer[d])] EXCEPT ![c] = "busy"]
    BY <1>4, AnswerShown DEF IsBusy, Inv, TypeOK, Calls
  <2>2. Abstract!Refuses(c, t)
    BY <1>2, <1>4, <2>1 DEF IsBusy, Abstract!Refuses
  <2>3. QED
    BY <2>2 DEF Abstract!Next
<1>5. QED
  BY <1>3, <1>4

\* So is every step.
LEMMA NextShown == Inv /\ [Next]_vars => [Abstract!Next]_(Abstract!vars)
<1> SUFFICES ASSUME Inv, [Next]_vars PROVE [Abstract!Next]_(Abstract!vars)
  OBVIOUS
<1>1. CASE UNCHANGED calls
  BY <1>1 DEF calls, Abstract!vars
<1>2. CASE Lost
  BY <1>2, LostShown DEF Abstract!Next
<1>3. ASSUME NEW c \in Commands, NEW t \in Targets, NEW a \in ServiceActions \cup ProcessActions,
             Takes(c, t, a) \/ IsBusy(c, t, a)
      PROVE  Abstract!Next
  BY <1>3, SendsShown
<1>4. ASSUME NEW c \in Apps, NEW a \in AppActions, AppAsks(c, a)
      PROVE  UNCHANGED Abstract!vars
  BY <1>4 DEF AppAsks, Abstract!vars
<1>5. ASSUME NEW c \in Calls, CallSteps(c)
      PROVE  [Abstract!Next]_(Abstract!vars)
  BY <1>5, CallShown
<1>6. ProcessSteps => Lost \/ UNCHANGED calls
  BY DEF ProcessSteps, Progresses, Binds, Runs, Stopping, CoreStops, Ends, BindFails, StartFails
<1>7. PipeStops \/ Exits \/ Fails \/ Crashes \/ Recovers => Lost \/ UNCHANGED calls
  BY DEF PipeStops, Exits, Fails, StartFails, Crashes, Recovers
<1>8. Spellings \subseteq Targets /\ Processes \subseteq Targets
  BY DEF Targets
<1>9. QED
  BY <1>1, <1>2, <1>3, <1>4, <1>5, <1>6, <1>7, <1>8 DEF Next, vars

\* The commands the agent takes, answers and loses are those OneAtATime
\* allows: two for one target - a process, or a service as its name is
\* spelled - never run together, not even in a process that leaves and the
\* next one (its fairness is left to TLC).
THEOREM CommandsRefineOneAtATime == Spec => Abstract!Init /\ [][Abstract!Next]_(Abstract!vars)
<1>1. QED
  BY InitShown, InitInv, NextKeeps, NextShown, PTL DEF Spec
=============================================================================

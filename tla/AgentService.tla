---------------------------- MODULE AgentService ----------------------------
(***************************************************************************)
(* The agent as a Windows service: its process from the SCM's start to its *)
(* exit (crates/service/src/service.rs), the commands it runs for clients  *)
(* (src/commands), and apps that start, stop, restart and uninstall it     *)
(* through the SCM (src/scm/own.rs, control.rs).  A command may itself be  *)
(* about the agent's service.                                              *)
(*                                                                         *)
(* External: the SCM (one status per service, a stop is passed on only     *)
(* while the service accepts it, a process that fails is started again),   *)
(* the pipe's name, held by one process at a time, and the kit's Runner.   *)
(* The SCM does not tell the case of a service's name; the agent does.     *)
(***************************************************************************)
EXTENDS Integers, FiniteSets

CONSTANTS
  Commands,     \* commands clients send, each once
  Apps,         \* calls apps make, each once
  Processes,    \* processes commands are about
  Self,         \* among them: the agent's own
  Spellings,    \* names the SCM takes for the agent's service, "service" its own
  Workers,      \* threads commands run on
  MaxFailures,  \* bound: failed starts, crashes and pipes lost
  None

ASSUME CallsAssumption ==
  /\ Commands \cap Apps = {} /\ None \notin Commands \cup Apps
  /\ None \notin {"ok", "error", "busy", "lost"}
  /\ "service" \in Spellings /\ Spellings \cap Processes = {} /\ MaxFailures \in Nat

Calls == Commands \cup Apps
\* Target: a service is told by its name as the client wrote it.
Targets == Processes \cup Spellings
ServiceActions == {"start", "stop", "restart", "pause"}
ProcessActions == {"kill", "set_priority"}
AppActions == {"start", "stop", "restart", "uninstall"}

VARIABLES
  status,     \* the SCM: the service's status
  recover,    \* the SCM: the process failed and is to be started again
  deleted,    \* the SCM: the service is deleted
  pc,         \* the step of the service's process, "none" without one
  stopSent,   \* the control handler's channel has a stop
  pipe,       \* who holds the pipe: "none", this process, or one leaving; or this one lost it
  failures,   \* failures so far, for the bound
  busy,       \* Runner: the command taken for each target
  at,         \* where each call is
  ask,        \* what each call asks for
  answer,     \* its answer
  due         \* history: the service is to run, as last asked or failed

scm == <<status, recover, deleted>>
process == <<pc, stopSent, pipe, failures>>
calls == <<busy, at, ask, answer>>
vars == <<scm, process, calls, due>>

-----------------------------------------------------------------------------
\* What the SCM is told at each step; the SCM itself says as much of a process
\* it spawned as the process does once it has registered.
Starting == {"registered", "signature_cache", "sessions", "first_snapshot", "verdicts"}
Steps == Starting \cup {"running", "stopping", "core_stopped"}
Status(s, n) == [state |-> s, checkpoint |-> n]

\* The count of a step, among those of a start or of a stop.
Count == [registered |-> 0, signature_cache |-> 1, sessions |-> 2, first_snapshot |-> 3,
          verdicts |-> 4, running |-> 0, stopping |-> 0, core_stopped |-> 1]

Told(step) == Status(IF step \in Starting THEN "start_pending"
                     ELSE IF step = "running" THEN "running" ELSE "stop_pending", Count[step])

Stopped == Status("stopped", 0)
State == status.state

Init ==
  /\ status = Told("registered") /\ pc = "registered"
  /\ recover = FALSE /\ deleted = FALSE /\ due = TRUE
  /\ stopSent = FALSE /\ pipe = "none" /\ failures = 0
  /\ busy = [t \in Targets |-> None]
  /\ at = [c \in Calls |-> "unsent"]
  /\ ask = [c \in Calls |-> [action |-> "none", target |-> "service"]]
  /\ answer = [c \in Calls |-> None]

-----------------------------------------------------------------------------
\* The calls.
UnderWay == {"queued", "asking", "waiting", "starting", "deleting"}
Pending(c) == at[c] \in UnderWay

\* The command has an answer and its target is free again.  The sessions end
\* with the pipe they came over: nobody hears an answer that is later.
Heard(c, a) == IF c \in Commands /\ pipe = "lost" THEN "lost" ELSE a
Free(c) == IF c \in Commands THEN [busy EXCEPT ![ask[c].target] = None] ELSE busy
Reply(c, a) ==
  /\ at' = [at EXCEPT ![c] = "answered"]
  /\ answer' = [answer EXCEPT ![c] = Heard(c, a)]
  /\ busy' = Free(c)
  /\ UNCHANGED ask

Goes(c, where) == at' = [at EXCEPT ![c] = where] /\ UNCHANGED <<busy, ask, answer>>

\* The process that ran them is gone: what was under way is never answered.
Lost ==
  /\ at' = [c \in Calls |-> IF c \in Commands /\ Pending(c) THEN "answered" ELSE at[c]]
  /\ answer' = [c \in Calls |-> IF c \in Commands /\ Pending(c) THEN "lost" ELSE answer[c]]
  /\ busy' = [t \in Targets |-> None]
  /\ UNCHANGED ask

-----------------------------------------------------------------------------
\* The process.  Its pipe is bound after the core's last step, and the pipe's
\* thread serves until the process is gone or no client can be accepted.
Spawn == pc' = "registered" /\ status' = Told("registered") /\ stopSent' = FALSE /\ recover' = FALSE
Tell(step) == pc' = step /\ status' = Told(step)

After == [registered |-> "signature_cache", signature_cache |-> "sessions",
          sessions |-> "first_snapshot", first_snapshot |-> "verdicts"]

Progresses ==
  /\ pc \in DOMAIN After
  /\ Tell(After[pc])
  /\ UNCHANGED <<recover, deleted, stopSent, pipe, failures, calls, due>>

Binds ==
  /\ pc = "verdicts" /\ pipe = "none"
  /\ pipe' = "current"
  /\ UNCHANGED <<scm, pc, stopSent, failures, calls, due>>

\* serve() has ended: its thread logs it and ends, with the sessions, and
\* nobody is told.  The name is free; commands under way go on.
PipeStops ==
  /\ pipe = "current" /\ failures < MaxFailures
  /\ pipe' = "lost" /\ failures' = failures + 1
  /\ UNCHANGED <<scm, pc, stopSent, calls, due>>

BoundOrNot == TRUE   \* a mutant of IsBound: the service runs before its pipe is bound
IsBound == pipe \in {"current", "lost"}
Runs ==
  /\ pc = "verdicts" /\ IsBound
  /\ Tell("running")
  /\ UNCHANGED <<recover, deleted, stopSent, pipe, failures, calls, due>>

Stopping ==
  /\ pc = "running" /\ stopSent
  /\ Tell("stopping")
  /\ UNCHANGED <<recover, deleted, stopSent, pipe, failures, calls, due>>

CoreStops ==
  /\ pc = "stopping"
  /\ Tell("core_stopped")
  /\ UNCHANGED <<recover, deleted, stopSent, pipe, failures, calls, due>>

\* run_service's last word; the process itself, with its pipe and its
\* commands, is there a little longer.  One that lost its pipe is taken as
\* gone at once.
Ends ==
  /\ pc = "core_stopped"
  /\ pc' = "none" /\ status' = Stopped
  /\ \/ pipe = "current" /\ pipe' = "leaving" /\ UNCHANGED calls
     \/ pipe = "lost" /\ pipe' = "none" /\ Lost
  /\ UNCHANGED <<recover, deleted, stopSent, failures, due>>

Exits ==
  /\ pipe = "leaving"
  /\ pipe' = "none"
  /\ Lost
  /\ UNCHANGED <<scm, pc, stopSent, failures, due>>

\* The exit code START_FAILED has the SCM start the service again.
FailedQuietly == FALSE   \* a mutant of FailedToStart: a failed start exits with 0
FailedToStart == TRUE
StartFails ==
  /\ pc' = "none" /\ status' = Stopped
  /\ recover' = FailedToStart
  /\ due' = TRUE
  /\ UNCHANGED <<deleted, stopSent, pipe, calls>>

\* A part of the core, or the runtime of the pipe, does not start.
Fails ==
  /\ pc \in Starting /\ ~IsBound /\ failures < MaxFailures
  /\ failures' = failures + 1
  /\ StartFails

\* listen(): another process still holds the pipe.
BindFails ==
  /\ pc = "verdicts" /\ pipe = "leaving"
  /\ UNCHANGED failures
  /\ StartFails

Crashes ==
  /\ pc # "none" /\ failures < MaxFailures
  /\ failures' = failures + 1
  /\ pc' = "none" /\ status' = Stopped /\ recover' = TRUE /\ due' = TRUE
  /\ IF IsBound THEN pipe' = "none" /\ Lost ELSE UNCHANGED <<pipe, calls>>
  /\ UNCHANGED <<deleted, stopSent>>

\* recovery_actions: the SCM's restart, after its delay.  That they are set
\* is taken from the install; ensure_recovery only sets them where they are
\* not, and goes on where it cannot.
Recovers ==
  /\ recover /\ ~deleted /\ State = "stopped"
  /\ Spawn
  /\ UNCHANGED <<deleted, pipe, failures, calls, due>>

-----------------------------------------------------------------------------
\* Clients' commands, over the pipe of a process that serves or leaves.
Serves == pipe \in {"current", "leaving"}
Asked(c, t, a) ==
  /\ at[c] = "unsent"
  /\ ask' = [ask EXCEPT ![c] = [action |-> a, target |-> t]]

AlwaysFree(t) == TRUE   \* a mutant of IsFree: two commands for one target
IsFree(t) == busy[t] = None

Takes(c, t, a) ==
  /\ Serves /\ Asked(c, t, a) /\ IsFree(t)
  /\ at' = [at EXCEPT ![c] = "queued"]
  /\ busy' = [busy EXCEPT ![t] = c]
  /\ UNCHANGED <<scm, process, answer, due>>

IsBusy(c, t, a) ==
  /\ Serves /\ Asked(c, t, a) /\ busy[t] # None
  /\ at' = [at EXCEPT ![c] = "answered"]
  /\ answer' = [answer EXCEPT ![c] = "busy"]
  /\ UNCHANGED <<scm, process, busy, due>>

AppAsks(c, a) ==
  /\ Asked(c, "service", a)
  /\ at' = [at EXCEPT ![c] = "asking"]
  /\ UNCHANGED <<scm, process, busy, answer, due>>

Begins(c) ==
  /\ at[c] = "queued"
  /\ Cardinality({d \in Commands : Pending(d) /\ at[d] # "queued"}) < Workers
  /\ Goes(c, "asking")
  /\ UNCHANGED <<scm, process, due>>

\* process.rs: what is done to the process is outside of the model; the
\* process may be gone or refuse.
OnProcess(c) ==
  /\ at[c] = "asking" /\ ask[c].target \in Processes
  /\ IF ask[c] = [action |-> "kill", target |-> Self] THEN Reply(c, "error")
     ELSE \E a \in {"ok", "error"} : Reply(c, a)
  /\ UNCHANGED <<scm, process, due>>

-----------------------------------------------------------------------------
\* control.rs and uninstall, whoever calls them.
On(c, where, actions) == at[c] = where /\ ask[c].target \in Spellings /\ ask[c].action \in actions
Exists == ~(deleted /\ State = "stopped")

\* The SCM passes a stop on to a service that accepts it.
Accepts == State = "running"
StopTaken == stopSent' = TRUE /\ due' = FALSE /\ UNCHANGED <<scm, pc, pipe, failures>>

\* StartServiceW.
Starts(c) ==
  /\ On(c, "asking", {"start"}) \/ On(c, "starting", {"restart"})
  /\ IF State = "stopped" /\ ~deleted
     THEN Spawn /\ due' = TRUE /\ Reply(c, "ok") /\ UNCHANGED <<deleted, pipe, failures>>
     ELSE Reply(c, "error") /\ UNCHANGED <<scm, process, due>>

Stops(c) ==
  /\ On(c, "asking", {"stop", "restart"}) /\ Exists /\ Accepts
  /\ IF ask[c].action = "stop" THEN Reply(c, "ok") ELSE Goes(c, "waiting")
  /\ StopTaken

\* ERROR_SERVICE_NOT_ACTIVE is no error to a restart.
NotActive(c) ==
  /\ On(c, "asking", {"stop", "restart"}) /\ Exists /\ State = "stopped"
  /\ IF ask[c].action = "stop" THEN Reply(c, "error") ELSE Goes(c, "waiting")
  /\ UNCHANGED <<scm, process, due>>

\* A pending service accepts nothing, a deleted one cannot be opened, and
\* this one never accepts a pause.
Refused(c) ==
  /\ \/ On(c, "asking", {"stop", "restart"}) /\ (~Exists \/ State \in {"start_pending", "stop_pending"})
     \/ On(c, "asking", {"pause"})
     \/ On(c, "asking", {"uninstall"}) /\ ~Exists
  /\ Reply(c, "error")
  /\ UNCHANGED <<scm, process, due>>

\* wait_for_status.
Waited(c) ==
  /\ On(c, "waiting", {"restart"}) /\ State = "stopped"
  /\ Goes(c, "starting")
  /\ UNCHANGED <<scm, process, due>>

\* Half a minute of it, or a minute of stop_within, has passed.
TimesOut(c) ==
  /\ On(c, "waiting", {"restart"}) \/ On(c, "asking", {"uninstall"})
  /\ State # "stopped"
  /\ Reply(c, "error")
  /\ UNCHANGED <<scm, process, due>>

\* stop_within: one look that asks for a stop; one of a pending service
\* changes nothing.
AsksToStop(c) ==
  /\ On(c, "asking", {"uninstall"}) /\ Accepts /\ ~stopSent
  /\ StopTaken
  /\ UNCHANGED calls

SeesStopped(c) ==
  /\ On(c, "asking", {"uninstall"}) /\ Exists /\ State = "stopped"
  /\ Goes(c, "deleting")
  /\ UNCHANGED <<scm, process, due>>

\* Started again or not since, it is deleted once it is stopped.
Deletes(c) ==
  /\ On(c, "deleting", {"uninstall"})
  /\ IF deleted THEN Reply(c, "error") /\ UNCHANGED deleted
                ELSE Reply(c, "ok") /\ deleted' = TRUE
  /\ UNCHANGED <<status, recover, process, due>>

-----------------------------------------------------------------------------
ProcessSteps == Progresses \/ Binds \/ Runs \/ Stopping \/ CoreStops \/ Ends \/ BindFails
CallSteps(c) ==
  \/ Begins(c) \/ OnProcess(c) \/ Starts(c) \/ Stops(c) \/ NotActive(c) \/ Refused(c)
  \/ Waited(c) \/ TimesOut(c) \/ AsksToStop(c) \/ SeesStopped(c) \/ Deletes(c)

Next ==
  \/ ProcessSteps \/ PipeStops \/ Exits \/ Fails \/ Crashes \/ Recovers
  \/ \E c \in Commands :
       \/ \E n \in Spellings, a \in ServiceActions : Takes(c, n, a) \/ IsBusy(c, n, a)
       \/ \E t \in Processes, a \in ProcessActions : Takes(c, t, a) \/ IsBusy(c, t, a)
  \/ \E c \in Apps, a \in AppActions : AppAsks(c, a)
  \/ \E c \in Calls : CallSteps(c)

\* The process, the SCM and each call go on; nothing has to be asked or fail.
Fairness ==
  /\ WF_vars(ProcessSteps) /\ WF_vars(Exits) /\ WF_vars(Recovers)
  /\ \A c \in Calls : WF_vars(CallSteps(c))

Spec == Init /\ [][Next]_vars /\ Fairness

-----------------------------------------------------------------------------
TypeOK ==
  /\ status \in [state : {"stopped", "start_pending", "running", "stop_pending"}, checkpoint : 0..4]
  /\ recover \in BOOLEAN /\ deleted \in BOOLEAN /\ due \in BOOLEAN /\ stopSent \in BOOLEAN
  /\ pc \in Steps \cup {"none"} /\ pipe \in {"none", "current", "leaving", "lost"}
  /\ failures \in 0..MaxFailures
  /\ busy \in [Targets -> Commands \cup {None}]
  /\ at \in [Calls -> UnderWay \cup {"unsent", "answered"}]
  /\ ask \in [Calls -> [action : ServiceActions \cup ProcessActions \cup AppActions \cup {"none"},
                        target : Targets]]
  /\ answer \in [Calls -> {None, "ok", "error", "busy", "lost"}]

\* What the SCM says of the service is so (run, set_status): a service said to
\* run has a process that bound the pipe, which its predecessor has left, one
\* said to be stopped has no process of its own any more, and one said to stop
\* was asked to after it had run.  Not that it still serves the pipe: serve may
\* have ended since, which the SCM is not told (PipeStops).
StatusIsTrue ==
  /\ TypeOK
  /\ State = "running" => pc = "running" /\ pipe \in {"current", "lost"}
  /\ State = "stopped" <=> pc = "none"
  /\ State = "stop_pending" => stopSent /\ pipe \in {"current", "lost"}

\* A service asked to start, restarted, or whose process failed runs in the
\* end, one that took a stop is stopped in the end, whatever is asked
\* meanwhile: until the next is asked, or it is uninstalled.
AsAsked == []<>(IF due THEN State = "running" \/ deleted ELSE State = "stopped")

\* Commands for one target - a process, or a service as its name is spelled -
\* run one at a time, even of an agent that leaves and the next one, and each
\* is answered unless its process or its pipe ends (Commands::run).
Answer(a) == CASE a = None -> None [] a = "ok" -> "done" [] OTHER -> a
Abstract == INSTANCE OneAtATime WITH running <- busy, answers <- [c \in Commands |-> Answer(answer[c])]
CommandsOneAtATime == Abstract!Spec

\* api.rs, of ServiceRestart: waits for the service to stop, then starts it.
\* So a restart that stops the service ends with it running, or says why not.
RestartStarts ==
  \A c \in Commands :
    (On(c, "waiting", {"restart"}) /\ State = "stop_pending")
      ~> (State = "running" \/ answer[c] = "error" \/ deleted)
=============================================================================

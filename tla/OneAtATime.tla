----------------------------- MODULE OneAtATime -----------------------------
(***************************************************************************)
(* What the agent promises of its commands (src/commands/mod.rs): for any  *)
(* one target one runs at a time, another is refused at once while it      *)
(* does, and each that was taken is answered, unless the agent ends first, *)
(* or what the answer was to go over.                                      *)
(***************************************************************************)
CONSTANTS
  Commands,   \* the commands that may be sent, each once
  Targets,    \* what they are for: processes, and services by the name given
  None        \* no command, no answer yet

VARIABLES
  running,    \* the command under way for each target
  answers     \* what each command was answered

vars == <<running, answers>>

Init == running = [t \in Targets |-> None] /\ answers = [c \in Commands |-> None]

Unsent(c) == answers[c] = None /\ \A t \in Targets : running[t] # c

Takes(c, t) ==
  /\ Unsent(c) /\ running[t] = None
  /\ running' = [running EXCEPT ![t] = c]
  /\ UNCHANGED answers

Refuses(c, t) ==
  /\ Unsent(c) /\ running[t] # None
  /\ answers' = [answers EXCEPT ![c] = "busy"]
  /\ UNCHANGED running

Answers(t, answer) ==
  /\ running[t] # None
  /\ answers' = [answers EXCEPT ![running[t]] = answer]
  /\ running' = [running EXCEPT ![t] = None]

\* The agent ends: what was under way has no answer.
Ends ==
  /\ running' = [t \in Targets |-> None]
  /\ answers' = [c \in Commands |-> IF \E t \in Targets : running[t] = c THEN "lost" ELSE answers[c]]

Next ==
  \/ \E t \in Targets : \/ \E c \in Commands : Takes(c, t) \/ Refuses(c, t)
                        \/ \E answer \in {"done", "error", "lost"} : Answers(t, answer)
  \/ Ends

Spec == Init /\ [][Next]_vars /\ \A t \in Targets : WF_vars(\E a \in {"done", "error", "lost"} : Answers(t, a))
=============================================================================

--------------------------- MODULE TaskLifecycle ---------------------------
(***************************************************************************)
(* What the store of MCP background tasks promises to a client that polls  *)
(* tasks/get: the life of each task record, whoever moves it.  It is the   *)
(* abstract specification that McpTasks (one process) and McpTaskQueue     *)
(* (web replicas, queue workers) are compared with.                        *)
(*                                                                         *)
(*   none -> working <-> input_required                                    *)
(*              |            |                                             *)
(*              v            v                                             *)
(*      completed / failed / cancelled        any of them -> expired       *)
(*                                                                         *)
(* "none" is a task id nobody has created, "expired" a record the store    *)
(* has dropped after its TTL; lookups tell neither from the other, but an  *)
(* expired task never comes back.                                          *)
(***************************************************************************)
CONSTANT Tasks

VARIABLES
  status,   \* [Tasks -> status of the stored record]
  answer    \* [Tasks -> which of result and error the record carries]

vars == <<status, answer>>

Terminal == {"completed", "failed", "cancelled"}      \* TERMINAL_TASK_STATUSES
Live == {"working", "input_required"}
Statuses == {"none", "expired"} \union Live \union Terminal
Answers == {"none", "result", "error"}

Init ==
  /\ status = [t \in Tasks |-> "none"]
  /\ answer = [t \in Tasks |-> "none"]

Create(t) ==
  /\ status[t] = "none"
  /\ status' = [status EXCEPT ![t] = "working"]
  /\ UNCHANGED answer

Pause(t) ==
  /\ status[t] = "working"
  /\ status' = [status EXCEPT ![t] = "input_required"]
  /\ UNCHANGED answer

Resume(t) ==
  /\ status[t] = "input_required"
  /\ status' = [status EXCEPT ![t] = "working"]
  /\ UNCHANGED answer

\* A task completes only while it is working: never while it waits for input.
Complete(t) ==
  /\ status[t] = "working"
  /\ status' = [status EXCEPT ![t] = "completed"]
  /\ answer' = [answer EXCEPT ![t] = "result"]

Fail(t) ==
  /\ status[t] \in Live
  /\ status' = [status EXCEPT ![t] = "failed"]
  /\ answer' = [answer EXCEPT ![t] = "error"]

Cancel(t) ==
  /\ status[t] \in Live
  /\ status' = [status EXCEPT ![t] = "cancelled"]
  /\ UNCHANGED answer

Expire(t) ==
  /\ status[t] \in Live \union Terminal
  /\ status' = [status EXCEPT ![t] = "expired"]
  /\ answer' = [answer EXCEPT ![t] = "none"]

Next ==
  \E t \in Tasks :
    \/ Create(t)
    \/ Pause(t)
    \/ Resume(t)
    \/ Complete(t)
    \/ Fail(t)
    \/ Cancel(t)
    \/ Expire(t)

Spec == Init /\ [][Next]_vars

-----------------------------------------------------------------------------
TypeOK ==
  /\ status \in [Tasks -> Statuses]
  /\ answer \in [Tasks -> Answers]

\* A result is shown exactly by completed records and an error by failed ones,
\* whichever handler wrote last (TaskRecord.to_dict in mcp/tasks.py).
AnswerMatchesStatus ==
  \A t \in Tasks :
    /\ answer[t] = "result" <=> status[t] = "completed"
    /\ answer[t] = "error" <=> status[t] = "failed"

\* A record that has reached a terminal status keeps it until it expires.
TerminalIsFinal ==
  [][\A t \in Tasks :
       status[t] \in Terminal => status'[t] \in {status[t], "expired"}]_vars
=============================================================================

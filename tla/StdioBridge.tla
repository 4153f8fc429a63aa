----------------------------- MODULE StdioBridge -----------------------------
(***************************************************************************)
(* An application served over standard input and output: the pump and the  *)
(* client of mcp/bridge.py over the in-process transport of mcp/stdio.py.  *)
(*                                                                         *)
(* Every line that is read becomes a task that posts it.  Tasks start in   *)
(* the order of their lines, and each runs without a break up to its first *)
(* wait.  The application answers in a task of its own, through a channel  *)
(* of one chunk.  An exception of one task cancels all the others and ends *)
(* the bridge with one error line.                                         *)
(*                                                                         *)
(* A request's id is the number of its line.                               *)
(***************************************************************************)
EXTENDS Naturals, Sequences

CONSTANTS
  MaxLines,   \* bound: lines the client writes
  Auth        \* whether a token provider is given

ASSUME BridgeAssumption == MaxLines \in Nat \ {0} /\ Auth \in BOOLEAN

VARIABLES
  lines,      \* what was read: its kind, and for a cancellation whose
  eof,        \* _stdin_closed
  post,       \* the task of each line
  inflight,   \* ids with a cancel scope in _inflight
  stopped,    \* the ones whose scope is cancelled
  loaded,     \* _tool_headers is set
  app,        \* the application's task for each line
  writer,     \* who holds the lock of stdout, or 0
  failing,    \* an exception has cancelled the task group
  answers,    \* how many answers stdout has for each line
  stray,      \* answers a worker thread still writes for a cancelled task
  missed,     \* ids whose cancellation found no scope, while their task was not over
  ended       \* of the bridge, and of the lifespan around it

vars == <<lines, eof, post, inflight, stopped, loaded, app, writer, failing, answers, stray, missed, ended>>

Ids == 1..MaxLines
Requests == {"call", "tool", "listen"}
Kinds == Requests \union {"notify", "cancel"}
Kind(n) == lines[n].kind
ReadLines == 1..Len(lines)

NewPost == [at |-> "unread", hand |-> "none", raising |-> FALSE, retried |-> FALSE]
NewApp == [at |-> "none", form |-> "none", pipe |-> <<>>, answered |-> FALSE, asked |-> FALSE]
Init ==
  /\ lines = <<>> /\ eof = FALSE
  /\ post = [n \in Ids |-> NewPost]
  /\ inflight = {} /\ stopped = {} /\ loaded = FALSE
  /\ app = [n \in Ids |-> NewApp]
  /\ writer = 0 /\ failing = FALSE
  /\ answers = [n \in Ids |-> 0] /\ stray = {} /\ missed = {}
  /\ ended = [bridge |-> "no", lifespan |-> "no"]

-----------------------------------------------------------------------------
(* The pump: _iter_stdin_lines and _pump_stdin_to_remote *)

Reading == ~eof /\ ~failing

Read ==
  /\ Reading /\ Len(lines) < MaxLines
  /\ \E kind \in Kinds, of \in Ids :
       /\ IF kind = "cancel" THEN of <= Len(lines) /\ Kind(of) \in Requests ELSE of = 1
       /\ lines' = Append(lines, [kind |-> kind, of |-> of])
  /\ post' = [post EXCEPT ![Len(lines) + 1].at = "queued"]
  /\ UNCHANGED <<eof, inflight, stopped, loaded, app, writer, failing, answers, stray, missed, ended>>

\* A line too long, or not a JSON object.
BadLine ==
  /\ Reading
  /\ failing' = TRUE
  /\ UNCHANGED <<lines, eof, post, inflight, stopped, loaded, app, writer, answers, stray, missed, ended>>

\* Everything in flight.
FaultSubscriptions == inflight

Subscriptions == {n \in inflight : Kind(n) = "listen"}

\* The end of the input closes the subscriptions; the pump then waits for the tasks.
EndOfInput ==
  /\ Reading
  /\ eof' = TRUE
  /\ stopped' = stopped \union Subscriptions
  /\ UNCHANGED <<lines, post, inflight, loaded, app, writer, failing, answers, stray, missed, ended>>

-----------------------------------------------------------------------------
(* post_message: up to the request *)

Stays == UNCHANGED <<lines, eof, answers, stray, ended>>
At(n, at) == post' = [post EXCEPT ![n].at = at]

\* A task registers its request and sends it, and the transport starts the application.
Sends(n) ==
  /\ At(n, "waiting")
  /\ inflight' = IF Kind(n) \in Requests THEN inflight \union {n} ELSE inflight
  /\ app' = [app EXCEPT ![n].at = "running"]

\* cancel_request
Cancels(n) ==
  LET of == lines[n].of
  IN  /\ stopped' = stopped \union (inflight \intersect {of})
      /\ missed' = IF of \in inflight \/ post[of].at = "over" THEN missed ELSE missed \union {of}
      /\ At(n, "over")
      /\ UNCHANGED <<inflight, app>>

\* Tasks that start in any order.
FaultTurn(n) == post[n].at = "queued"

Turn(n) == post[n].at = "queued" /\ \A m \in 1..(n - 1) : post[m].at # "queued"

\* A listen request like any other.
FaultTooLate(n) == FALSE

\* A listen request that starts after the end of the input is dropped.
TooLate(n) == Kind(n) = "listen" /\ eof

\* The headers of a tool call need the schemas of the tools, loaded once, under a lock.
Begin(n) ==
  /\ Turn(n)
  /\ CASE Kind(n) = "cancel" -> Cancels(n)
       [] Kind(n) # "cancel" /\ TooLate(n) -> At(n, "over") /\ UNCHANGED <<inflight, stopped, missed, app>>
       [] Kind(n) = "tool" /\ ~TooLate(n) /\ ~loaded -> At(n, "locked") /\ UNCHANGED <<inflight, stopped, missed, app>>
       [] OTHER -> Sends(n) /\ UNCHANGED <<stopped, missed>>
  /\ UNCHANGED <<loaded, writer, failing>> /\ Stays

Loading == \E m \in Ids : post[m].at = "loading"

Lock(n) ==
  /\ post[n].at = "locked" /\ ~Loading
  /\ IF loaded THEN Sends(n) ELSE At(n, "loading") /\ UNCHANGED <<inflight, app>>
  /\ UNCHANGED <<stopped, missed, loaded, writer, failing>> /\ Stays

\* The pages of tools/list have been read.
Loads(n) ==
  /\ post[n].at = "loading"
  /\ loaded' = TRUE
  /\ Sends(n)
  /\ UNCHANGED <<stopped, missed, writer, failing>> /\ Stays

LoadFails(n) ==
  /\ post[n].at = "loading"
  /\ At(n, "over") /\ failing' = TRUE
  /\ UNCHANGED <<inflight, app, stopped, missed, loaded, writer>> /\ Stays

-----------------------------------------------------------------------------
(* The application, behind the receive and send of the transport *)

Over == {"done", "failed"}
Runs(n) == app[n].at = "running"
Body == {"json", "sse"}
AppOnly == UNCHANGED <<lines, eof, post, inflight, stopped, loaded, writer, failing, answers, stray, missed, ended>>

\* http.response.start.  Only a request gets a body, a listen request only a stream.
Starts(n) ==
  /\ Runs(n) /\ app[n].form = "none" /\ ~app[n].asked /\ post[n].at = "waiting"
  /\ \E form \in {"json", "sse", "accepted", "error"} \union (IF Auth THEN {"denied"} ELSE {}) :
       /\ form \in Body => Kind(n) \in Requests
       /\ form = "accepted" => Kind(n) = "notify"
       /\ form = "json" => Kind(n) # "listen"
       /\ app' = [app EXCEPT ![n].form = form, ![n].at = IF form = "denied" THEN "done" ELSE @]
  /\ AppOnly

\* A chunk, once the channel has room: the answer, or before it a notification.
SendsBody(n) ==
  /\ Runs(n) /\ app[n].form \in Body /\ ~app[n].asked /\ ~app[n].answered
  /\ app[n].pipe = <<>>
  /\ \E chunk \in {"note", "answer"} :
       /\ chunk = "note" => app[n].form = "sse"
       /\ app' = [app EXCEPT ![n].pipe = <<chunk>>, ![n].answered = chunk = "answer"]
  /\ AppOnly

\* An application that was not cancelled gives a request its answer before it ends, or it
\* fails; one that was cancelled may end in any way.
Ends(n) ==
  /\ Runs(n)
  /\ \E how \in Over :
       /\ how = "done" /\ ~app[n].asked =>
            app[n].form # "none" /\ (app[n].form \in Body => app[n].answered)
       /\ app' = [app EXCEPT ![n].at = how]
  /\ AppOnly

-----------------------------------------------------------------------------
(* post_message: the response *)

\* What is left is to close the response: the exit of client.stream.  Nothing more of it
\* is read.
Closes(n, raises) ==
  /\ post' = [post EXCEPT ![n] = [NewPost EXCEPT !.at = "closing", !.raising = raises]]
  /\ app' = [app EXCEPT ![n] = [NewApp EXCEPT !.at = app[n].at, !.asked = Runs(n)]]

Rest == UNCHANGED <<lines, eof, inflight, stopped, loaded, missed, failing, ended>>

\* The status and the type of the response.  The first 401 is read and the request sent
\* again with a new token.
Responds(n) ==
  /\ post[n].at = "waiting" /\ app[n].form # "none"
  /\ CASE app[n].form \in Body ->
            /\ post' = [post EXCEPT ![n].at = "reading", ![n].retried = FALSE]
            /\ UNCHANGED app
       [] app[n].form = "denied" /\ ~post[n].retried ->
            /\ post' = [post EXCEPT ![n].retried = TRUE]
            /\ app' = [app EXCEPT ![n] = [NewApp EXCEPT !.at = "running"]]
       [] OTHER -> Closes(n, app[n].form # "accepted")
  /\ UNCHANGED <<writer, answers, stray>> /\ Rest

\* The application ended without a response.
NoResponse(n) ==
  /\ post[n].at = "waiting" /\ app[n].form = "none" /\ app[n].at \in Over
  /\ Closes(n, TRUE)
  /\ UNCHANGED <<writer, answers, stray>> /\ Rest

\* An event of a stream is written at once; a JSON body only when the application is over.
Takes(n) ==
  /\ post[n].at = "reading" /\ app[n].pipe # <<>>
  /\ post' = [post EXCEPT ![n].hand = Head(app[n].pipe),
                          ![n].at = IF app[n].form = "sse" THEN "writing" ELSE @]
  /\ app' = [app EXCEPT ![n].pipe = <<>>]
  /\ UNCHANGED <<writer, answers, stray>> /\ Rest

\* The channel is drained and the task's exception raised.
Drains(n) ==
  /\ post[n].at = "reading" /\ app[n].pipe = <<>> /\ app[n].at \in Over
  /\ IF app[n].at = "done" /\ app[n].form = "json" THEN At(n, "writing") /\ UNCHANGED app
     ELSE Closes(n, app[n].at = "failed")
  /\ UNCHANGED <<writer, answers, stray>> /\ Rest

\* The read timeout of httpx2.
TimesOut(n) ==
  /\ post[n].at \in {"waiting", "reading"} /\ Runs(n) /\ app[n].pipe = <<>>
  /\ post[n].at = "waiting" => app[n].form = "none"
  /\ Closes(n, TRUE)
  /\ UNCHANGED <<writer, answers, stray>> /\ Rest

TakesLock(n) ==
  /\ post[n].at = "writing" /\ writer = 0
  /\ writer' = n
  /\ UNCHANGED <<post, app, answers, stray>> /\ Rest

\* After the event that carries the answer the rest of a stream is not read.
Writes(n) ==
  /\ post[n].at = "writing" /\ writer = n
  /\ writer' = 0
  /\ IF post[n].hand = "answer"
     THEN Closes(n, FALSE) /\ answers' = [answers EXCEPT ![n] = @ + 1]
     ELSE At(n, "reading") /\ UNCHANGED <<app, answers>>
  /\ UNCHANGED stray /\ Rest

\* The thread of a cancelled task goes on writing.
WritesLate(n) ==
  /\ n \in stray
  /\ stray' = stray \ {n} /\ answers' = [answers EXCEPT ![n] = @ + 1]
  /\ UNCHANGED <<post, app, writer>> /\ Rest

\* The exception of an application that fails while it is cancelled replaces the
\* cancellation.
Finishes(n) ==
  /\ post' = [post EXCEPT ![n] = [NewPost EXCEPT !.at = "over"]]
  /\ inflight' = inflight \ {n}
  /\ failing' = (failing \/ post[n].raising \/ app[n].at = "failed")
  /\ UNCHANGED <<lines, eof, stopped, loaded, writer, missed, answers, stray, app, ended>>

\* _shutdown_app_task waits for the application, ...
Closed(n) == post[n].at = "closing" /\ ~Runs(n) /\ Finishes(n)

\* ... but no longer than shutdown_timeout, and cancels it again.
GivesUp(n) == post[n].at = "closing" /\ Runs(n) /\ Finishes(n)

\* A cancelled request leaves the application to itself.
FaultAborts(n) ==
  /\ post' = [post EXCEPT ![n].at = "over", ![n].hand = "none"]
  /\ inflight' = inflight \ {n}
  /\ UNCHANGED app

Aborts(n) == Closes(n, FALSE) /\ UNCHANGED inflight

\* Cancelled where it waits, by its scope or with the group.  A task that has not sent
\* its request has no scope.
Interrupted(n) ==
  /\ IF post[n].at \in {"locked", "loading"}
     THEN failing /\ At(n, "over") /\ UNCHANGED <<inflight, app>>
     ELSE /\ post[n].at \in {"waiting", "reading", "writing"}
          /\ failing \/ n \in stopped
          /\ Aborts(n)
  /\ writer' = IF writer = n THEN 0 ELSE writer
  /\ stray' = IF writer = n /\ post[n].hand = "answer" THEN stray \union {n} ELSE stray
  /\ UNCHANGED <<lines, eof, stopped, loaded, failing, missed, answers, ended>>

-----------------------------------------------------------------------------
(* The end of the bridge, and of the lifespan of the application around it *)

AllOver == \A n \in ReadLines : post[n].at = "over"

\* After an error its line is the last thing written, with exit code 1.
BridgeEnds ==
  /\ ended.bridge = "no" /\ (eof \/ failing) /\ AllOver
  /\ ended' = [ended EXCEPT !.bridge = IF failing THEN "error" ELSE "clean"]
  /\ UNCHANGED <<lines, eof, post, inflight, stopped, loaded, app, writer, failing, answers, stray, missed>>

\* The hooks of the application end, fail, or are given up at the deadline.
LifespanEnds ==
  /\ ended.bridge # "no" /\ ended.lifespan = "no"
  /\ \E how \in {"closed", "failed", "given up"} : ended' = [ended EXCEPT !.lifespan = how]
  /\ UNCHANGED <<lines, eof, post, inflight, stopped, loaded, app, writer, failing, answers, stray, missed>>

-----------------------------------------------------------------------------
Task(n) ==
  \/ Begin(n) \/ Lock(n) \/ Responds(n) \/ NoResponse(n) \/ Takes(n) \/ Drains(n)
  \/ TakesLock(n) \/ Writes(n) \/ Closed(n) \/ GivesUp(n)
Load(n) == Loads(n) \/ LoadFails(n)
Application(n) == Starts(n) \/ SendsBody(n) \/ Ends(n)
Idle == ended.lifespan # "no" /\ UNCHANGED vars

Next ==
  \/ Read \/ BadLine \/ EndOfInput \/ BridgeEnds \/ LifespanEnds \/ Idle
  \/ \E n \in ReadLines : Task(n) \/ Load(n) \/ Application(n)
                          \/ TimesOut(n) \/ WritesLate(n) \/ Interrupted(n)

\* The event loop runs every task and delivers cancellations, and the application
\* answers every request but a listen request, which it may hold open for ever.
Fairness ==
  /\ WF_vars(BridgeEnds)
  /\ \A n \in Ids :
       /\ WF_vars(n \in ReadLines /\ Task(n)) /\ WF_vars(n \in ReadLines /\ Load(n))
       /\ WF_vars(n \in ReadLines /\ Interrupted(n))
       /\ WF_vars(n \in ReadLines /\ Kind(n) # "listen" /\ (Starts(n) \/ Ends(n)))
       /\ WF_vars(n \in ReadLines /\ Kind(n) # "listen" /\ SendsBody(n)
                    /\ app'[n].answered)

Spec == Init /\ [][Next]_vars /\ Fairness

-----------------------------------------------------------------------------
(* Properties *)

TypeOK ==
  /\ lines \in Seq([kind : Kinds, of : Ids]) /\ Len(lines) <= MaxLines
  /\ eof \in BOOLEAN /\ loaded \in BOOLEAN /\ failing \in BOOLEAN
  /\ post \in [Ids -> [at : {"unread", "queued", "locked", "loading", "waiting", "reading",
                             "writing", "closing", "over"},
                       hand : {"none", "note", "answer"}, raising : BOOLEAN, retried : BOOLEAN]]
  /\ inflight \subseteq Ids /\ stopped \subseteq Ids /\ missed \subseteq Ids /\ stray \subseteq Ids
  /\ app \in [Ids -> [at : {"none", "running"} \union Over,
                      form : {"none", "json", "sse", "accepted", "error", "denied"},
                      pipe : {<<>>, <<"note">>, <<"answer">>},
                      answered : BOOLEAN, asked : BOOLEAN]]
  /\ writer \in {0} \union Ids
  /\ answers \in [Ids -> 0..2]
  /\ ended \in [bridge : {"no", "clean", "error"}, lifespan : {"no", "closed", "failed", "given up"}]

Cancelled(n) == \E m \in ReadLines : Kind(m) = "cancel" /\ lines[m].of = n

\* No request is answered twice, and a bridge that reports a clean end has answered every
\* request that was neither a subscription nor cancelled by its client: the end of the
\* input, which closes the subscriptions, costs no other request its answer.
Answered ==
  /\ \A n \in ReadLines : answers[n] + (IF n \in stray THEN 1 ELSE 0) <= 1
  /\ ended.bridge = "clean" =>
       \A n \in ReadLines : Kind(n) \in {"call", "tool"} /\ ~Cancelled(n) => answers[n] = 1

\* A cancellation stops the request it names, if that is not over, with one exception: a
\* tool call that still loads the headers of the tools cannot be cancelled.
CancelFinds ==
  \A n \in missed : Kind(n) = "tool"

\* When a task is over its request is not in flight, and its application is over too, or
\* was cancelled: no application works on for a client that is gone.
NothingLeftBehind ==
  \A n \in ReadLines : post[n].at = "over" =>
    n \notin inflight /\ writer # n /\ (Runs(n) => app[n].asked)

\* After the end of its input, or an error, the bridge ends, whatever subscriptions are
\* open and even if the application ignores its cancellation; and a request whose scope
\* is cancelled ends.
Terminates ==
  /\ (eof \/ failing) ~> ended.bridge # "no"
  /\ \A n \in Ids : (n \in stopped) ~> (n \in ReadLines /\ post[n].at = "over")

=============================================================================

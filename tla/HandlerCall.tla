----------------------------- MODULE HandlerCall -----------------------------
(***************************************************************************)
(* mcp/executor.py: one call of a route handler on behalf of a request for *)
(* a tool, a resource or a prompt, through the hooks, guards, dependencies *)
(* and exception handlers of the application.  Anything that is called may *)
(* fail, and the call may be cancelled wherever it waits.                  *)
(***************************************************************************)
EXTENDS Naturals

VARIABLES
  call,     \* where the call is, and the exception or the response on its way
  ran,      \* what has run: how often, or for the resources which are open
  handler   \* the hooks the handler and the application have

callVars == <<call, ran, handler>>

Handlers ==
  [observed : BOOLEAN,    \* a tools/call with an after_tool_call callback
   container : BOOLEAN,  \* a dishka container is entered for the call
   beforeHook : BOOLEAN, afterHook : BOOLEAN]   \* hooks of its own, not the application's

Idle == [at |-> "idle", outcome |-> "none"]
NothingRan ==
  [body |-> 0, after |-> 0, afterTool |-> 0, entered |-> FALSE, guarded |-> FALSE,
   open |-> {}, opened |-> {}, late |-> FALSE]

NoHandler == [observed |-> FALSE, container |-> FALSE, beforeHook |-> FALSE, afterHook |-> FALSE]

CallInit == call = Idle /\ ran = NothingRan /\ handler = NoHandler

\* execute_tool or execute_handler_response is entered; only tools/call names the tool.
CallBegins(isTool) ==
  /\ call.at = "idle"
  /\ call' = [Idle EXCEPT !.at = "new"]
  /\ handler' \in {h \in Handlers : h.observed => isTool}
  /\ ran' = ran

-----------------------------------------------------------------------------
Goes(at) == call' = [call EXCEPT !.at = at]
Ends(at, outcome) == call' = [at |-> at, outcome |-> outcome]

\* The body of a call that has entered the pipeline fails.
Raises(outcome) == Ends("observing", outcome)

\* _build_dispatch_scope: a path parameter that is refused ends the call before any hook.
BuildScope ==
  /\ call.at = "new"
  /\ Goes("before_tool") \/ Ends("over", "raised")
  /\ UNCHANGED <<ran, handler>>

\* Failures of before_tool_call are swallowed.
BeforeToolCall ==
  /\ call.at = "before_tool"
  /\ Goes(IF handler.container THEN "container" ELSE "guards")
  /\ ran' = [ran EXCEPT !.entered = TRUE]
  /\ UNCHANGED handler

Opens(resource) ==
  ran' = [ran EXCEPT !.open = @ \union {resource}, !.opened = @ \union {resource}]

EnterContainer ==
  /\ call.at = "container"
  /\ \/ Goes("guards") /\ Opens("container")
     \/ Raises("raised") /\ UNCHANGED ran
  /\ UNCHANGED handler

\* Guards that are asked after the body.
FaultEnforceGuards ==
  /\ call.at = "guards"
  /\ Goes(IF handler.beforeHook THEN "before_request" ELSE "dependencies")
  /\ UNCHANGED <<ran, handler>>

EnforceGuards ==
  /\ call.at = "guards"
  /\ \/ /\ Goes(IF handler.beforeHook THEN "before_request" ELSE "dependencies")
        /\ ran' = [ran EXCEPT !.guarded = TRUE]
     \/ Raises("raised") /\ UNCHANGED ran
  /\ UNCHANGED handler

\* A truthy return value takes the place of the handler's.
BeforeRequest ==
  /\ call.at = "before_request"
  /\ Goes("dependencies") \/ Goes("rendering") \/ Raises("raised")
  /\ UNCHANGED <<ran, handler>>

\* The clean-up of the dependencies is known to the exit stack once all of them are there:
\* those opened before another one fails, or the call is cancelled, are "stray".
OpensSome == UNCHANGED ran \/ Opens("stray")

ResolveDependencies ==
  /\ call.at = "dependencies"
  /\ \/ Goes("body") /\ Opens("dependencies")
     \/ Raises("raised") /\ OpensSome
  /\ UNCHANGED handler

\* The arguments do not parse, or the handler runs: it returns or fails.  "jsonrpc" is the
\* exception that carries a JSON-RPC error.
RunBody ==
  /\ call.at = "body"
  /\ \/ Raises("raised") /\ UNCHANGED ran
     \/ /\ Goes("rendering") \/ Raises("raised") \/ Raises("jsonrpc")
        /\ ran' = [ran EXCEPT !.body = @ + 1]
  /\ UNCHANGED handler

\* An MCP content helper is passed on; anything else is rendered by to_response and
\* captured, with a status that may be an error.
Render ==
  /\ call.at = "rendering"
  /\ \/ \E outcome \in {"content", "error"} : Ends("after_response", outcome)
     \/ Raises("raised")
  /\ UNCHANGED <<ran, handler>>

\* after_exception observers, whose failures are swallowed, then the exception handlers: the
\* one that matches answers, or fails itself; without one the exception goes on.
HandleException ==
  /\ call.at = "observing"
  /\ \/ Goes("after_response")
     \/ \E outcome \in {"content", "error", "raised"} : Ends("after_response", outcome)
  /\ UNCHANGED <<ran, handler>>

\* after_response only for a call that succeeds.
FaultAfterResponse ==
  /\ call.at = "after_response"
  /\ Goes("unwinding")
  /\ ran' = [ran EXCEPT !.after = @ + (IF handler.afterHook /\ call.outcome = "content" THEN 1 ELSE 0)]
  /\ UNCHANGED handler

CallsAfterResponse ==
  ran' = [ran EXCEPT !.after = @ + (IF handler.afterHook THEN 1 ELSE 0), !.late = @ \/ ran.open # ran.opened]

\* The `finally` of the pipeline.  Failures of the hook are swallowed.
AfterResponse ==
  /\ call.at = "after_response"
  /\ Goes("unwinding")
  /\ CallsAfterResponse
  /\ UNCHANGED handler

\* The AsyncExitStack closes what was entered.  A clean-up that fails
\* fails the call, a cancelled one too.
Unwind ==
  /\ call.at = "unwinding"
  /\ ran' = [ran EXCEPT !.open = @ \ {"container", "dependencies"}]
  /\ \/ Goes("after_tool")
     \/ ran.open \ {"stray"} # {} /\ Ends("after_tool", "raised")
  /\ UNCHANGED handler

\* after_tool_call, not for a cancelled call; its failures are swallowed.
AfterToolCall ==
  /\ call.at = "after_tool"
  /\ Goes("over")
  /\ ran' = [ran EXCEPT !.afterTool = @ + (IF handler.observed /\ call.outcome # "cancelled" THEN 1 ELSE 0)]
  /\ UNCHANGED handler

\* CancelledError is raised where the call waits: within the pipeline the hooks of its
\* `finally` and the clean-up still run; a hook that waits has been called.
Cancel ==
  /\ call.outcome # "cancelled"
  /\ \/ call.at = "before_tool" /\ Ends("over", "cancelled") /\ UNCHANGED ran
     \/ call.at = "after_response" /\ handler.afterHook /\ Ends("unwinding", "cancelled") /\ CallsAfterResponse
     \/ call.at = "unwinding" /\ ran.open \ {"stray"} # {} /\ Ends("unwinding", "cancelled") /\ UNCHANGED ran
     \/ call.at = "after_tool" /\ handler.observed /\ Ends("over", "cancelled")
        /\ ran' = [ran EXCEPT !.afterTool = @ + 1]
     \/ /\ call.at \notin {"idle", "new", "over", "before_tool", "after_response", "unwinding", "after_tool"}
        /\ Ends("after_response", "cancelled")
        /\ IF call.at = "dependencies" THEN OpensSome ELSE UNCHANGED ran
  /\ UNCHANGED handler

CallStep ==
  \/ BuildScope \/ BeforeToolCall \/ EnterContainer \/ EnforceGuards \/ BeforeRequest
  \/ ResolveDependencies \/ RunBody \/ Render \/ HandleException \/ AfterResponse
  \/ Unwind \/ AfterToolCall

CallNext == (\E isTool \in BOOLEAN : CallBegins(isTool)) \/ CallStep \/ Cancel

\* One call by itself; McpRequest composes it with the request that makes it.
CallSpec == CallInit /\ [][CallNext]_callVars

-----------------------------------------------------------------------------
Places ==
  {"idle", "new", "before_tool", "container", "guards", "before_request", "dependencies", "body",
   "rendering", "observing", "after_response", "unwinding", "after_tool", "over"}

Calls == [at : Places, outcome : {"none", "content", "error", "raised", "jsonrpc", "cancelled"}]
Resources == {"container", "dependencies", "stray"}
Runs ==
  [body : 0..1, after : 0..1, afterTool : 0..1, entered : BOOLEAN, guarded : BOOLEAN,
   open : SUBSET Resources, opened : SUBSET Resources, late : BOOLEAN]

CallTypeOK == call \in Calls /\ ran \in Runs /\ handler \in Handlers

\* However a call ends (a result, a refusal, a failure in any hook, a cancellation), once the
\* pipeline is entered after_response has run once and while the resources of the call were
\* open, all of them are closed, and after_tool_call has run once unless it was cancelled.
\* What stays open is only what was opened before another dependency failed, never behind a
\* handler that ran.
HooksBalanced ==
  call.at = "over" =>
    /\ ran.open \subseteq {"stray"} /\ (ran.body > 0 => ran.open = {}) /\ ~ran.late
    /\ ran.after = (IF ran.entered /\ handler.afterHook THEN 1 ELSE 0)
    /\ call.outcome # "cancelled" => ran.afterTool = (IF ran.entered /\ handler.observed THEN 1 ELSE 0)
    /\ ran.afterTool <= 1 /\ ran.body <= 1

\* The handler does not run before the guards have let the request through.
GuardsFirst == ran.body > 0 => ran.guarded

=============================================================================

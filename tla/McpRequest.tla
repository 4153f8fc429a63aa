------------------------------ MODULE McpRequest ------------------------------
(***************************************************************************)
(* One request to the MCP endpoint from its sender to its reply: the       *)
(* checks and the routing of mcp/routes.py and core/jsonrpc.py, the        *)
(* methods of mcp/service.py, and the call of a route handler (module      *)
(* HandlerCall) that tools, resources and prompts end in.                  *)
(***************************************************************************)
EXTENDS McpMessage, HandlerCall

CONSTANTS Scenes   \* the requests considered: [sender, message, headers, server]

VARIABLES
  scene,   \* the request as it is sent, who prepared it, and the server's configuration
  at,      \* "ready", "sent", "routed", "called", "listening", "done" or "gone"
  reply    \* what the sender gets: an HTTP status, the error or result, whose id it repeats

\* What a message has is there or is said to be missing; a schema has finitely many
\* annotations, each at a place of its own.
MessageFields ==
  {"method", "body", "jsonrpc", "id", "params", "meta", "version", "capabilities", "declares", "info", "requested",
   "name", "arguments", "argument", "progress", "cursor", "responses"}

ScenesAssumption ==
  \A s \in Scenes :
    /\ s = [sender |-> s.sender, message |-> s.message, headers |-> s.headers, server |-> s.server]
    /\ s.sender \in {"client", "bridge", "direct"}
    /\ s.message = [f \in MessageFields |-> s.message[f]]
    /\ s.message.body \in {"object", "other", "junk"} /\ s.message.params \in {"object", "array"}
    /\ s.message.arguments \in {"object", "invalid", "other"}
    /\ IsFiniteSet(Annotated(s.server.schema)) /\ \A field \in Annotated(s.server.schema) : field.at \in Seq(Nat)
ASSUME ScenesAssumption

requestVars == <<scene, at, reply>>
mcpVars == <<scene, at, reply, call, ran, handler>>

NoReply == [status |-> 0, what |-> "none", id |-> "none"]

message == scene.message
headers == scene.headers
server == scene.server

Registered(name) == name \notin {"none", "unknown"}

\* The arguments headers repeat, of the tool that is called.
ToolFields == IF Registered(message.name) THEN Checked(server.schema) ELSE {}

\* tools/list shows the bridge the schema of a tool unless the tool is hidden.
Shown == IF Registered(message.name) /\ server.visible THEN Annotated(server.schema) ELSE {}

McpInit ==
  /\ scene \in Scenes /\ SoundSchema(scene.server.schema)
  /\ at = "ready" /\ reply = NoReply
  /\ CallInit

-----------------------------------------------------------------------------
\* A sender that prepares its request; "direct" sends one as it is.
Prepared ==
  CASE scene.sender = "client" -> ByClient(message)
    [] scene.sender = "bridge" -> ByBridge(message, Shown)
    [] OTHER -> [message |-> message, headers |-> headers]

Send ==
  /\ at = "ready"
  /\ at' = "sent"
  /\ scene' = [scene EXCEPT !.message = Prepared.message, !.headers = Prepared.headers]
  /\ UNCHANGED <<reply, callVars>>

Answer(status, what, id) ==
  /\ at' = "done"
  /\ reply' = [status |-> status, what |-> what, id |-> id]
  /\ UNCHANGED scene

-----------------------------------------------------------------------------
(* mcp/routes.py: handle_jsonrpc up to the router, and its answers. *)

IsNotification == message.id = "absent" /\ message.method = "notifications/initialized"

\* What is wrong before the metadata is looked at, with the HTTP status.  The last two are
\* errors of parse_request.
EnvelopeChecks ==
  << <<headers.origin = "foreign", <<403, "invalid params", "none">> >>,
     <<message.body = "junk", <<400, "parse error", "none">> >>,
     <<message.body = "object" /\ message.jsonrpc /\ IsNotification, <<202, "accepted", "none">> >>,
     <<message.body = "object" /\ message.id # "given", <<400, "invalid request", "none">> >>,
     <<message.body = "other", <<400, "invalid request", "none">> >>,
     <<~message.jsonrpc \/ message.method = "odd", <<400, "invalid request", "given">> >> >>

EnvelopeAnswer == FirstError(EnvelopeChecks)

HeaderError == MetadataError(message, headers, ToolFields)

\* The methods the cached router has.
Methods ==
  {"server/discover", "initialize", "ping", "notifications/initialized", "tools/list", "tools/call",
   "resources/list", "resources/templates/list", "resources/read", "completion/complete",
   "prompts/list", "prompts/get"}
    \union (IF server.tasks = "off" THEN {} ELSE {"tasks/get", "tasks/update", "tasks/cancel"})
    \union (IF server.skills THEN {"skills/list", "skills/get"} ELSE {})
    \union (IF server.skills /\ server.directory THEN {"resources/directory/read"} ELSE {})

Refuse ==
  /\ at = "sent"
  /\ \/ ~Pass(EnvelopeChecks) /\ Answer(EnvelopeAnswer[1], EnvelopeAnswer[2], EnvelopeAnswer[3])
     \/ /\ Pass(EnvelopeChecks)
        /\ \/ HeaderError # "none"
              /\ Answer(IF HeaderError = "method not found" THEN 404 ELSE 400, HeaderError, "given")
           \/ /\ HeaderError = "none"
              /\ message.method \notin Methods \union {"subscriptions/listen"}
              /\ Answer(404, "method not found", "given")
  /\ UNCHANGED callVars

Accepted == at = "sent" /\ Pass(EnvelopeChecks) /\ HeaderError = "none"

\* _subscription_response.  Parameters that are an array raise outside the router.
Listen ==
  /\ Accepted /\ message.method = "subscriptions/listen"
  /\ \/ message.params = "array" /\ Answer(500, "crash", "none")
     \/ message.params = "object" /\ message.arguments # "object" /\ Answer(400, "invalid params", "given")
     \/ /\ message.params = "object" /\ message.arguments = "object"
        /\ \/ Answer(400, "invalid params", "given")   \* StreamLimitExceeded
           \/ at' = "listening" /\ UNCHANGED <<scene, reply>>
  /\ UNCHANGED callVars

Route ==
  /\ Accepted /\ message.method \in Methods
  /\ at' = "routed"
  /\ UNCHANGED <<scene, reply, callVars>>

\* _finalize_result and the status of the answer; with a progress token the answer is the
\* last event of a stream that has started, with status 200.
BadRequest == {"invalid params", "header mismatch", "missing capability", "unsupported version"}
Streams == message.progress /\ message.params = "object" /\ message.meta = "object"
Responds(what) ==
  Answer(IF what \in BadRequest /\ ~Streams THEN 400 ELSE 200, what, "given")

\* JSONRPCRouter.dispatch: any exception of a method is an internal error.
Crashes == Responds("internal error")

-----------------------------------------------------------------------------
(* mcp/service.py *)

Begins(isTool) == CallBegins(isTool) /\ at' = "called" /\ UNCHANGED <<scene, reply>>
Dispatched(methods) == at = "routed" /\ message.method \in methods

\* server_discover, initialize, ping, notifications_initialized and completion_complete.
Describe ==
  /\ Dispatched({"server/discover", "initialize", "ping", "notifications/initialized", "completion/complete"})
  /\ IF message.method = "initialize" /\ message.params = "array" THEN Crashes ELSE Responds("result")
  /\ UNCHANGED callVars

\* The lists, by pages (_paginate_list).  The catalog of skills may fail, and may not have
\* the directory that is asked for.
List ==
  /\ Dispatched({"tools/list", "resources/list", "resources/templates/list", "prompts/list", "skills/list",
                 "resources/directory/read"})
  /\ \/ message.params = "array" /\ Crashes
     \/ server.skills /\ message.method \in {"resources/list", "skills/list", "resources/directory/read"} /\ Crashes
     \/ message.method = "resources/directory/read" /\ Responds("invalid params")
     \/ /\ message.params = "object" /\ (message.method = "resources/directory/read" => message.name # "none")
        /\ Responds(IF message.cursor = "bad" THEN "invalid params" ELSE "result")
  /\ UNCHANGED callVars

SkillsGet ==
  /\ Dispatched({"skills/get"})
  /\ \/ Crashes \/ Responds("invalid params")
     \/ message.params = "object" /\ message.name # "none" /\ Responds("result")
  /\ UNCHANGED callVars

Missing == IF Registered(message.name) /\ server.visible THEN "none" ELSE "invalid params"

\* What tools_call refuses, in its order.
ToolErrors ==
  << <<message.params = "array", "internal error">>,
     <<Missing # "none", "invalid params">>,
     <<server.requires = "odd", "internal error">>,
     <<server.requires = "special" /\ "special" \notin message.declares, "missing capability">>,
     <<message.arguments = "other", "tool error">>,
     <<server.support = "required" /\ (server.tasks = "off" \/ "tasks" \notin message.declares),
       "missing capability">> >>

ToolError == FirstError(ToolErrors)

Promoted ==
  /\ server.support # "none" /\ server.tasks # "off" /\ "tasks" \in message.declares
  /\ ~(server.inputFirst /\ ~message.responses)

\* A task is created (module McpTasks, McpTaskQueue); handing it to the queue may fail.
ToolsCall ==
  /\ Dispatched({"tools/call"})
  /\ \/ ToolError # "none" /\ Responds(ToolError) /\ UNCHANGED callVars
     \/ /\ ToolError = "none" /\ Promoted
        /\ Responds("task") \/ (server.tasks = "queue" /\ Crashes)
        /\ UNCHANGED callVars
     \/ /\ ToolError = "none" /\ ~Promoted
        /\ IF message.arguments = "invalid" THEN Responds("tool error") /\ UNCHANGED callVars ELSE Begins(TRUE)

\* The index, a skill file, a resource of a handler, or a URI template.  A skill file may be
\* missing, too large, changed or unreadable.
ResourcesRead ==
  /\ Dispatched({"resources/read"})
  /\ CASE message.params = "array" -> Crashes /\ UNCHANGED callVars
       [] message.params = "object" /\ message.name = "none" -> Responds("invalid params") /\ UNCHANGED callVars
       [] message.params = "object" /\ message.name = "openapi" -> Responds("result") /\ UNCHANGED callVars
       [] message.params = "object" /\ message.name = "skill" /\ server.skills ->
            /\ \E what \in {"result", "invalid params", "internal error"} : Responds(what)
            /\ UNCHANGED callVars
       [] OTHER ->
            IF Missing # "none" \/ message.name = "skill" THEN Responds("invalid params") /\ UNCHANGED callVars
            ELSE Begins(FALSE)

\* A prompt of a handler, or of a function that is called without hooks and guards.
PromptsGet ==
  /\ Dispatched({"prompts/get"})
  /\ CASE message.params = "array" -> Crashes /\ UNCHANGED callVars
       [] message.params = "object" /\ (Missing # "none" \/ message.arguments # "object") ->
            Responds("invalid params") /\ UNCHANGED callVars
       [] OTHER ->
            \/ server.promptHandler /\ Begins(FALSE)
            \/ ~server.promptHandler /\ UNCHANGED callVars /\ (Responds("result") \/ Crashes)

\* tasks_get, tasks_update and tasks_cancel: what they do to the task is in module McpTasks.
Tasks ==
  /\ Dispatched({"tasks/get", "tasks/update", "tasks/cancel"})
  /\ \/ "tasks" \notin message.declares /\ Responds("missing capability")
     \/ "tasks" \in message.declares /\ message.params = "array" /\ Crashes
     \/ /\ "tasks" \in message.declares /\ message.params = "object"
        /\ \/ Responds("invalid params")   \* no task id, or a task that is not the caller's
           \/ /\ message.name # "none" /\ (message.method = "tasks/update" => message.arguments = "object")
              /\ Responds("result")
  /\ UNCHANGED callVars

-----------------------------------------------------------------------------
\* The call: any step of it, and the answer once it is over.
HandlerSteps == at = "called" /\ CallStep /\ UNCHANGED requestVars

\* Only the stream of a request with a progress token is closed when its client goes away.
Disconnect == at = "called" /\ Streams /\ Cancel /\ UNCHANGED requestVars

\* An exception that leaves the call without an answer.
FaultTells(outcome) == IF outcome = "raised" THEN {} ELSE {"result"}

\* How each method tells the outcome: _execute_tool_call, resources_read and prompts_get.
\* Content may be too large, or not fit the result.  The JSON-RPC error of a handler has a code
\* of its own.
Tells(outcome) ==
  LET failure == IF message.method = "tools/call" THEN "tool error" ELSE "internal error"
  IN CASE outcome = "content" -> {"result", failure}
       [] outcome = "jsonrpc" /\ message.method # "resources/read" -> {"invalid params", "internal error"}
       [] OTHER -> {failure}

CallEnds ==
  /\ at = "called" /\ call.at = "over"
  /\ \/ call.outcome = "cancelled" /\ at' = "gone" /\ UNCHANGED <<scene, reply>>
     \/ call.outcome # "cancelled" /\ \E what \in Tells(call.outcome) : Responds(what)
  /\ UNCHANGED callVars

McpNext ==
  \/ Send \/ Refuse \/ Listen \/ Route \/ Describe \/ List \/ SkillsGet \/ ToolsCall
  \/ ResourcesRead \/ PromptsGet \/ Tasks \/ HandlerSteps \/ Disconnect \/ CallEnds

=============================================================================

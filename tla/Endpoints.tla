------------------------------ MODULE Endpoints ------------------------------
(***************************************************************************)
(* The two endpoints of the server: a request to the MCP endpoint, or one  *)
(* request to both bindings of the A2A endpoint.                           *)
(***************************************************************************)
EXTENDS McpRequest, A2aRequest

vars == <<mcpVars, a2aVars>>

McpIdle == scene = [sender |-> "none"] /\ at = "done" /\ reply = NoReply /\ CallInit

A2aIdle ==
  /\ ask = [method |-> "none"]
  /\ phase = [b \in Bindings |-> "over"]
  /\ handled = [b \in Bindings |-> NotHandled] /\ answer = [b \in Bindings |-> NoAnswer]

Init == (McpInit /\ A2aIdle) \/ (A2aInit /\ McpIdle)

Next ==
  \/ McpNext /\ UNCHANGED a2aVars
  \/ A2aNext /\ UNCHANGED mcpVars

\* The event loop goes on with every request, and what the handlers call returns.
Progresses == McpNext /\ ~Disconnect /\ UNCHANGED a2aVars

Spec == Init /\ [][Next]_vars /\ WF_vars(Progresses) /\ WF_vars(A2aNext /\ UNCHANGED mcpVars)

-----------------------------------------------------------------------------
IsMcp == scene.sender # "none"

\* A tool, a resource or a prompt runs, or a task for it is created, only for a request that
\* passed every check on its way: the origin, the envelope, headers that repeat the message,
\* the filters, the capabilities, the arguments and the guards.
McpAllowed ==
  ran.body > 0 \/ reply.what = "task" =>
    /\ headers.origin # "foreign" /\ message.jsonrpc /\ message.id = "given"
    /\ Registered(message.name) /\ server.visible
    /\ headers.method \in {"none", message.method}
    /\ headers.name = NoHeader \/ Decode(headers.name) = message.name
    /\ HasMetadata(message) => headers.version = message.version /\ headers.name # NoHeader
    /\ message.method = "tools/call" =>
         /\ reply.what # "task" => message.arguments = "object"
         /\ server.requires = "special" => "special" \in message.declares
         /\ server.support = "required" => "tasks" \in message.declares
         /\ HasMetadata(message) => ~ParamDiffers(message, headers, ToolFields)
    /\ GuardsFirst

\* The handler of the A2A SDK is called only for a version it speaks, with every required
\* extension requested and a context that names its user; an application's own context wins.
A2aAllowed(b) ==
  handled[b] # NotHandled =>
    /\ ask.version = "1.0" /\ ask.method # "unknown" /\ ask.required \subseteq ask.requested
    /\ handled[b].user # "nameless"
    /\ Replaced => handled[b].user = "builder" /\ handled[b].tenant = "builder"

OnlyAllowed ==
  /\ IsMcp => McpAllowed
  /\ ~IsMcp => \A b \in Bindings : A2aAllowed(b)

\* A request is answered with its id wherever it can be read, unless its client went away.
Replies ==
  /\ at = "done" /\ IsMcp /\ reply.id # "given" =>
       message.body # "object" \/ message.id # "given" \/ headers.origin = "foreign" \/ reply.what = "crash"
  /\ at \in {"done", "listening"} \/ (at = "gone" /\ call.outcome = "cancelled")
  /\ \A b \in Bindings : phase[b] = "over"

Replied == <>Replies

\* What the sender of a message leaves to be wrong with its headers and metadata.
Mistaken ==
  \/ message.params = "array" \/ message.meta = "bad" \/ message.capabilities # "object"
  \/ message.method \in Named /\ message.name = "none"
  \/ message.method \in {"initialize", "ping"} /\ HasMetadata(message)

\* Requests the senders prepare wrongly: a version of its own is kept in the metadata only;
\* blanks at the ends of a name or an argument are lost; the client does not mirror
\* arguments, nor does the bridge those of a hidden tool; a branch of one property is annotated
\* with the header of another, which only the bridge takes note of; an initialize asks for a
\* version the server does not speak or for the current.
Diverges ==
  \/ message.version \notin {"none", Current}
  \/ message.method \in Named /\ message.name = "padded"
  \/ \E field \in Checked(server.schema) :
       \/ ArgumentAt(message, field.path) # "none" /\ (scene.sender = "client" \/ ~server.visible)
       \/ ArgumentAt(message, field.path) = "padded"
       \/ \E other \in Annotated(server.schema) : other.header = field.header /\ other.path # field.path
  \/ Handshake(message) /\ message.requested \notin {"none", "2025-06-18"}

\* The server takes every other request the client or the bridge prepares: its checks of
\* headers and metadata find nothing wrong.
PreparedAccepted ==
  at = "sent" /\ scene.sender # "direct" /\ ~Mistaken /\ ~Diverges => HeaderError = "none"

\* Both bindings call the handler for the same operation with the same context, tell success
\* or failure alike and announce the same extensions.  A JSON-RPC notification is declined,
\* JSON-RPC is strict about unknown fields, a route goes before a tenant of its name, some
\* routes read nothing but the path, and a subscription that fails announces no extension over
\* REST.
Outcome(b) == IF answer[b].what = "result" THEN "success" ELSE "failure"
BindingsAgree ==
  ~IsMcp /\ (\A b \in Bindings : phase[b] = "over") /\ ask.id = "given" /\ ask.body = "object"
      /\ ask.jsonrpc /\ ask.params # "extra" /\ ask.rest
      /\ (\A route \in RestRoutes : route.path[1] # ask.tenant.path)
      /\ (ask.method \in Bare => ask.tenant.param = "none" /\ ask.params = "ok") =>
    /\ handled["jsonrpc"] = handled["rest"]
    /\ Outcome("jsonrpc") = Outcome("rest")
    /\ \/ ask.method = "SubscribeToTask" /\ Outcome("rest") = "failure"
       \/ answer["jsonrpc"].announces = answer["rest"].announces

=============================================================================

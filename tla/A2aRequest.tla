------------------------------ MODULE A2aRequest ------------------------------
(***************************************************************************)
(* One A2A request, made over the JSON-RPC binding and over the HTTP+JSON  *)
(* binding of a2a/plugin.py at once, so that the two can be compared.  The *)
(* request handler of the A2A SDK is external: it answers the same to both.*)
(***************************************************************************)
EXTENDS Naturals, Sequences, SequencesExt

CONSTANTS Asks   \* the requests considered

VARIABLES
  ask,      \* the request, the configuration of the plugin, and what the handler will do
  phase,    \* of each binding: "reading", "building", "handling" or "over"
  handled,  \* of each binding: the context the handler is called with, or NotHandled
  answer    \* of each binding: what it answers and the extensions its headers announce

a2aVars == <<ask, phase, handled, answer>>

Operations ==
  {"SendMessage", "SendStreamingMessage", "SubscribeToTask", "GetTask", "CancelTask", "ListTasks",
   "CreateTaskPushNotificationConfig", "ListTaskPushNotificationConfigs", "GetTaskPushNotificationConfig",
   "DeleteTaskPushNotificationConfig", "GetExtendedAgentCard"}

\* The handler finds no task only where it is asked for one, or to cancel it.
AsksAssumption ==
  \A a \in Asks :
    /\ a.method \in Operations \union {"unknown"}
    /\ a.result \in {"result", "none", "a2a error", "fails"}
    /\ a.result = "none" => a.method \in {"GetTask", "CancelTask"}
ASSUME AsksAssumption

Bindings == {"jsonrpc", "rest"}
NotHandled == [operation |-> "none", tenant |-> "none", user |-> "none"]
NoAnswer == [what |-> "none", announces |-> {}]
Advertised == {"e1", "e2"}

A2aInit ==
  /\ ask \in Asks
  /\ phase = [b \in Bindings |-> "reading"]
  /\ handled = [b \in Bindings |-> NotHandled]
  /\ answer = [b \in Bindings |-> NoAnswer]

FirstFault(faults) ==
  LET found == {i \in DOMAIN faults : faults[i][1]}
  IN IF found = {} THEN "none" ELSE faults[Min(found)][2]

Answers(b, what, announces) ==
  /\ phase' = [phase EXCEPT ![b] = "over"]
  /\ answer' = [answer EXCEPT ![b] = [what |-> what, announces |-> announces]]

-----------------------------------------------------------------------------
(* The routes below the path of the plugin, [verbs, path, handler]: a path is a sequence of  *)
(* segments, "*" is one of any text.                                                          *)

RouteAt(verbs, path, handler) == [verbs |-> verbs, path |-> path, handler |-> handler]

\* Every route is there with and without a tenant.
Paths(route) == {route, [route EXCEPT !.path = <<"*">> \o @]}

JsonRpcRoute == RouteAt({"POST"}, <<>>, "jsonrpc")

RestRoute ==
  {RouteAt({"POST"}, <<"message:send">>, "SendMessage"),
   RouteAt({"POST"}, <<"message:stream">>, "SendStreamingMessage"),
   RouteAt({"GET", "POST"}, <<"tasks", "*">>, "task"),
   RouteAt({"GET"}, <<"tasks">>, "ListTasks"),
   RouteAt({"POST"}, <<"tasks", "*", "pushNotificationConfigs">>, "CreateTaskPushNotificationConfig"),
   RouteAt({"GET"}, <<"tasks", "*", "pushNotificationConfigs">>, "ListTaskPushNotificationConfigs"),
   RouteAt({"GET"}, <<"tasks", "*", "pushNotificationConfigs", "*">>, "GetTaskPushNotificationConfig"),
   RouteAt({"DELETE"}, <<"tasks", "*", "pushNotificationConfigs", "*">>, "DeleteTaskPushNotificationConfig"),
   RouteAt({"GET"}, <<"extendedAgentCard">>, "GetExtendedAgentCard")}

JsonRpcRoutes == Paths(JsonRpcRoute)
RestRoutes == UNION {Paths(route) : route \in RestRoute}
Routes == JsonRpcRoutes \union (IF ask.rest THEN RestRoutes ELSE {})

\* Litestar follows a URL segment by segment: a segment that a route names goes before "*",
\* and there is no way back.
Follows(url, path) ==
  /\ Len(path) = Len(url)
  /\ \A i \in DOMAIN url :
       path[i] # url[i] =>
         /\ path[i] = "*"
         /\ \A route \in Routes : ~IsPrefix(Append(SubSeq(path, 1, i - 1), url[i]), route.path)

HandlersAt(verb, url) ==
  {route.handler : route \in {r \in Routes : verb \in r.verbs /\ Follows(url, r.path)}}

\* Where the client of the SDK finds an operation.
Location(method) ==
  CASE method = "SendMessage" -> [verb |-> "POST", path |-> <<"message:send">>]
    [] method = "SendStreamingMessage" -> [verb |-> "POST", path |-> <<"message:stream">>]
    [] method = "SubscribeToTask" -> [verb |-> "GET", path |-> <<"tasks", "id:subscribe">>]
    [] method = "GetTask" -> [verb |-> "GET", path |-> <<"tasks", "id">>]
    [] method = "CancelTask" -> [verb |-> "POST", path |-> <<"tasks", "id:cancel">>]
    [] method = "ListTasks" -> [verb |-> "GET", path |-> <<"tasks">>]
    [] method = "CreateTaskPushNotificationConfig" ->
         [verb |-> "POST", path |-> <<"tasks", "id", "pushNotificationConfigs">>]
    [] method = "ListTaskPushNotificationConfigs" ->
         [verb |-> "GET", path |-> <<"tasks", "id", "pushNotificationConfigs">>]
    [] method = "GetTaskPushNotificationConfig" ->
         [verb |-> "GET", path |-> <<"tasks", "id", "pushNotificationConfigs", "push">>]
    [] method = "DeleteTaskPushNotificationConfig" ->
         [verb |-> "DELETE", path |-> <<"tasks", "id", "pushNotificationConfigs", "push">>]
    [] method = "GetExtendedAgentCard" -> [verb |-> "GET", path |-> <<"extendedAgentCard">>]
    [] OTHER -> [verb |-> "POST", path |-> <<"unknown">>]

Verb(b) == IF b = "jsonrpc" THEN "POST" ELSE Location(ask.method).verb
Url(b) ==
  (IF ask.tenant.path = "none" THEN <<>> ELSE <<ask.tenant.path>>)
  \o (IF b = "jsonrpc" THEN <<>> ELSE Location(ask.method).path)

\* handle_task_segment: what is done with a task is the end of its segment.
TaskOperation(verb, segment) ==
  CASE verb = "POST" /\ segment = "id:cancel" -> "CancelTask"
    [] segment = "id:subscribe" -> "SubscribeToTask"
    [] verb = "GET" /\ segment # "id:subscribe" -> "GetTask"
    [] OTHER -> "none"

\* The operation a request comes to, "none" where there is no handler for it.
Reached(b) ==
  LET handlers == HandlersAt(Verb(b), Url(b))
  IN CASE b = "jsonrpc" -> IF "jsonrpc" \in handlers THEN ask.method ELSE "none"
       [] b # "jsonrpc" /\ handlers = {"task"} -> TaskOperation(Verb(b), Last(Url(b)))
       [] b # "jsonrpc" /\ handlers \subseteq {"jsonrpc"} -> "none"
       [] OTHER -> CHOOSE handler \in handlers : TRUE

-----------------------------------------------------------------------------
\* What is wrong with the envelope (_read_envelope), the version, the method and the
\* parameters, in the order each binding looks at them.  JSON-RPC is strict about unknown
\* fields.
JsonRpcFaults ==
  << <<HandlersAt("POST", Url("jsonrpc")) = {}, "not found">>,
     <<ask.body \in {"empty", "junk"}, "parse error">>,
     <<ask.body = "other" \/ ask.id = "bad" \/ ~ask.jsonrpc, "invalid request">>,
     <<ask.params = "array", "invalid params">>,
     <<ask.id = "absent", "no content">>,
     <<ask.version # "1.0", "version">>,
     <<ask.method = "unknown", "method not found">>,
     <<ask.params \in {"bad", "extra"}, "invalid params">> >>

\* Operations with a body, and those that take nothing but what their path says.
Posts == {"SendMessage", "SendStreamingMessage", "CancelTask", "CreateTaskPushNotificationConfig"}
Bare ==
  {"SubscribeToTask", "GetTaskPushNotificationConfig", "DeleteTaskPushNotificationConfig",
   "GetExtendedAgentCard"}

\* What a request without a handler comes to: a POST to one segment that is no route's is a
\* JSON-RPC request of a tenant of that name, and none of what REST sends is such a request.
Astray ==
  CASE "jsonrpc" \notin HandlersAt(Verb("rest"), Url("rest")) -> "not found"
    [] "jsonrpc" \in HandlersAt(Verb("rest"), Url("rest")) ->
         IF ask.body \in {"empty", "junk"} THEN "parse error" ELSE "invalid request"

Unparsed ==
  \/ Reached("rest") \in Posts /\ ask.body \in {"junk", "other"}
  \/ Reached("rest") \notin Bare /\ ask.params \in {"bad", "array"}

\* Routes that do not look at the version.
FaultRestFaults == << <<Reached("rest") = "none", Astray>>, <<Unparsed, "parse error">> >>

RestFaults ==
  << <<Reached("rest") = "none", Astray>>,
     <<ask.version # "1.0", "version">>,
     <<Unparsed, "parse error">> >>

Fault(b) == FirstFault(IF b = "jsonrpc" THEN JsonRpcFaults ELSE RestFaults)

Read(b) ==
  /\ phase[b] = "reading"
  /\ IF Fault(b) # "none"
     THEN Answers(b, Fault(b), {})
     ELSE phase' = [phase EXCEPT ![b] = "building"] /\ UNCHANGED answer
  /\ UNCHANGED <<ask, handled>>

\* _resolve_tenant: the parameter, the path (of the route with a tenant), the header.
Tenant(b) ==
  LET param == IF b = "rest" /\ Reached(b) \in Bare THEN "none" ELSE ask.tenant.param
      path  == IF \E route \in Routes : Follows(Url(b), route.path) /\ IsPrefix(<<"*">>, route.path)
               THEN Head(Url(b)) ELSE "none"
  IN CASE param # "none" -> param
       [] param = "none" /\ path # "none" -> path
       [] OTHER -> ask.tenant.header

\* The user of the context: that of the request, or of the context_builder's own context.
Replaced == ask.builder = "replaces"
ContextUser == IF Replaced THEN "builder" ELSE ask.user

\* The context_builder may refuse the request with an A2A or an HTTP error, or fail.  A user
\* of Litestar's that has no name would share the tasks of the anonymous one.
ContextFaults ==
  << <<~(ask.required \subseteq ask.requested), "extension">>,
     <<ask.builder = "refuses", "a2a error">>,
     <<ask.builder = "http", "http error">>,
     <<ask.builder = "fails" \/ ContextUser = "nameless", "internal error">> >>

BuildContext(b) ==
  /\ phase[b] = "building"
  /\ LET fault == FirstFault(ContextFaults)
     IN \/ fault # "none" /\ Answers(b, fault, {}) /\ UNCHANGED handled
        \/ /\ fault = "none"
           /\ phase' = [phase EXCEPT ![b] = "handling"]
           /\ handled' = [handled EXCEPT
                 ![b] = [operation |-> Reached(b), tenant |-> IF Replaced THEN "builder" ELSE Tenant(b),
                         user |-> ContextUser]]
           /\ UNCHANGED answer
  /\ UNCHANGED ask

\* extension_headers: what the handler activated has to be requested and advertised.
Activated == IF ask.activates \subseteq (ask.requested \intersect Advertised) THEN ask.activates ELSE {}
Misactivated == Activated # ask.activates

\* The context of a subscription by GET is gone when its first item turns out to be an error.
Announced(b, what) ==
  IF b = "rest" /\ handled[b].operation = "SubscribeToTask" /\ Verb(b) = "GET" /\ what # "result"
  THEN {} ELSE Activated

\* dispatch and _stream: the handler's result, its error, or none where there is no task.
\* A wrong activation fails a success of either binding, and an error of JSON-RPC only.
Handle(b) ==
  /\ phase[b] = "handling"
  /\ LET fault == FirstFault(
           << <<Misactivated /\ (b = "jsonrpc" \/ ask.result = "result"), "internal error">>,
              <<ask.result = "none" /\ handled[b].operation \in {"GetTask", "CancelTask"}, "a2a error">>,
              <<ask.result = "fails", "internal error">>,
              <<ask.result = "a2a error", "a2a error">> >>)
         what == IF fault = "none" THEN "result" ELSE fault
     IN Answers(b, what, Announced(b, what))
  /\ UNCHANGED <<ask, handled>>

A2aNext == \E b \in Bindings : Read(b) \/ BuildContext(b) \/ Handle(b)

=============================================================================

----------------------------- MODULE MCEndpoints -----------------------------
\* Requests for TLC: an ordinary one of every method with one detail changed, and an
\* ordinary tools/call with two.
EXTENDS Endpoints, Integers

Arg(path, text) == [p \in {path} |-> text]
NoArgument == [p \in {} |-> "none"]
Node(header, ref, props, branches) == [header |-> header, ref |-> ref, props |-> props, branches |-> branches]
Prop(name, node) == [name |-> name, node |-> node]
Leaf(header) == Node(header, "none", <<>>, <<>>)
Object(props) == Node("none", "none", props, <<>>)
Schema(root, defs) == [root |-> root, defs |-> defs]
A == <<"a">>
Below == <<"o", "b">>
Flat == Schema(Object(<<Prop("a", Leaf("X"))>>), [n \in {} |-> {}])
\* A model that refers to itself, below a union, with annotations of its own and of a branch.
Deep == Schema(Object(<<Prop("a", Node("none", "none", <<>>, <<Leaf("Y"), Leaf("none")>>)),
                        Prop("o", Node("none", "none", <<>>, <<Node("none", "D", <<>>, <<>>), Leaf("none")>>))>>),
               [n \in {"D"} |-> Node("Z", "none", <<Prop("b", Leaf("X")), Prop("o", Node("none", "D", <<>>, <<>>))>>, <<>>)])
\* One header for a property and for a branch of another; and for two properties.
Shared == Schema(Object(<<Prop("a", Leaf("X")), Prop("o", Object(<<Prop("b", Node("none", "none", <<>>, <<Leaf("X")>>))>>))>>),
                 [n \in {} |-> {}])
Twice == Schema(Object(<<Prop("a", Leaf("X")), Prop("c", Leaf("X"))>>), [n \in {} |-> {}])

\* A tool of which headers repeat nothing.
NoSchema ==
  [root |-> [header |-> "none", ref |-> "none", props |-> <<>>, branches |-> <<>>], defs |-> [n \in {} |-> {}]]

ModernMessage(method) ==
  [method |-> method, body |-> "object", jsonrpc |-> TRUE, id |-> "given", params |-> "object",
   meta |-> "object", version |-> Current, capabilities |-> "object", declares |-> {"tasks", "special"}, info |-> TRUE,
   requested |-> "none", name |-> "plain", arguments |-> "object", argument |-> NoArgument,
   progress |-> FALSE, cursor |-> "none", responses |-> FALSE]

LegacyMessage(method) ==
  [ModernMessage(method) EXCEPT !.meta = "absent", !.version = "none", !.capabilities = "none", !.info = FALSE]

ModernHeaders(method) == RequestHeaders(ModernMessage(method))
LegacyHeaders(method) == HandshakeHeaders([ModernMessage(method) EXCEPT !.name = "none"])

Server ==
  [tasks |-> "local", skills |-> TRUE, directory |-> TRUE, visible |-> TRUE, requires |-> "none", support |-> "none",
   inputFirst |-> FALSE, schema |-> NoSchema, promptHandler |-> TRUE]

Ordinary(method) ==
  {[sender |-> sender, message |-> ModernMessage(method), headers |-> ModernHeaders(method), server |-> Server]
     : sender \in {"direct", "client", "bridge"}}
  \union {[sender |-> "direct", message |-> LegacyMessage(method), headers |-> LegacyHeaders(method), server |-> Server]}
  \union {[sender |-> sender, message |-> [LegacyMessage(method) EXCEPT !.declares = {}],
           headers |-> LegacyHeaders(method), server |-> Server] : sender \in {"direct", "client", "bridge"}}

Changes ==
  << <<"headers", "origin", "foreign">>, <<"headers", "origin", "allowed">>,
     <<"headers", "version", "none">>, <<"headers", "version", Current>>,
     <<"headers", "version", "2025-06-18">>, <<"headers", "version", "2024-11-05">>,
     <<"headers", "method", "none">>, <<"headers", "method", "tools/list">>,
     <<"headers", "name", NoHeader>>, <<"headers", "name", Encode("special")>>,
     <<"headers", "name", [coded |-> TRUE, text |-> "garbage"]>>,
     <<"headers", "params", Arg("X", Encode("plain"))>>, <<"headers", "params", Arg("X", Encode("special"))>>,
     <<"headers", "params", Arg("Y", Encode("plain"))>>,
     <<"message", "body", "other">>, <<"message", "body", "junk">>, <<"message", "jsonrpc", FALSE>>,
     <<"message", "id", "absent">>, <<"message", "id", "bad">>, <<"message", "params", "array">>,
     <<"message", "meta", "absent">>, <<"message", "meta", "bad">>,
     <<"message", "version", "none">>, <<"message", "version", "odd">>,
     <<"message", "version", "2025-06-18">>, <<"message", "version", "2024-11-05">>,
     <<"message", "capabilities", "none">>, <<"message", "capabilities", "odd">>,
     <<"message", "info", FALSE>>, <<"message", "declares", {}>>, <<"message", "declares", {"tasks"}>>,
     <<"message", "requested", "2025-06-18">>, <<"message", "requested", "2024-11-05">>,
     <<"message", "requested", Current>>,
     <<"message", "name", "none">>, <<"message", "name", "unknown">>, <<"message", "name", "special">>,
     <<"message", "name", "padded">>, <<"message", "name", "skill">>, <<"message", "name", "openapi">>,
     <<"message", "arguments", "invalid">>, <<"message", "arguments", "other">>,
     <<"message", "argument", Arg(A, "plain")>>, <<"message", "argument", Arg(A, "special")>>,
     <<"message", "argument", Arg(A, "padded")>>, <<"message", "argument", Arg(Below, "plain")>>,
     <<"message", "argument", Arg(<<"o">> \o Below, "special")>>,
     <<"message", "argument", [p \in {A, Below} |-> IF p = A THEN "plain" ELSE "special"]>>,
     <<"message", "progress", TRUE>>, <<"message", "cursor", "bad">>, <<"message", "responses", TRUE>>,
     <<"server", "tasks", "off">>, <<"server", "tasks", "queue">>, <<"server", "skills", FALSE>>, <<"server", "directory", FALSE>>,
     <<"server", "visible", FALSE>>, <<"server", "requires", "special">>, <<"server", "requires", "odd">>,
     <<"server", "support", "optional">>, <<"server", "support", "required">>,
     <<"server", "inputFirst", TRUE>>, <<"server", "schema", Flat>>,
     <<"server", "schema", Deep>>, <<"server", "schema", Shared>>, <<"server", "schema", Twice>>, <<"server", "promptHandler", FALSE>> >>

Changed(request, i) ==
  IF i = 0 THEN request
  ELSE [request EXCEPT ![Changes[i][1]][Changes[i][2]] = Changes[i][3]]

\* Metadata that tells who the client is and nothing else.
OnlyInfo(method) ==
  {[sender |-> sender, message |-> [LegacyMessage(method) EXCEPT !.meta = "object", !.info = TRUE],
    headers |-> LegacyHeaders(method), server |-> Server] : sender \in {"direct", "client", "bridge"}}

\* Parameters that are no object, and metadata that is none, have no fields.
Sound(request) ==
  LET m == request.message
  IN /\ m.params = "array" => m.meta = "absent" /\ m.declares = {}
     /\ m.meta # "object" => m.version = "none" /\ m.capabilities = "none" /\ ~m.info
     /\ m.meta = "object" /\ m.capabilities # "object" => m.declares = {}
     /\ request.sender # "direct" => m.meta # "bad" /\ m.params = "object" /\ m.body = "object"

AllMethods ==
  {"server/discover", "initialize", "ping", "notifications/initialized", "tools/list", "tools/call",
   "resources/list", "resources/templates/list", "resources/read", "completion/complete", "prompts/list",
   "prompts/get", "tasks/get", "tasks/update", "tasks/cancel", "skills/list", "skills/get",
   "resources/directory/read", "subscriptions/listen", "odd", "unknown"}

MCScenes ==
  {request \in UNION {{Changed(o, i) : o \in Ordinary(method), i \in 0..Len(Changes)} : method \in AllMethods}
               \union UNION {OnlyInfo(method) : method \in AllMethods}
               \union {Changed(Changed(o, i), j) : o \in {r \in Ordinary("tools/call") : HasMetadata(r.message) /\ r.sender # "client"},
                        i \in 1..Len(Changes), j \in 1..Len(Changes)}
     : Sound(request)}

OrdinaryAsk ==
  [method |-> "GetTask", body |-> "object", jsonrpc |-> TRUE, id |-> "given", version |-> "1.0", params |-> "ok",
   tenant |-> [param |-> "none", path |-> "none", header |-> "none"], requested |-> {"e1"}, required |-> {"e1"},
   user |-> "named", builder |-> "none", result |-> "result", activates |-> {}, rest |-> TRUE]

MCAsks ==
  {a \in {[OrdinaryAsk EXCEPT !.method = method, !.requested = requested, !.required = required, !.user = user,
                       !.builder = builder, !.result = result, !.activates = activates]
     : method \in {"SendMessage", "GetTask", "SubscribeToTask"}, requested \in SUBSET {"e1", "e2"}, required \in {{}, {"e1"}},
       user \in {"named", "nameless"}, builder \in {"none", "replaces", "refuses", "http", "fails"},
       result \in {"result", "none", "a2a error", "fails"}, activates \in {{}, {"e1"}, {"e9"}, {"e1", "e2"}}}
     : a.method # "GetTask" => a.result # "none"}
  \union
  {[OrdinaryAsk EXCEPT !.method = method, !.version = version, !.params = params, !.body = body, !.id = id,
                       !.jsonrpc = jsonrpc]
     : method \in {"SendMessage", "CancelTask", "SubscribeToTask", "unknown"}, version \in {"1.0", "0.3"},
       params \in {"ok", "extra", "bad", "array"}, body \in {"object", "empty", "junk", "other"},
       id \in {"given", "absent", "bad"}, jsonrpc \in BOOLEAN}
  \union
  {[OrdinaryAsk EXCEPT !.method = method, !.rest = rest, !.builder = builder,
                       !.tenant = [param |-> p, path |-> q, header |-> h]]
     : method \in Operations, rest \in BOOLEAN, builder \in {"none", "replaces"},
       p \in {"none", "t1"}, q \in {"none", "t2", "tasks", "extendedAgentCard"}, h \in {"none", "t3"}}

=============================================================================

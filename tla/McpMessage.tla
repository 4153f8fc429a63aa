------------------------------ MODULE McpMessage ------------------------------
(***************************************************************************)
(* An MCP message and the headers of the HTTP request that carries it: how *)
(* the client of mcp/client.py and the bridge of mcp/bridge.py prepare the *)
(* two, and how mcp/routes.py compares them.                               *)
(***************************************************************************)
EXTENDS Naturals, Sequences, SequencesExt

Current == "2026-07-28"
Supported == {Current, "2025-06-18"}   \* the third supported version is treated as the second

\* MCP_NAME_FIELDS: the methods whose name, uri or task id the Mcp-Name header repeats.
Named == {"tools/call", "resources/read", "prompts/get", "tasks/get", "tasks/update",
          "tasks/cancel", "skills/get", "resources/directory/read"}

\* Checks are a sequence of pairs of what is wrong and the error for it; the first that
\* applies counts.
Pass(checks) == \A i \in DOMAIN checks : ~checks[i][1]

FirstError(checks) ==
  LET failing == {i \in DOMAIN checks : checks[i][1]}
  IN IF failing = {} THEN "none" ELSE checks[Min(failing)][2]

-----------------------------------------------------------------------------
\* The value of a header that repeats a text of the message.  A text is "plain", "padded"
\* with blanks at its ends, or "special": not visible ASCII, or like an encoded value.
NoHeader == [coded |-> FALSE, text |-> "none"]
NoParams == [h \in {} |-> NoHeader]

\* A value that is sent as it is, whatever it holds.
FaultEncode(text) == [coded |-> FALSE, text |-> text]

\* _encode_header_value
Encode(text) == [coded |-> text = "special", text |-> text]

\* The server strips a value before decode_mcp_header_value; a text that is not encoded
\* loses its blanks and "special" ones do not survive the transport.
Decode(header) ==
  IF ~header.coded /\ header.text \in {"padded", "special"} THEN "other" ELSE header.text

-----------------------------------------------------------------------------
(* Arguments that headers repeat.  The JSON schema of a tool is [root, defs]; a node is       *)
(* [header, ref, props, branches]: its x-mcp-header, the definition it refers to, a sequence  *)
(* of [name, node], and the branches of anyOf, oneOf and allOf.  Server and bridge each have  *)
(* a walk of their own through the same places: `at` numbers the children on the way to one,  *)
(* `seen` ends a definition that refers to itself.                                            *)

\* The definition comes first, then the properties, then the branches.
Children(place, defs) ==
  LET n == place.node
      Child(i, node, path, seen, property) ==
        [at |-> Append(place.at, i), node |-> node, path |-> path, seen |-> seen, property |-> property]
  IN (IF n.ref \in DOMAIN defs \ place.seen
      THEN {Child(0, defs[n.ref], place.path, place.seen \union {n.ref}, FALSE)} ELSE {})
     \union {Child(i, n.props[i].node, Append(place.path, n.props[i].name), place.seen, TRUE) : i \in DOMAIN n.props}
     \union {Child(Len(n.props) + i, n.branches[i], place.path, place.seen, FALSE) : i \in DOMAIN n.branches}

Walk(schema) ==
  LET Level[n \in Nat] ==
        IF n = 0 THEN {[at |-> <<>>, node |-> schema.root, path |-> <<>>, seen |-> {}, property |-> FALSE]}
        ELSE UNION {Children(place, schema.defs) : place \in Level[n - 1]}
      From[n \in Nat] == IF Level[n] = {} THEN {} ELSE Level[n] \union From[n + 1]
  IN From[0]

\* _iter_header_schema: every annotation, those of branches and definitions as well.
Annotated(schema) ==
  {[at |-> place.at, path |-> place.path, header |-> place.node.header, property |-> place.property] :
     place \in {p \in Walk(schema) : p.node.header # "none"}}

\* Which of two places the walk comes to later.
After(a, b) ==
  \/ IsStrictPrefix(b, a)
  \/ \E i \in DOMAIN a \cap DOMAIN b : a[i] > b[i] /\ SubSeq(a, 1, i - 1) = SubSeq(b, 1, i - 1)

\* iter_mcp_header_fields: the annotations of properties.
Checked(schema) == {field \in Annotated(schema) : field.property}

\* validate_mcp_header_schema, when the server starts: no header twice.
SoundSchema(schema) == \A f, g \in Checked(schema) : f.header = g.header => f = g

\* The text of the argument at a path, "none" where it is missing or null.
ArgumentAt(message, path) == IF path \in DOMAIN message.argument THEN message.argument[path] ELSE "none"

ParamAt(params, name) == IF name \in DOMAIN params THEN params[name] ELSE NoHeader

-----------------------------------------------------------------------------
(* What a sender prepares: a record [message, headers]. *)

\* prepare_mcp_request: metadata that the message has is kept.
WithMetadata(message) ==
  [message EXCEPT !.meta = "object",
                  !.version = IF @ = "none" THEN Current ELSE @,
                  !.capabilities = IF @ = "none" THEN "object" ELSE @,
                  !.declares = IF message.capabilities = "none" THEN {} ELSE @,
                  !.info = TRUE]

\* mcp_request_headers
RequestHeaders(message) ==
  [origin |-> "none", version |-> Current, method |-> message.method,
   name |-> IF message.method \in Named /\ message.name # "none" THEN Encode(message.name) ELSE NoHeader,
   params |-> NoParams]

ByClient(message) ==
  [message |-> WithMetadata(message), headers |-> RequestHeaders(message)]

\* _is_legacy_handshake_or_ping: passed on as it is, with the version it asks for.
Handshake(message) == message.method \in {"initialize", "ping"} /\ message.version = "none"

HandshakeHeaders(message) ==
  [RequestHeaders(message) EXCEPT
     !.version = IF message.requested = "none" THEN "2025-06-18" ELSE message.requested,
     !.method = "none"]

\* _custom_tool_headers: of two annotations with one header the later counts.
Mirrored(message, annotated) ==
  LET given == {field \in annotated : ArgumentAt(message, field.path) # "none"}
      Latest(fields) == CHOOSE f \in fields : \A g \in fields : ~After(g.at, f.at)
  IN IF message.method # "tools/call" \/ message.arguments = "other" THEN NoParams
     ELSE [h \in {field.header : field \in given} |->
             Encode(ArgumentAt(message, Latest({field \in given : field.header = h}).path))]

ByBridge(message, annotated) ==
  IF Handshake(message)
  THEN [message |-> message, headers |-> HandshakeHeaders(message)]
  ELSE [message |-> WithMetadata(message),
        headers |-> [RequestHeaders(message) EXCEPT !.params = Mirrored(message, annotated)]]

-----------------------------------------------------------------------------
(* _request_metadata_error *)

HasMetadata(message) ==
  message.meta = "object" /\ (message.version # "none" \/ message.capabilities # "none" \/ message.info)

IsModern(message, headers) ==
  \/ message.method = "server/discover"
  \/ HasMetadata(message)
  \/ headers.version \notin {"none", "2025-06-18"}
  \/ headers.method # "none" \/ headers.name # NoHeader

\* An Mcp-Param header has to repeat the argument, and to be missing where it is missing.
ParamDiffers(message, headers, fields) ==
  \E field \in fields :
    LET argument == ArgumentAt(message, field.path)
        header == ParamAt(headers.params, field.header)
    IN IF argument = "none" THEN header # NoHeader ELSE header = NoHeader \/ Decode(header) # argument

ModernChecks(message, headers, fields) ==
  << <<message.meta # "object" \/ message.version \in {"none", "odd"} \/ message.capabilities # "object",
       "invalid params">>,
     <<headers.version # message.version \/ headers.method # message.method, "header mismatch">>,
     <<message.version \notin Supported, "unsupported version">>,
     <<message.method \in {"initialize", "ping"}, "method not found">>,
     <<message.method \in Named
         /\ (message.name = "none" \/ Decode(headers.name) # message.name), "header mismatch">>,
     <<message.method = "tools/call" /\ message.arguments # "other"
         /\ ParamDiffers(message, headers, fields), "header mismatch">> >>

MetadataError(message, headers, fields) ==
  IF message.meta = "bad" THEN "invalid params"
  ELSE IF IsModern(message, headers) THEN FirstError(ModernChecks(message, headers, fields))
  ELSE "none"

=============================================================================

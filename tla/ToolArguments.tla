---------------------------- MODULE ToolArguments ----------------------------
(***************************************************************************)
(* From the arguments of a call to the parameters of a Python function:    *)
(* what tools/list advertises, what the validation accepts, how the        *)
(* executor splits the arguments over path, query and body, what Litestar  *)
(* (external) hands to the handler, and what a Tool makes of it: the       *)
(* handler of a Tool is synthesized, and an agent executes it without one. *)
(* A prompt is a handler, too, or a function that is called as it is.      *)
(*                                                                         *)
(* A value is the key it was sent under; the keys in `unfit` have values   *)
(* that do not convert to the type of their parameter.                     *)
(***************************************************************************)
EXTENDS FiniteSets

CONSTANTS Calls   \* [target, callable, keys, unfit, supply]

VARIABLES
  call,     \* the call
  at,       \* how far it has come
  values,   \* of each parameter: the keys it is made of, or where else it is from
  used      \* the keys that the inputs of dependencies are made of

callVars == <<call, at, values, used>>

\* A parameter is [name, alias, kind, required].  Its kind is "plain", "header" for one taken
\* from a header or a cookie, "context" for a ToolContext or a connection, "rest" for the
\* keyword arguments of a function, or the marker that has it injected.  A callable is
\* [params, providers, path, body]: the parameters of the function, those of each dependency
\* its layers declare, the names in its path, and the fields of its body.
Markers == {"dependency", "provider", "dishka", "container"}
Reserved == {"request", "state", "data"}
Synthesized == [request |-> "_mcp_param_request", state |-> "_mcp_param_state", data |-> "_mcp_param_data"]

Names(params) == {p.name : p \in params}
Dependencies(s) == DOMAIN s.providers
HasBody(s) == "data" \in Names(s.params)

-----------------------------------------------------------------------------
(* The handler of a tool *)

Request == [name |-> "request", alias |-> "request", kind |-> "context", required |-> TRUE]

\* Markers other than a named dependency are resolved by the tool; a reserved name is renamed.
Endpoint(s) ==
  LET Renamed(p) == [name |-> IF p.name \in Reserved THEN Synthesized[p.name] ELSE p.name,
                     alias |-> p.name, kind |-> p.kind, required |-> p.required]
  IN [params |-> {Renamed(p) : p \in {q \in s.params : q.kind \in {"plain", "header"}}}
                 \union {p \in s.params : p.kind = "dependency"} \union {Request},
      providers |-> s.providers, path |-> s.path, body |-> s.body]

\* What a tool is executed with: the names of its function.
Restored(s, bound) ==
  [n \in {p.name : p \in {q \in s.params : q.kind \in {"plain", "header", "dependency"}}} |->
     IF n \in Reserved THEN bound[Synthesized[n]] ELSE bound[n]]

Handler(c) == IF c.target \in {"handler", "prompt"} THEN c.callable ELSE Endpoint(c.callable)

-----------------------------------------------------------------------------
(* What is advertised *)

WireName(p) == IF p.kind = "header" THEN p.name ELSE p.alias

\* A parameter of a dependency that is the caller's to give: another dependency is not.  Left
\* out are the names resolved_user and user_claims, and types that Dishka resolves in a handler.
Collected(s, skipped, p) == p.name \notin Reserved \union skipped \union Dependencies(s)

DependencyInputs(s, skipped) ==
  {p \in UNION {s.providers[d] : d \in Dependencies(s)} : Collected(s, skipped, p)}

\* [wire, name], of every parameter that has another name on the wire.
Aliases(s) ==
  {[wire |-> WireName(p), name |-> p.name] :
     p \in {q \in s.params \union DependencyInputs(s, {}) : WireName(q) # q.name}}

\* Two parameters that share an alias are an error; the name of another parameter is none.
Collides(s) == \E a, b \in Aliases(s) : a.wire = b.wire /\ a.name # b.name

\* The inputs of every dependency in reach are added, whether the handler uses it or not.
Advertised(s, skipped) ==
  {p \in s.params :
     /\ p.name \notin (Reserved \ {"data"}) \union Dependencies(s) \union skipped
     /\ p.kind \notin Markers}
  \union DependencyInputs(s, skipped)

Schema(s) ==
  LET offered == Advertised(s, {})
  IN [properties |-> {WireName(p) : p \in offered},
      required |-> {WireName(p) : p \in {q \in offered : q.required}}]

\* The arguments prompts/list declares: those of a handler are named as on the wire.
HandlerArguments(s) == {[name |-> WireName(p), required |-> p.required] : p \in Advertised(s, {})}

PromptArguments(c) ==
  IF c.target = "prompt" THEN HandlerArguments(c.callable)
  ELSE {[name |-> p.name, required |-> p.required] : p \in {q \in c.callable.params : q.kind # "rest"}}

\* The schema a Tool gives an agent, and the fields of its arguments.
Fields(s) == {p \in s.params : p.kind \in {"plain", "header"}}

-----------------------------------------------------------------------------
(* What is accepted *)

\* The key that serves each wire name: itself, or the Python name it stands for.
Resolved(keys, offered) ==
  LET named == {p \in offered : p.name # "data"}
      wires == {WireName(p) : p \in named}
      Legacy(w) == {p.name : p \in {q \in named : WireName(q) = w /\ q.name # w}} \cap (keys \ wires)
  IN [w \in {v \in wires : v \in keys \/ Legacy(v) # {}} |->
        IF w \in keys THEN w ELSE CHOOSE n \in Legacy(w) : TRUE]

Leftover(keys, offered) ==
  LET named == {p \in offered : p.name # "data"}
  IN keys \ ({WireName(p) : p \in named} \union Names(named))

\* msgspec.convert: every field of the body is there and converts; others are ignored.
Converts(s, body, unfit) ==
  IF body = {"data"} THEN "data" \notin unfit ELSE s.body \subseteq body /\ s.body \cap unfit = {}

\* _validate_tool_arguments finds no error.
Valid(s, keys, unfit) ==
  LET offered == Advertised(s, {})
      resolved == Resolved(keys, offered)
      left == Leftover(keys, offered)
      body == IF "data" \in left THEN {"data"} ELSE left
  IN /\ HasBody(s) /\ body # {} => Converts(s, body, unfit)
     /\ ~HasBody(s) => left = {}
     /\ \A p \in offered :
          IF p.name = "data" THEN p.required => left # {}
          ELSE IF WireName(p) \in DOMAIN resolved THEN resolved[WireName(p)] \notin unfit
          ELSE ~p.required

\* inspect.Signature.bind, by name.
Binds(s, keys) ==
  /\ \A p \in s.params : p.required => p.name \in keys
  /\ \A k \in keys : k \in Names(s.params) \/ \E p \in s.params : p.kind = "rest"

-----------------------------------------------------------------------------
(* How the executor splits it, and what Litestar binds *)

\* Only the wire names that were sent are passed on.
FaultSplit(s, keys) ==
  LET offered == Advertised(s, s.path)
      left == Leftover(keys, offered) \ s.path
  IN [path |-> [n \in keys \cap s.path |-> n],
      query |-> [w \in (keys \cap {WireName(p) : p \in offered}) \ s.path |-> w],
      body |-> IF ~HasBody(s) THEN {} ELSE IF "data" \in left THEN {"data"} ELSE left]

Split(s, keys) ==
  LET offered == Advertised(s, s.path)
      resolved == Resolved(keys, offered)
      direct == keys \cap s.path
      left == Leftover(keys, offered) \ direct
  IN [path |-> [n \in direct \union (DOMAIN resolved \cap s.path) |-> IF n \in direct THEN n ELSE resolved[n]],
      query |-> [w \in DOMAIN resolved \ s.path |-> resolved[w]],
      body |-> IF ~HasBody(s) THEN {} ELSE IF "data" \in left THEN {"data"} ELSE left]

\* The values in the path go through the parsers of its parameters, and one that a parser
\* rejects fails the call.
Rejected(split, unfit) == \E n \in DOMAIN split.path : split.path[n] \in unfit

\* The sources of a parameter, {} when it is required and has none.
Bound(s, split, unfit, p) ==
  IF p.kind \in Markers \union {"context"} \/ p.name \in Dependencies(s) \union (Reserved \ {"data"})
  THEN {"injected"}
  ELSE IF p.name \in s.path
  THEN IF p.name \in DOMAIN split.path THEN {split.path[p.name]} ELSE IF p.required THEN {} ELSE {"default"}
  ELSE IF p.name = "data"
  THEN IF split.body # {} /\ Converts(s, split.body, unfit) THEN split.body \cap (s.body \union {"data"})
       ELSE IF p.required \/ split.body # {} THEN {} ELSE {"default"}
  ELSE IF p.kind = "plain" /\ p.alias \in DOMAIN split.query THEN {split.query[p.alias]} \ unfit
  ELSE IF p.required THEN {} ELSE {"default"}

\* The dependencies the handler uses, directly or through others: only they are called.
Used(s) ==
  LET Closed(D) == /\ Names(s.params) \cap Dependencies(s) \subseteq D
                   /\ \A d \in D : Names(s.providers[d]) \cap Dependencies(s) \subseteq D
  IN {d \in Dependencies(s) : \A D \in SUBSET Dependencies(s) : Closed(D) => d \in D}

Inputs(s) == s.params \union UNION {s.providers[d] : d \in Used(s)}

-----------------------------------------------------------------------------
(* What a tool makes of it *)

\* An injected parameter that was not passed, in the order in which its sources are asked.
Supplied(p, supply) ==
  IF \/ supply.resolver = "has" \/ p.kind = "provider"
     \/ p.kind = "dependency" /\ supply.provides
     \/ supply.dishka = "has"
  THEN {"injected"}
  ELSE IF p.kind = "dishka" /\ supply.dishka = "lacks" /\ p.required THEN {}
  ELSE IF supply.container = "has" THEN {"injected"}
  ELSE IF p.required THEN {} ELSE {"default"}

\* The values of a Tool's function, from what it is executed with.
Executed(s, given, supply) ==
  [n \in Names(s.params) |->
     LET p == CHOOSE q \in s.params : q.name = n
     IN IF p.kind = "context" THEN {"injected"}
        ELSE IF n \in DOMAIN given THEN given[n]
        ELSE IF p.kind \in Markers THEN Supplied(p, supply)
        ELSE IF p.required THEN {} ELSE {"default"}]

\* Unknown arguments are forbidden, those for injected parameters are taken as they are.
Convertible(s, given, unfit) ==
  /\ DOMAIN given \subseteq Names(Fields(s)) \union Names({p \in s.params : p.kind \in Markers})
  /\ \A p \in Fields(s) : IF p.name \in DOMAIN given THEN given[p.name] \cap unfit = {} ELSE ~p.required

-----------------------------------------------------------------------------
(* Which callables and calls there are *)

\* A name is the name of one thing, on the wire and in Python, or the aliases collide.
OneNameEach(params) == \A p, q \in params : WireName(p) = WireName(q) <=> p.name = q.name

\* A handler whose names are its own: what is in its path it takes, as plain parameters that are
\* called alike on the wire; only itself takes the body, as `data`.
WellNamed(s) ==
  LET inputs == UNION {s.providers[d] : d \in Dependencies(s)}
  IN /\ \A p, q \in s.params : p.name = q.name => p = q
     /\ \A p \in s.params \union inputs : p.kind \in {"plain", "header", "context"} \union Markers
     /\ \A p \in s.params : p.name = "data" => p.kind = "plain" /\ p.alias = "data"
     /\ \A p \in inputs : p.name # "data"
     /\ HasBody(s) => s.body # {}
     /\ s.path \subseteq {p.name : p \in {q \in s.params : q.kind = "plain" /\ q.alias = q.name}}
     /\ s.path \cap Dependencies(s) = {} /\ Reserved \cap (s.path \union Dependencies(s)) = {}
     /\ Collides(s) \/ OneNameEach(s.params \union inputs)

\* The functions of tools and prompts have no paths; the words for where a value is from
\* otherwise are no keys.
IsCall(c) ==
  LET s == c.callable
  IN /\ {"injected", "default"} \cap c.keys = {}
     /\ \A p, q \in s.params : p.name = q.name => p = q
     /\ CASE c.target \in {"handler", "prompt"} -> WellNamed(s)
          [] c.target \in {"tool", "agent"} ->
               /\ c.target = "tool" => WellNamed(Endpoint(s))
               /\ \A p \in s.params : p.kind \in {"plain", "header", "context"} \union Markers
               /\ \A p \in s.params : p.kind = "dependency" => p.name \notin Reserved
          [] c.target = "function" ->
               /\ s.body = {}
               /\ \A p \in s.params : p.alias = p.name /\ p.kind \in {"plain", "rest"}
               /\ \A p, q \in s.params : p.kind = "rest" /\ q.kind = "rest" => p = q
               /\ \A p \in s.params : p.kind = "rest" => ~p.required

-----------------------------------------------------------------------------
CallInit == call \in Calls /\ at = "sent" /\ values = [n \in {} |-> {}] /\ used = {}

\* A handler whose names collide has no schema: its calls end with an error.
Validate ==
  /\ at = "sent" /\ call.target \in {"handler", "tool"}
  /\ at' = IF Collides(Handler(call)) THEN "failed"
           ELSE IF Valid(Handler(call), call.keys, call.unfit) THEN "accepted" ELSE "refused"
  /\ UNCHANGED <<call, values, used>>

\* prompts/get with a handler: by name only, for the handler gets strings to convert.
GetPrompt ==
  /\ at = "sent" /\ call.target = "prompt"
  /\ LET declared == PromptArguments(call)
     IN at' = IF Collides(call.callable) THEN "failed"
              ELSE IF /\ \A a \in declared : a.required => a.name \in call.keys
                      /\ call.keys \subseteq {a.name : a \in declared}
              THEN "accepted" ELSE "refused"
  /\ UNCHANGED <<call, values, used>>

\* prompts/get with a function, which takes whatever strings it is given.
CallPrompt ==
  /\ at = "sent" /\ call.target = "function"
  /\ LET s == call.callable
         named == Names({p \in s.params : p.kind # "rest"})
     IN IF Binds(s, call.keys)
        THEN /\ at' = "called"
             /\ values' = [n \in Names(s.params) |->
                             IF n \notin named THEN call.keys \ named
                             ELSE IF n \in call.keys THEN {n} ELSE {"default"}]
        ELSE at' = "refused" /\ UNCHANGED values
  /\ UNCHANGED <<call, used>>

\* The handler, or the function of its tool, is called when everything it needs is bound.
Dispatch ==
  /\ at = "accepted"
  /\ LET s == Handler(call)
         split == Split(s, call.keys)
         bound == [p \in Inputs(s) |-> Bound(s, split, call.unfit, p)]
         given == [n \in Names(s.params) |-> bound[CHOOSE p \in s.params : p.name = n]]
     IN IF Rejected(split, call.unfit) \/ \E p \in Inputs(s) : bound[p] = {}
        THEN at' = "failed" /\ UNCHANGED <<values, used>>
        ELSE /\ values' = IF call.target = "tool" THEN Restored(call.callable, given) ELSE given
             /\ used' = call.keys \cap UNION {bound[p] : p \in Inputs(s) \ s.params}
             /\ at' = IF call.target = "tool" THEN "bound" ELSE "called"
  /\ UNCHANGED call

\* Tool.execute, for its handler or for an agent.
Execute ==
  /\ at = "bound" \/ (at = "sent" /\ call.target = "agent")
  /\ LET given == IF at = "bound" THEN values ELSE [k \in call.keys |-> {k}]
         passed == Executed(call.callable, given, call.supply)
     IN /\ at' = IF ~Convertible(call.callable, given, call.unfit) THEN "refused"
                 ELSE IF \E n \in DOMAIN passed : passed[n] = {} THEN "failed" ELSE "called"
        /\ values' = IF at' = "called" THEN passed ELSE values
  /\ UNCHANGED <<call, used>>

CallRest == at \in {"refused", "failed", "called"} /\ UNCHANGED callVars

CallNext == Validate \/ GetPrompt \/ CallPrompt \/ Dispatch \/ Execute \/ CallRest

-----------------------------------------------------------------------------
Offered ==
  LET Of(arguments) == [properties |-> Names(arguments), required |-> Names({a \in arguments : a.required})]
  IN CASE call.target = "agent" -> Of(Fields(call.callable))
       [] call.target \in {"prompt", "function"} -> Of(PromptArguments(call))
       [] OTHER -> Schema(Handler(call))

\* The arguments are what the schema asks for.
Conforms ==
  /\ call.keys \subseteq Offered.properties /\ Offered.required \subseteq call.keys
  /\ call.unfit = {}

\* What cannot be passed although it is advertised or accepted: what only a header, a cookie or
\* an input of a dependency that the handler does not use would take, what comes beside an
\* explicit body, and a Python name beside the name it stands for.
Unreachable ==
  LET s == Handler(call)
      offered == Advertised(s, {})
      wires == {WireName(p) : p \in offered}
      left == Leftover(call.keys, offered)
      Beside(k) == HasBody(s) /\ k \in left \ (IF "data" \in left THEN {"data"} ELSE s.body)
      Taken(p) == \E q \in Inputs(s) : q.name = p.name /\ q.kind = "plain"
  IN {k \in call.keys :
        \/ Beside(k)
        \/ \E p \in offered :
             \/ k = WireName(p) /\ ~Taken(p)
             \/ k = p.name /\ k \notin wires /\ (~Taken(p) \/ WireName(p) \in call.keys)}

\* The dependencies and headers that may fail a call that was accepted, and the strings of a
\* prompt that do not convert.
MayFail ==
  \/ call.target = "prompt" /\ call.unfit # {}
  \/ Collides(Handler(call))
  \/ \E p \in Inputs(Handler(call)) : p.kind = "header" /\ p.required
  \/ \E p \in call.callable.params : p.kind \in Markers

\* Arguments that the schema asks for are accepted, and what is accepted reaches the parameters
\* that it names, in path, query or body, through synthesized handlers and dependencies
\* (mcp/executor.py:792, mcp/service.py:354), and no parameter that is to be injected.
ArgumentsReach ==
  LET s == call.callable
      Renamed(p) == IF call.target = "tool" /\ p.name \in Reserved THEN {Synthesized[p.name]} ELSE {}
      Named(p) == Renamed(p) \union IF p.name = "data" THEN s.body \union {"data"} ELSE {p.name, p.alias}
  IN /\ at = "refused" => ~Conforms
     /\ at = "failed" => MayFail
     /\ at = "called" =>
          /\ call.keys \subseteq Unreachable \union used \union UNION {values[n] : n \in DOMAIN values}
          /\ \A p \in s.params :
               values[p.name] \cap call.keys \subseteq
                 IF p.kind = "rest" THEN call.keys \ UNION {Named(q) : q \in s.params \ {p}}
                 ELSE IF p.kind \notin Markers \union {"context"} THEN Named(p)
                 ELSE IF call.target = "agent" THEN {p.name} ELSE {}

=============================================================================

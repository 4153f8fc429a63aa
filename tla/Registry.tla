------------------------------ MODULE Registry ------------------------------
(***************************************************************************)
(* What a server offers: LitestarMCP (mcp/plugin.py) discovers the marked  *)
(* handlers of an application, first as they were written and then as      *)
(* Litestar routes them, in the Registry (mcp/registry.py), whose          *)
(* dictionaries tools/list and its like page through and resources/read    *)
(* looks into; an application may register more while it serves.           *)
(*                                                                         *)
(* A dictionary is the sequence of its entries: an entry that replaces     *)
(* another keeps its place.  A URI is a sequence of tokens.  The name of a *)
(* prompt is the one its controller's prefix has qualified.                *)
(***************************************************************************)
EXTENDS Naturals, FiniteSets, Sequences, SequencesExt, FiniteSetsExt

CONSTANTS
  Handlers,    \* of each handler: [fn, key, decorators, foreign, opt, alone, path, copies, sound]
  Apps,        \* [routes, dynamic]: the handlers that are mounted and those that are added
  Later,       \* what is registered while the server runs: [handler, mark]
  Rank,        \* of each name, in the order of strings
  SkillNames,  \* the entries of the skill catalog
  Values,      \* values of template variables
  PageSize,    \* list_page_size
  MaxLater     \* bound: registrations while the server runs

VARIABLES
  app, phase,
  registry,    \* tools, resources, templates and prompts
  listening,   \* the router is rebuilt when the registry changes
  router,      \* the cached method router
  registered,  \* registrations while the server ran
  published,   \* notifications that a list changed
  client       \* a client that pages through one of the lists

registryVars == <<app, phase, registry, listening, router, registered, published, client>>

Kinds == {"tools", "resources", "templates", "prompts"}

\* The elements of a finite set in the order of their keys.
InOrder(S, key) ==
  [k \in 1..Cardinality(S) |-> CHOOSE x \in S : Cardinality({y \in S : key[y] < key[x]}) = k - 1]

OpenApi == <<"litestar", "openapi">>
NoTemplate == <<>>

-----------------------------------------------------------------------------
(* What a handler declares: claims [kind, name, uri, template, visible].  It says so with     *)
(* marks [by, name, uri, template, visible]: decorators, the attribute a decorator of another *)
(* package leaves, and keys of its opt; a mark may leave the name to the function.            *)

NameOf(h, mark) == IF mark.name = "" THEN Handlers[h].fn ELSE mark.name

Claim(h, mark, kind) ==
  [kind |-> kind, name |-> NameOf(h, mark), uri |-> mark.uri, template |-> NoTemplate, visible |-> mark.visible]

McpTool(h, mark) == Claim(h, mark, "tools")
McpResource(h, mark) == [Claim(h, mark, "resources") EXCEPT !.template = mark.template]
McpPrompt(h, mark) == Claim(h, mark, "prompts")

Written(h, mark) ==
  CASE mark.by = "mcp_tool" -> McpTool(h, mark)
    [] mark.by = "mcp_resource" -> McpResource(h, mark)
    [] mark.by = "mcp_prompt" -> McpPrompt(h, mark)

-----------------------------------------------------------------------------
(* The stand-alone server (mcp/app.py): a function becomes a handler that is mounted below    *)
(* the server's own path.  `alone` is what its decorator was told, at most one mark.          *)

\* MCP.tool, MCP.resource and MCP.prompt force one key of the handler's opt.  Whatever its URI,
\* a resource is declared as a template, perhaps without variables, and mounted under what
\* follows its scheme, the first part.
ToolAlone(h, mark) ==
  [opt |-> [mark EXCEPT !.name = NameOf(h, mark)], path |-> <<"tools", NameOf(h, mark)>>]
ResourceAlone(h, mark) ==
  [opt |-> [mark EXCEPT !.name = NameOf(h, mark)],
   path |-> <<"resources">> \o FlattenSeq([i \in 1..(Len(mark.template) - 1) |->
              LET part == mark.template[i + 1] IN IF part.var THEN <<"{", part.text, "}">> ELSE part.text])]
PromptAlone(h, mark) ==
  [opt |-> [mark EXCEPT !.name = NameOf(h, mark)], path |-> <<"prompts", NameOf(h, mark)>>]

Alone(h) ==
  LET mark == Head(Handlers[h].alone)
  IN CASE mark.by = "mcp_tool" -> ToolAlone(h, mark)
       [] mark.by = "mcp_resource" -> ResourceAlone(h, mark)
       [] mark.by = "mcp_prompt" -> PromptAlone(h, mark)

\* The marks in opt by their keys; what the caller's own opt says under the forced key is lost.
Opt(h) ==
  IF Handlers[h].alone = <<>> THEN Handlers[h].opt
  ELSE [by \in DOMAIN Handlers[h].opt \union {Alone(h).opt.by} |->
          IF by = Alone(h).opt.by THEN Alone(h).opt ELSE Handlers[h].opt[by]]

\* <<>> for a controller, which has no paths yet.
Path(h) == IF Handlers[h].alone = <<>> THEN Handlers[h].path ELSE Alone(h).path

\* A handler is added once, and only if no other has its path: where two URIs differ in their
\* scheme alone, or two tools have one name, the later function is never heard of again.
Added(a, i) ==
  LET Known(j) == \/ a.dynamic[j] = a.dynamic[i]
                  \/ Path(a.dynamic[i]) # <<>> /\ Path(a.dynamic[j]) = Path(a.dynamic[i])
  IN \A j \in 1..(i - 1) : ~Known(j)

Dynamic(a) ==
  LET added == {i \in DOMAIN a.dynamic : Added(a, i)}
      order == InOrder(added, [i \in added |-> i])
  IN [k \in DOMAIN order |-> a.dynamic[order[k]]]

\* What is added is mounted unless the application has it already.
Mounted(a) == ToSet(a.routes) \union ToSet(Dynamic(a))

-----------------------------------------------------------------------------
\* The keys of opt are looked at in this order, whatever the order they are in.
OptClaims(h) ==
  LET At(by) == IF by \in DOMAIN Opt(h) THEN <<Written(h, Opt(h)[by])>> ELSE <<>>
  IN At("mcp_tool") \o At("mcp_resource") \o At("mcp_prompt")

\* MetadataRegistry keeps one value for each qualified name: that of the last decorator that
\* ran for any function of that name.
Metadata(a, h) ==
  LET order == SelectSeq(a.routes \o a.dynamic, LAMBDA g : Handlers[g].key = Handlers[h].key)
      written == FlattenSeq([i \in DOMAIN order |->
                   LET marks == Handlers[order[i]].decorators IN [j \in DOMAIN marks |-> Written(order[i], marks[j])]])
  IN IF written = <<>> THEN <<>> ELSE <<Last(written)>>

\* What another package left counts as a tool where no decorator of this one wrote anything.
Claims(a, h) ==
  LET foreign == Handlers[h].foreign
  IN (IF Metadata(a, h) # <<>> THEN Metadata(a, h) ELSE [i \in DOMAIN foreign |-> McpTool(h, foreign[i])])
     \o OptClaims(h)

IsSequence(s) == Len(s) \in Nat /\ s = [i \in 1..Len(s) |-> s[i]]

\* A claim whose template is one, and whose name, if it is that of a tool, has its place.
IsClaim(claim) ==
  /\ claim.kind \in {"tools", "resources", "prompts"}
  /\ claim.kind = "tools" => claim.name \in DOMAIN Rank
  /\ IsSequence(claim.template)
  /\ \A i \in DOMAIN claim.template : claim.template[i].var \/ IsSequence(claim.template[i].text)

\* Strings are ordered, a catalog has each skill file once, configuration rejects a page size
\* of zero (mcp/config.py:284), and a handler that is mounted is routed at least once.
RegistryAssumption ==
  /\ PageSize \in Nat \ {0}
  /\ Rank \in [DOMAIN Rank -> Nat] /\ \A m, n \in DOMAIN Rank : Rank[m] = Rank[n] => m = n
  /\ IsSequence(SkillNames) /\ \A i, j \in DOMAIN SkillNames : SkillNames[i] = SkillNames[j] => i = j
  /\ \A text \in Values : IsSequence(text)
  /\ \A h \in DOMAIN Handlers : IsSequence(Handlers[h].foreign) /\ Handlers[h].copies \in Nat \ {0}
  /\ \A a \in Apps :
       /\ a.routes \in Seq(DOMAIN Handlers) /\ a.dynamic \in Seq(DOMAIN Handlers)
       /\ \A h \in DOMAIN Handlers : \A i \in DOMAIN Claims(a, h) : IsClaim(Claims(a, h)[i])
  /\ \A l \in Later : IsClaim(Written(l.handler, l.mark))

Uri(claim) == IF claim.uri = <<>> THEN <<"litestar", claim.name>> ELSE claim.uri

-----------------------------------------------------------------------------
(* The registry *)

Entry(h, copy, claim) == [name |-> claim.name, handler |-> h, copy |-> copy, claim |-> claim]

Held(d, name) == {i \in DOMAIN d : d[i].name = name}

Put(d, e) ==
  IF Held(d, e.name) = {} THEN Append(d, e)
  ELSE [i \in DOMAIN d |-> IF d[i].name = e.name THEN e ELSE d[i]]

\* The first copy of a handler is kept.
FaultRenew(d, e) ==
  IF \E i \in Held(d, e.name) : Handlers[d[i].handler].fn = Handlers[e.handler].fn THEN d ELSE Put(d, e)

\* register_tool and its like: the last copy of a handler is the one that counts.
Renew(d, e) == Put(d, e)

\* Whether a registration tells the change callbacks: not when the handler is the same.
Tells(d, e, kind) ==
  kind = "prompts" \/
  ~\E i \in Held(d, e.name) :
     /\ Handlers[d[i].handler].fn = Handlers[e.handler].fn
     /\ kind = "templates" => d[i].claim.template = e.claim.template

Templated(e) == e.claim.kind = "resources" /\ e.claim.template # NoTemplate

\* A resource with a template is registered twice; an older template of its name stays.
Register(r, e) ==
  LET kind == e.claim.kind
      with == [r EXCEPT ![kind] = Renew(@, e)]
  IN IF Templated(e) THEN [with EXCEPT !.templates = Renew(@, e)] ELSE with

\* What a copy <<handler, number>> declares, by the metadata first.
EntriesOf(a, copy) ==
  LET claims == Claims(a, copy[1])
  IN [i \in DOMAIN claims |-> Entry(copy[1], copy[2], claims[i])]

RegisterAll(r, entries) ==
  LET After[n \in 0..Len(entries)] == IF n = 0 THEN r ELSE Register(After[n - 1], entries[n])
  IN After[Len(entries)]

Discover(r, a, copies) ==
  LET After[n \in 0..Len(copies)] ==
        IF n = 0 THEN r ELSE RegisterAll(After[n - 1], EntriesOf(a, copies[n]))
  IN After[Len(copies)]

Empty == [kind \in Kinds |-> <<>>]

-----------------------------------------------------------------------------
(* The lists *)

Visible(d) == {i \in DOMAIN d : d[i].claim.visible}

Shown(d) == {d[i].name : i \in Visible(d)}
Place(d) == [name \in Shown(d) |-> CHOOSE i \in Held(d, name) : TRUE]

\* The tools are sorted by name, the others have the order of their dictionary.
Listing(r, kind) == InOrder(Shown(r[kind]), IF kind = "tools" THEN Rank ELSE Place(r[kind]))

\* An item of a list: the OpenAPI schema, what a handler is marked as, or a skill.
Item(of, name) == [of |-> of, name |-> name]
Items(of, list) == [i \in DOMAIN list |-> Item(of, list[i])]

\* Resources begin with the schema and end with the skills.
Listed(r, kind) ==
  LET own == Items("handler", Listing(r, kind))
  IN IF kind = "resources" THEN <<Item("openapi", "openapi")>> \o own \o Items("skill", SkillNames) ELSE own

Names(list, offset) == SubSeq(list, offset + 1, Min({offset + PageSize, Len(list)}))
More(list, offset) == offset + PageSize < Len(list)

\* The next page begins one too late.
FaultPage(list, offset) ==
  [names |-> Names(list, offset), next |-> IF More(list, offset) THEN offset + PageSize + 1 ELSE 0]

\* A page, and the offset its cursor stands for, if there is one.
Page(list, offset) ==
  [names |-> Names(list, offset), next |-> IF More(list, offset) THEN offset + PageSize ELSE 0]

-----------------------------------------------------------------------------
(* URI templates: sequences of [var, text], a name or a sequence of tokens *)

Variables(t) == {t[i].text : i \in {j \in DOMAIN t : t[j].var}}

Expand(t, v) ==
  LET Upto[i \in 0..Len(t)] ==
        IF i = 0 THEN <<>> ELSE Upto[i - 1] \o (IF t[i].var THEN v[t[i].text] ELSE t[i].text)
  IN Upto[Len(t)]

\* A variable takes what comes before the first occurrence of the next literal: at least one
\* token and no slash.
Match(t, uri) ==
  LET Found(text, p) == p + Len(text) <= Len(uri) + 1 /\ SubSeq(uri, p, p + Len(text) - 1) = text
      After(i) == {j \in DOMAIN t : j > i /\ ~t[j].var}
      Ends(i, p) == IF After(i) = {} THEN {Len(uri) + 1}
                    ELSE {q \in p..Len(uri) : Found(t[Min(After(i))].text, q)}
      Value(i, p) == IF Ends(i, p) = {} THEN 0
                     ELSE LET q == Min(Ends(i, p))
                          IN IF q = p \/ \E k \in p..(q - 1) : uri[k] = "/" THEN 0 ELSE q
      Begin[i \in 1..(Len(t) + 1)] ==
        IF i = 1 THEN 1
        ELSE LET p == Begin[i - 1]
                 s == t[i - 1]
             IN CASE p = 0 -> 0
                  [] p # 0 /\ s.var -> Value(i - 1, p)
                  [] OTHER -> IF Found(s.text, p) THEN p + Len(s.text) ELSE 0
  IN IF Begin[Len(t) + 1] # Len(uri) + 1 THEN {}
     ELSE {[n \in Variables(t) |->
              LET i == Max({j \in DOMAIN t : t[j].var /\ t[j].text = n})
              IN SubSeq(uri, Begin[i], Begin[i + 1] - 1)]}

\* resources/read: what serves a URI, and with which arguments.
Served(r, uri) ==
  LET Answer(by, e, values) == [by |-> by, entries |-> e, values |-> values]
      None == [n \in {} |-> <<>>]
      ofSkill == SkillNames # <<>> /\ Head(uri) = "skill"
      concrete == {i \in DOMAIN r.resources : Uri(r.resources[i].claim) = uri}
      templated == {i \in Visible(r.templates) : Match(r.templates[i].claim.template, uri) # {}}
  IN CASE uri = OpenApi -> Answer("openapi", {}, None)
       [] uri # OpenApi /\ ofSkill -> Answer("skill", {}, None)
       [] uri # OpenApi /\ ~ofSkill /\ concrete # {} ->
            LET e == r.resources[Min(concrete)]
            IN IF e.claim.visible THEN Answer("resource", {e}, None) ELSE Answer("notFound", {}, None)
       [] uri # OpenApi /\ ~ofSkill /\ concrete = {} /\ templated # {} ->
            LET e == r.templates[Min(templated)]
            IN Answer("template", {e}, CHOOSE v \in Match(e.claim.template, uri) : TRUE)
       [] OTHER -> Answer("notFound", {}, None)

-----------------------------------------------------------------------------
NoClient == [kind |-> "none", at |-> "away", offset |-> 0, got |-> <<>>, stayed |-> {},
             changed |-> FALSE, shrank |-> FALSE]

RegistryInit ==
  /\ app \in Apps /\ phase = "configured" /\ registry = Empty
  /\ listening = FALSE /\ router = FALSE /\ registered = 0 /\ published = 0
  /\ client = NoClient

\* Handlers of plugins are mounted, once, and discovered after those of the application.
OnAppInit ==
  /\ phase = "configured"
  /\ phase' = "initialised"
  /\ LET handlers == app.routes \o Dynamic(app)
     IN registry' = Discover(registry, app, [i \in DOMAIN handlers |-> <<handlers[i], 0>>])
  /\ UNCHANGED <<app, listening, router, registered, published, client>>

\* The routes in the order Litestar keeps them; a handler may be routed more than once.  A tool
\* whose header annotations are not sound stops the server.
OnStartup ==
  /\ phase = "initialised"
  /\ LET copies == UNION {{<<h, n>> : n \in 1..Handlers[h].copies} : h \in Mounted(app)}
     IN \E order \in SetToSeqs(copies) : registry' = Discover(registry, app, order)
  /\ LET sound == \A i \in DOMAIN registry'.tools : Handlers[registry'.tools[i].handler].sound
     IN phase' = (IF sound THEN "serving" ELSE "refused") /\ listening' = sound
  /\ UNCHANGED <<app, router, registered, published, client>>

\* What a paging client has to expect of a changed list.
Watched(r) ==
  IF client.at # "paging" THEN client
  ELSE LET now == ToSet(Listed(r, client.kind))
       IN [client EXCEPT !.stayed = @ \cap now,
                         !.changed = @ \/ Listed(r, client.kind) # Listed(registry, client.kind),
                         !.shrank = @ \/ ~(ToSet(Listed(registry, client.kind)) \subseteq now)]

\* Registry.register_tool and its like, called by the application.
RegisterLater ==
  /\ phase = "serving" /\ registered < MaxLater
  /\ \E l \in Later :
       LET e == Entry(l.handler, 0, Written(l.handler, l.mark))
           told == \/ Tells(registry[e.claim.kind], e, e.claim.kind)
                   \/ Templated(e) /\ Tells(registry.templates, e, "templates")
       IN /\ registry' = Register(registry, e)
          /\ router' = (router /\ ~(listening /\ told))
  /\ registered' = registered + 1
  /\ client' = Watched(registry')
  /\ UNCHANGED <<app, phase, listening, published>>

\* notify_tools_list_changed and notify_prompts_list_changed, called by the application.
Notify ==
  /\ phase = "serving" /\ published < registered
  /\ published' = published + 1
  /\ UNCHANGED <<app, phase, registry, listening, router, registered, client>>

\* MCPStreamableHTTPClient.list_tools, and the bridge's, follow the cursor.
Ask ==
  /\ phase = "serving" /\ client.at = "away"
  /\ \E kind \in Kinds :
       client' = [NoClient EXCEPT !.kind = kind, !.at = "paging", !.stayed = ToSet(Listed(registry, kind))]
  /\ UNCHANGED <<app, phase, registry, listening, router, registered, published>>

Receive ==
  /\ phase = "serving" /\ client.at = "paging"
  /\ router' = TRUE
  /\ LET page == Page(Listed(registry, client.kind), client.offset)
     IN client' = [client EXCEPT !.got = @ \o page.names, !.offset = page.next,
                                 !.at = IF page.next = 0 THEN "done" ELSE "paging"]
  /\ UNCHANGED <<app, phase, registry, listening, registered, published>>

OnShutdown ==
  /\ phase = "serving"
  /\ phase' = "stopped" /\ listening' = FALSE
  /\ UNCHANGED <<app, registry, router, registered, published, client>>

RegistryEnds == phase \in {"refused", "stopped"} /\ UNCHANGED registryVars

RegistryNext ==
  OnAppInit \/ OnStartup \/ RegisterLater \/ Notify \/ Ask \/ Receive \/ OnShutdown \/ RegistryEnds

-----------------------------------------------------------------------------
(* Properties *)

\* A client that follows the cursors while handlers are registered gets every entry that was
\* there from its first page to its last (core/_cursor.py:11, an offset), unless one went; and
\* exactly the list, if nothing changed.
PagesComplete ==
  client.at = "done" =>
    /\ ~client.shrank => client.stayed \subseteq ToSet(client.got)
    /\ ~client.changed => Len(client.got) = Cardinality(client.stayed)

\* The only function that declares an entry of this kind and name.
Sole(h, claim) ==
  \A g \in Mounted(app) : \A i \in DOMAIN Claims(app, g) :
    Claims(app, g)[i].name = claim.name /\ Claims(app, g)[i].kind = claim.kind
      => Handlers[g].fn = Handlers[h].fn

DeclaredIsHeld ==
  \A h \in Mounted(app) : \A i \in DOMAIN Claims(app, h) :
    LET claim == Claims(app, h)[i]
    IN \E j \in Held(registry[claim.kind], claim.name) :
         registered = 0 /\ Sole(h, claim) =>
           /\ Handlers[registry[claim.kind][j].handler].fn = Handlers[h].fn
           /\ registry[claim.kind][j].copy > 0

\* What answers before any handler is looked for.
Reserved(uri) == uri = OpenApi \/ (SkillNames # <<>> /\ Head(uri) = "skill")

ResourceIsServed(i) ==
  LET e == registry.resources[i]
      uri == Uri(e.claim)
      Shadowed == Reserved(uri) \/ \E j \in 1..(i - 1) : Uri(registry.resources[j].claim) = uri
  IN ~Shadowed => Served(registry, uri).entries = IF e.claim.visible THEN {e} ELSE {}

\* Values that a template can carry: what follows a variable does not occur in its value.
Fits(t, v) ==
  /\ \A i \in 1..(Len(t) - 1) : ~(t[i].var /\ t[i + 1].var)
  /\ \A n \in Variables(t) : v[n] # <<>> /\ "/" \notin ToSet(v[n])
  /\ \A i \in 1..(Len(t) - 1) : t[i].var =>
       ~\E k \in 1..Len(v[t[i].text]) :
          SubSeq(v[t[i].text] \o t[i + 1].text, k, k + Len(t[i + 1].text) - 1) = t[i + 1].text

TemplateIsServed(i) ==
  LET e == registry.templates[i]
      t == e.claim.template
  IN \A v \in [Variables(t) -> Values] :
       Fits(t, v) =>
         LET uri == Expand(t, v)
             served == Served(registry, uri)
             Shadowed == Reserved(uri) \/ \E j \in DOMAIN registry.resources : Uri(registry.resources[j].claim) = uri
             Earlier(j) ==
               LET f == registry.templates[j]
               IN f.claim.visible /\ served.entries = {f} /\ served.values \in Match(f.claim.template, uri)
         IN /\ \A f \in served.entries : f.claim.visible
            /\ e.claim.visible /\ ~Shadowed =>
                 \/ served.entries = {e} /\ served.values = v
                 \/ \E j \in 1..(i - 1) : Earlier(j)

\* While the server runs, every handler that was marked is held as Litestar routes it, with the
\* guards and dependencies of its layers (mcp/registry.py:43); of the resources of one URI, and
\* of the templates that match one, the first that was registered answers (learn/resources.md:48),
\* with the values the URI was made from, and a template only where no resource has that URI;
\* a resource or template that is not listed serves nothing.
ListedIsServed ==
  phase = "serving" =>
    /\ DeclaredIsHeld
    /\ \A i \in DOMAIN registry.resources : ResourceIsServed(i)
    /\ \A i \in DOMAIN registry.templates : TemplateIsServed(i)

\* A list that changes while the server runs is announced in the same step.
RegistrationAnnounced ==
  [][phase = "serving" /\ registry' # registry => published' # published]_registryVars

=============================================================================

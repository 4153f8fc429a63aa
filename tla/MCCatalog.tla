------------------------------ MODULE MCCatalog ------------------------------
EXTENDS Catalog, Scopes

(* Registry *)
Keyed(marks) == [by \in {mark.by : mark \in marks} |-> CHOOSE mark \in marks : mark.by = by]
H(fn, key, dec, foreign, opt, copies, sound) ==
  [fn |-> fn, key |-> key, decorators |-> dec, foreign |-> foreign, opt |-> Keyed(opt), alone |-> <<>>, path |-> <<>>,
   copies |-> copies, sound |-> sound]
Standalone(fn, mark, opt) == [H(fn, fn, <<>>, <<>>, opt, 1, TRUE) EXCEPT !.alone = <<mark>>]
Mark(by, name, visible) == [by |-> by, name |-> name, uri |-> <<>>, template |-> <<>>, visible |-> visible]
Tool(name, visible) == Mark("mcp_tool", name, visible)
Prompt(name, visible) == Mark("mcp_prompt", name, visible)
Resource(name, uri, template, visible) ==
  [Mark("mcp_resource", name, visible) EXCEPT !.uri = uri, !.template = template]
Lit(text) == [var |-> FALSE, text |-> text]
Var(name) == [var |-> TRUE, text |-> name]
ByKey == <<Lit(<<"u", "/">>), Var("k")>>
ByRange == <<Lit(<<"u", "/">>), Var("k"), Lit(<<"-">>), Var("l")>>
\* m1 and m2 are functions that one factory made, x has header annotations that are not sound.
MCHandlers ==
  [tool |-> H("f", "f", <<Tool("c", TRUE)>>, <<>>, {}, 2, TRUE),
   again |-> H("f", "f", <<>>, <<>>, {}, 1, TRUE),
   hidden |-> H("g", "g", <<Tool("a", FALSE), Tool("b", FALSE)>>, <<Tool("e", TRUE)>>, {}, 1, TRUE),
   other |-> H("o", "o", <<>>, <<>>, {Prompt("p", TRUE), Tool("c", TRUE)}, 1, TRUE),
   unsound |-> H("x", "x", <<Tool("", TRUE)>>, <<>>, {}, 1, FALSE),
   made1 |-> H("m1", "m", <<Tool("", TRUE)>>, <<>>, {}, 1, TRUE),
   made2 |-> H("m2", "m", <<Tool("", TRUE)>>, <<>>, {}, 1, TRUE),
   plugin |-> H("q", "q", <<>>, <<Tool("d", TRUE)>>, {Prompt("", FALSE)}, 1, TRUE),
   bykey |-> H("r", "r", <<Resource("", <<>>, ByKey, TRUE)>>, <<>>, {}, 1, TRUE),
   byrange |-> H("s", "s", <<>>, <<>>, {Resource("s", <<"u", "/", "v">>, ByRange, TRUE)}, 1, TRUE),
   solo |-> Standalone("so", Tool("c", TRUE), {Tool("z", TRUE), Prompt("so", TRUE)}),
   twice |-> Standalone("so2", Tool("c", TRUE), {}),
   asked |-> Standalone("as", Prompt("", TRUE), {}),
   page |-> Standalone("pg", Resource("", <<>>, <<Lit(<<"u">>), Lit(<<"/">>), Var("k")>>, TRUE), {}),
   fixed |-> Standalone("fx", Resource("", <<>>, <<Lit(<<"w">>), Lit(<<"/">>), Lit(<<"v">>)>>, TRUE), {}),
   scheme |-> Standalone("sc", Resource("", <<>>, <<Lit(<<"u">>), Lit(<<"/">>), Lit(<<"v">>)>>, TRUE), {}),
   secret |-> H("t", "t", <<>>, <<>>, {Resource("t", <<"u", "/", "v">>, ByKey, FALSE)}, 1, TRUE)]
App(routes, dynamic) == [routes |-> routes, dynamic |-> dynamic]
MCApps ==
  {App(<<"tool", "hidden">>, <<"hidden", "plugin">>), App(<<"tool", "again", "other">>, <<>>),
   App(<<"tool", "unsound">>, <<>>), App(<<"made1", "made2">>, <<"plugin">>),
   App(<<"tool">>, <<"solo", "twice", "asked">>), App(<<>>, <<"page", "fixed", "scheme", "solo">>),
   App(<<"bykey", "byrange">>, <<"secret">>), App(<<"secret", "byrange", "bykey">>, <<>>)}
L(h, mark) == [handler |-> h, mark |-> mark]
MCLater ==
  {L("other", Tool("b", TRUE)), L("hidden", Tool("c", FALSE)), L("other", Tool("e", TRUE)),
   L("other", Prompt("o", TRUE)), L("bykey", Resource("n", <<"n">>, ByRange, TRUE)),
   L("secret", Resource("r", <<>>, <<>>, FALSE))}
Ranked == <<"a", "b", "c", "d", "e", "m1", "m2", "x">>
MCRank == [n \in {Ranked[i] : i \in DOMAIN Ranked} |-> CHOOSE i \in DOMAIN Ranked : Ranked[i] = n]
MCSkills == <<"sk">>
MCValues == {<<"v">>, <<"v", "-">>, <<"-">>, <<"v", "w">>, <<"/">>}

(* Skills *)
MainFile == <<"SKILL.md">>
Text(text, size, front) == [text |-> text, size |-> size, front |-> front]
Main1 == Text("m1", 1, "f1")
Main2 == Text("m2", 1, "f2")
Bad == Text("m3", 1, "invalid")
Ref == Text("r", 1, "invalid")
Big == Text("big", 3, "invalid")
Inline(c) == [content |-> c, inline |-> TRUE]
Stream(c) == [content |-> c, inline |-> FALSE]
(* A directory that is no skill beside one, a file too big to be loaded, a broken main file;    *)
(* a custom skill of the name of one on the disk, a file named like a directory beside it.     *)
MCDisk ==
  {[n \in {"s", "x"} |->
      IF n = "s" THEN [p \in {MainFile, <<"ref", "a">>} |-> IF p = MainFile THEN Main1 ELSE Ref]
      ELSE [p \in {<<"notes">>} |-> Ref]],
   [n \in {"s"} |-> [p \in {MainFile, <<"a">>, <<"b">>} |->
      CASE p = MainFile -> Main1 [] p = <<"a">> -> Big [] p = <<"b">> -> Ref]],
   [n \in {"s"} |-> [p \in {MainFile} |-> Bad]]}
MCCustoms ==
  {[n \in {"s", "t"} |->
      IF n = "s" THEN [p \in {MainFile, <<"own">>} |-> Inline(Main2)]
      ELSE [p \in {MainFile, <<"a">>, <<"a", "b">>} |->
              CASE p = MainFile -> Inline(Main2) [] p = <<"a">> -> Stream(Big) [] OTHER -> Stream(Ref)]],
   [n \in {"t"} |-> [p \in {MainFile} |-> Stream(Main1)]]}
MCContents == {Main2, Bad, Ref, Big}

(* ToolArguments *)
P(n, a, k, r) == [name |-> n, alias |-> a, kind |-> k, required |-> r]
NoProviders == [n \in {} |-> {}]
NoSupply == [resolver |-> "absent", dishka |-> "absent", container |-> "absent", provides |-> FALSE]
Body == [params |-> {P("id", "id", "plain", TRUE), P("page", "p", "plain", FALSE), P("data", "data", "plain", TRUE),
                     P("request", "request", "plain", TRUE)},
         providers |-> NoProviders, path |-> {"id"}, body |-> {"f"}]
Injecting == [params |-> {P("svc", "svc", "plain", TRUE), P("q", "q", "plain", TRUE), P("box", "box", "dishka", TRUE)},
         providers |-> [d \in {"svc", "db", "audit"} |->
                          CASE d = "svc" -> {P("limit", "max", "plain", TRUE), P("db", "db", "plain", TRUE)}
                            [] d = "db" -> {P("tenant", "tenant", "plain", FALSE)}
                            [] d = "audit" -> {P("trace", "trace", "plain", FALSE)}],
         path |-> {}, body |-> {}]
Shifted == [params |-> {P("a", "b", "plain", TRUE), P("b", "c", "plain", FALSE), P("h", "H", "header", FALSE)},
            providers |-> NoProviders, path |-> {}, body |-> {}]
Colliding == [params |-> {P("a", "w", "plain", TRUE), P("b", "w", "plain", FALSE)},
            providers |-> NoProviders, path |-> {}, body |-> {}]
ToolFn(k, r) == [params |-> {P("data", "data", "plain", TRUE), P("state", "state", "plain", FALSE),
                       P("ctx", "ctx", "context", TRUE), P("dep", "dep", k, r)},
           providers |-> IF k = "dependency" THEN [d \in {"dep"} |-> {P("x", "y", "plain", FALSE)}] ELSE NoProviders,
           path |-> {}, body |-> {}]
C(t, s, k, u, sup) == [target |-> t, callable |-> s, keys |-> k, unfit |-> u, supply |-> sup]
Plain(s, keys) == {C("handler", s, k, u, NoSupply) : k \in SUBSET keys, u \in {{}} \union {{x} : x \in keys}}
Supplies ==
  [resolver : {"absent", "has"}, dishka : {"absent", "has", "lacks"}, container : {"absent", "has"},
   provides : {TRUE}]
Strings(s, keys) == {[c EXCEPT !.target = "prompt"] : c \in Plain(s, keys)}
Function(rest) ==
  [params |-> {P("a", "a", "plain", TRUE), P("b", "b", "plain", FALSE)}
              \union IF rest THEN {P("kw", "kw", "rest", FALSE)} ELSE {},
   providers |-> NoProviders, path |-> {}, body |-> {}]
MCCalls ==
  Strings(Body, {"id", "page", "p", "data", "f"}) \union Strings(Injecting, {"q", "max", "limit", "tenant", "db"})
  \union Strings(Shifted, {"a", "b", "c", "h"}) \union Strings(Colliding, {"a", "w"})
  \union {C("function", Function(rest), k, {}, NoSupply) : rest \in BOOLEAN, k \in SUBSET {"a", "b", "c", "kw"}}
  \union Plain(Body, {"id", "page", "p", "data", "f", "extra"})
  \union Plain(Injecting, {"q", "max", "limit", "tenant", "trace", "db"})
  \union Plain(Shifted, {"a", "b", "c", "h", "H"})
  \union Plain(Colliding, {"a", "w"})
  \union {C(t, ToolFn(kr[1], kr[2]), k, u, sup) :
            t \in {"tool", "agent"}, kr \in {"dependency", "provider", "dishka", "container"} \X BOOLEAN,
            k \in SUBSET {"data", "state", "dep", "y"}, u \in {{}, {"data"}}, sup \in Supplies}

(* Identity *)
Ids(names, key) == [name \in names |-> key]
Ada == Person("mapping", Ids({"id"}, "u"), {"r"}, "none")

\* The names a caller may go by.
KnownBy ==
  {Ids({name}, "u") : name \in {"id", "sub", "username", "pk", "user_id"}}
  \union {[id |-> "u", sub |-> "v"], [id |-> "u", user_id |-> "v"], [pk |-> "u", user_id |-> "v"]}
Persons ==
  {Person(shape, ids, {"r"}, tenant) :
     shape \in {"mapping", "typed", "object"}, ids \in KnownBy, tenant \in {"none", "t"}}
  \union {NoOne, Person("text", Ids({"text"}, "u"), {}, "none"), [Ada EXCEPT !.roles = {}]}
Nameless == Person("object", Ids({}, "u"), {}, "none")
Twofold == Person("mapping", [id |-> "u", sub |-> "v"], {"s"}, "x")
Bare == [present |-> TRUE, roles |-> {"r"}, restrictions |-> <<>>]
Tokens ==
  {NoOne}
  \union {Person("mapping", ids, roles, tenant) :
            ids \in {Ids({"sub"}, "u"), Ids({"id"}, "u"), Ids({"sub"}, "v")},
            roles \in {{}, {"s"}}, tenant \in {"none", "x"}}
Contexts ==
  {[present |-> TRUE, roles |-> {"r", "s"}, restrictions |-> limits] :
     limits \in {<<>>, <<Unlimited>>, <<Limit({})>>, <<Limit({"r"}), Unlimited>>}}

\* Users and tokens; owner and tenant said beside the user; security contexts.
MCRequests ==
  {[NoScope EXCEPT !.user = user, !.auth = auth] : user \in Persons, auth \in Tokens}
  \union {[NoScope EXCEPT !.user = [Ada EXCEPT !.tenant = own], !.owner = owner, !.tenant = tenant, !.state = state] :
            own \in {"none", "t"}, owner \in {"none", "v"}, tenant \in {"none", "x"}, state \in {"none", "t"}}
  \union {[NoScope EXCEPT !.user = user, !.context = context, !.holder = holder] :
            user \in {person \in Persons : person.tenant = "none"}, context \in Contexts,
            holder \in {"none", "user", "context"}}
  \union {[NoScope EXCEPT !.user = user, !.auth = auth, !.context = context, !.holder = holder] :
            user \in {NoOne, Ada, Nameless}, auth \in {NoOne, Twofold}, context \in {NoContext, Bare},
            holder \in {"none", "user"}}

Worker(how, dependency, imports) == [loader |-> how, dependency |-> dependency, imports |-> imports]
MCWorkers ==
  {Worker("absent", dependency, TRUE) : dependency \in {"absent", "declared", "unused", "unfit"}}
  \union {Worker("absent", "declared", FALSE), Worker("absent", "absent", FALSE), Worker("has", "absent", TRUE)}
MCRoles == {{}, {"r"}, {"q"}}

=============================================================================

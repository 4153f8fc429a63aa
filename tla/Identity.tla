------------------------------ MODULE Identity ------------------------------
(***************************************************************************)
(* For whom work is done.  A request reaches a tool at once, as a task in  *)
(* this process or in a worker of the queue, as a turn of an agent, queued *)
(* or not, or over A2A; each way carries the caller along by code of its   *)
(* own (core/context.py, mcp/tasks.py, mcp/service.py, queues/,            *)
(* agent/bridges/a2a.py), while the roles of accounts change.              *)
(*                                                                         *)
(* A person is [shape, ids, roles, tenant]: a mapping, a class of a module *)
(* ("typed"), another object, a text, or the proxy a worker makes of what  *)
(* it is sent; ids gives the names it has.  What holds of roles holds of   *)
(* scopes and permissions too.  An owner id is written without its prefix  *)
(* "user:", which is added once and removed once.                          *)
(***************************************************************************)
EXTENDS Naturals, Sequences, FiniteSets, SequencesExt, Scopes

CONSTANTS
  Requests,    \* the scopes middleware may leave, see NoScope
  Workers,     \* how tools are served there: [loader, dependency, imports]
  Holders,     \* of accounts
  Roles,       \* the sets of roles an account may have
  MaxChanges   \* bound: changes of accounts

VARIABLES
  request,   \* the scope the work is asked for with
  worker,    \* the member of Workers that runs the task
  accounts,  \* of each account its roles now
  changes,
  envelope,  \* what was sent to the worker: [owner, snapshot], or the principal of a turn
  work,      \* [way, at, scope, fresh, seen]: the scope it runs with, what the tool sees of it
  held       \* the roles the accounts asked for had since the attempt began

identityVars == <<request, worker, accounts, changes, envelope, work, held>>

Loaders == {"absent", "has", "lacks"}
\* How the handler declares its user dependency, and whether its parameters are available.
Dependencies == {"absent", "declared", "unused", "unfit"}

\* What the code reads of a scope.  Only a text goes by its text, and it has nothing else.
IsPerson(p) ==
  /\ p = Person(p.shape, p.ids, p.roles, p.tenant)
  /\ p.shape \in {"none", "mapping", "typed", "object", "text"} /\ (p.shape = "none" => p = NoOne)
  /\ p.ids = [f \in DOMAIN p.ids |-> p.ids[f]] /\ \A f \in DOMAIN p.ids : p.ids[f] # "none"
  /\ DOMAIN p.ids \subseteq {"id", "sub", "username", "pk", "user_id", "text"}
  /\ IF p.shape = "text" THEN DOMAIN p.ids = {"text"} /\ p.roles = {} /\ p.tenant = "none"
     ELSE "text" \notin DOMAIN p.ids

\* Where there is no security context, none is read.
IsContext(c) ==
  /\ c = [present |-> c.present, roles |-> c.roles, restrictions |-> c.restrictions]
  /\ c.present \in BOOLEAN /\ (~c.present => c = NoContext)
  /\ \A i \in DOMAIN c.restrictions : c.restrictions[i].limited \in BOOLEAN /\ IsFiniteSet(c.restrictions[i].roles)

IsScope(s) ==
  /\ s = [user |-> s.user, auth |-> s.auth, context |-> s.context, holder |-> s.holder,
          owner |-> s.owner, tenant |-> s.tenant, state |-> s.state]
  /\ IsPerson(s.user) /\ IsPerson(s.auth) /\ IsContext(s.context)
  /\ s.holder \in {"none", "user", "context"}

First(ids, fields) ==
  LET known == {i \in DOMAIN fields : fields[i] \in DOMAIN ids}
  IN  IF known = {} THEN "none" ELSE ids[fields[Min(known)]]

FirstKnown(values) ==
  LET known == {i \in DOMAIN values : values[i] # "none"} IN IF known = {} THEN "none" ELSE values[Min(known)]

-----------------------------------------------------------------------------
(* Who is asking, as a tool and as the owner of a task *)

\* _extract_user_and_auth: a Principal, and a context, have none of a person's attributes.
UserOf(s) ==
  IF s.holder = "user" THEN Opaque
  ELSE IF s.user # NoOne THEN s.user
  ELSE IF s.auth = NoOne /\ s.context.present THEN Opaque
  ELSE s.auth

RolesOf(s) == IF UserOf(s).roles # {} THEN UserOf(s).roles ELSE s.auth.roles

TenantOf(s) == FirstKnown(<<s.tenant, UserOf(s).tenant, s.auth.tenant, s.state>>)

UserId(p) == IF p.shape = "text" THEN p.ids["text"] ELSE First(p.ids, <<"id", "sub", "username", "pk">>)

\* What ToolContext makes of a connection.
Seen(s) == [user |-> UserOf(s), roles |-> RolesOf(s), tenant |-> TenantOf(s)]

OwnerKey(seen) ==
  LET id == UserId(seen.user)
  IN  IF id = "none" THEN <<>> ELSE <<IF seen.tenant = "none" THEN "default" ELSE seen.tenant, id>>

Subject(s) ==
  FirstKnown(<<First(s.auth.ids, <<"sub">>), IF s.holder = "user" THEN "none" ELSE First(s.user.ids, <<"id", "sub">>)>>)

Owner(s) == IF s.owner # "none" THEN s.owner ELSE Subject(s)

\* _build_dispatch_scope: a tool runs in a scope of its own, which takes over the user, the token,
\* the security context and the state, and neither the tenant nor the owner the request names.
Dispatched(s) == [s EXCEPT !.owner = "none", !.tenant = "none"]

\* A stdio session answers every request as who started it: what else is in the scope is lost.
Seeded(s) == [NoScope EXCEPT !.user = s.user, !.auth = s.auth, !.owner = s.owner, !.state = s.state]

-----------------------------------------------------------------------------
(* What is sent to a worker, and what a worker makes of it *)

\* The names an object is asked for; a mapping and a typed one are converted whole.
Attributes == {"id", "sub", "user_id", "username"}

\* FAULT: an empty list taken for no list.
FaultSerialized(restrictions) ==
  [i \in DOMAIN restrictions |-> IF restrictions[i].roles # {} THEN <<SetToSeq(restrictions[i].roles)>> ELSE <<>>]

\* A restriction is sent as no list, or as the list of its roles, which may be empty.
Serialized(restrictions) ==
  [i \in DOMAIN restrictions |-> IF restrictions[i].limited THEN <<SetToSeq(restrictions[i].roles)>> ELSE <<>>]

Reconstructed(lists) ==
  [i \in DOMAIN lists |-> IF lists[i] = <<>> THEN Unlimited ELSE Limit(ToSet(lists[i][1]))]

\* _to_json_safe: the fields of a person, empty for one that is a text.
Fields(p) ==
  CASE p.shape \in {"none", "text"} -> NoOne
    [] p.shape = "object" -> [p EXCEPT !.shape = "fields", !.ids = [f \in DOMAIN p.ids \intersect Attributes |-> p.ids[f]]]
    [] OTHER -> [p EXCEPT !.shape = "fields"]

\* FAULT: the owner taken for the id of every user (update for setdefault).
FaultDefault(ids, owner) ==
  IF owner = "none" THEN ids
  ELSE [f \in DOMAIN ids \union {"id", "sub"} |-> IF f \in {"id", "sub"} THEN owner ELSE ids[f]]

Default(ids, owner) ==
  IF owner = "none" THEN ids
  ELSE [f \in DOMAIN ids \union {"id", "sub"} |-> IF f \in DOMAIN ids THEN ids[f] ELSE owner]

\* tag is the class the fields are of, with its attributes; auth is left out where a security
\* context says more.
Snapshot(s, owner) ==
  [fields |-> LET f == Fields(s.user) IN [f EXCEPT !.shape = "fields", !.ids = Default(f.ids, owner)],
   tag |-> IF s.user.shape = "typed" THEN DOMAIN s.user.ids ELSE {},
   security |-> IF s.holder # "none" \/ s.context.present
                THEN [s.context EXCEPT !.present = TRUE, !.restrictions = Serialized(@)]
                ELSE NoContext,
   principal |-> s.holder # "none",
   auth |-> IF s.holder # "none" \/ s.context.present THEN NoOne ELSE Fields(s.auth)]

\* A proxy unless the class is a dataclass or struct of a module the worker has imported.
Rehydrated(fields, tag, imports) ==
  IF tag # {} /\ imports
  THEN [fields EXCEPT !.shape = "typed", !.ids = [f \in DOMAIN fields.ids \intersect tag |-> fields.ids[f]]]
  ELSE IF fields.ids = NoOne.ids /\ fields.roles = {} /\ fields.tenant = "none" THEN NoOne
  ELSE [fields EXCEPT !.shape = "proxy"]

WorkerScope(e, imports) ==
  [NoScope EXCEPT !.user = Rehydrated(e.snapshot.fields, e.snapshot.tag, imports),
                  !.owner = e.owner,
                  !.context = IF e.snapshot.security.present
                              THEN [e.snapshot.security EXCEPT !.restrictions = Reconstructed(@)] ELSE NoContext,
                  !.holder = IF e.snapshot.principal THEN "user" ELSE "none",
                  !.auth = IF e.snapshot.auth = NoOne THEN NoOne ELSE [e.snapshot.auth EXCEPT !.shape = "proxy"]]

-----------------------------------------------------------------------------
NoEnvelope == [owner |-> "none", snapshot |-> Snapshot(NoScope, "none")]
Anonymous == Seen(NoScope)
NoWork == [way |-> "none", at |-> "none", scope |-> NoScope, fresh |-> FALSE, seen |-> Anonymous]

IdentityInit ==
  /\ \E s \in Requests : request \in {s, Seeded(s)}
  /\ worker \in Workers /\ accounts \in [Holders -> Roles] /\ changes = 0
  /\ envelope = NoEnvelope /\ work = NoWork /\ held = {}

\* What the application knows of the owner; nothing of one without an account.
Account(owner) == IF owner \in Holders THEN Named(owner, accounts[owner]) ELSE NoOne

\* Whom a handler's dependency asks for who knows a user only: the id it goes by.
Id(user) == First(user.ids, <<"id">>)
AskedFor == {envelope.owner, Id(request.user)}

\* An administrator gives an account other roles, at any time.
Change(n, roles) ==
  /\ changes < MaxChanges /\ work.at # "ran" /\ accounts[n] # roles
  /\ accounts' = [accounts EXCEPT ![n] = roles] /\ changes' = changes + 1
  /\ held' = IF work.at \in {"loaded", "prepared"} /\ n \in AskedFor THEN held \union roles ELSE held
  /\ UNCHANGED <<request, worker, envelope, work>>

\* A chat turn sees the request itself.
Chat ==
  /\ work = NoWork
  /\ work' = [NoWork EXCEPT !.way = "chat", !.at = "ran", !.scope = request, !.seen = Seen(request)]
  /\ UNCHANGED <<request, worker, accounts, changes, envelope, held>>

Call ==
  /\ work = NoWork
  /\ LET scope == Dispatched(request)
     IN  work' = [NoWork EXCEPT !.way = "call", !.at = "ran", !.scope = scope, !.seen = Seen(scope)]
  /\ UNCHANGED <<request, worker, accounts, changes, envelope, held>>

\* A task of this process keeps the request, its tool is dispatched later.
CallInProcess ==
  /\ work = NoWork
  /\ work' = [NoWork EXCEPT !.way = "kept", !.at = "prepared", !.scope = request]
  /\ UNCHANGED <<request, worker, accounts, changes, envelope, held>>

Submit ==
  /\ work = NoWork
  /\ envelope' = [owner |-> Owner(request), snapshot |-> Snapshot(request, Owner(request))]
  /\ work' = [NoWork EXCEPT !.way = "task", !.at = "queued"]
  /\ UNCHANGED <<request, worker, accounts, changes, held>>

\* run_task_attempt: who the principal loader knows replaces who was sent.
Load ==
  /\ work.way = "task" /\ work.at = "queued"
  /\ LET scope == WorkerScope(envelope, worker.imports)
         known == IF worker.loader = "has" /\ envelope.owner # "none" THEN Account(envelope.owner) ELSE NoOne
     IN  work' = IF known # NoOne
                 THEN [work EXCEPT !.at = "prepared", !.scope = [scope EXCEPT !.user = known, !.holder = "none"],
                                   !.fresh = TRUE]
                 ELSE [work EXCEPT !.at = "loaded", !.scope = scope, !.fresh = FALSE]
  /\ held' = UNION {Account(n).roles : n \in AskedFor}
  /\ UNCHANGED <<request, worker, accounts, changes, envelope>>

\* What the dependency tells of a proxy is merged into it, the names it lacks are the owner's.
Merged(user, resolved, owner) ==
  LET more == Default(resolved.ids, owner)
  IN  [user EXCEPT !.ids = [f \in DOMAIN @ \union DOMAIN more |-> IF f \in DOMAIN more THEN more[f] ELSE @[f]],
                   !.roles = resolved.roles]

\* The user dependency of the handler is asked, unless the loader knew the owner.
Prepare ==
  /\ work.at = "loaded"
  /\ LET resolved == IF worker.dependency \in {"declared", "unused"} THEN Account(envelope.owner) ELSE NoOne
         merges == worker.dependency = "declared" /\ work.scope.user.shape = "proxy" /\ work.scope.holder = "none"
         next == IF merges THEN [work.scope EXCEPT !.user = Merged(work.scope.user, resolved, envelope.owner)]
                 ELSE [work.scope EXCEPT !.user = resolved, !.holder = "none"]
     IN  work' = IF resolved = NoOne THEN [work EXCEPT !.at = "prepared"]
                 ELSE [work EXCEPT !.at = "prepared", !.fresh = TRUE, !.scope = next]
  /\ UNCHANGED <<request, worker, accounts, changes, envelope, held>>

\* The handler's dependencies are resolved for the call too, in its scope, which does not tell
\* the owner: the user among them takes the place of a proxy.
Run ==
  /\ work.at = "prepared"
  /\ LET user == work.scope.user
         resolved == IF worker.dependency \in {"declared", "unfit"} THEN Account(Id(user)) ELSE NoOne
         replaced == resolved # NoOne /\ user.shape = "proxy" /\ work.scope.holder = "none"
         scope == Dispatched(IF replaced THEN [work.scope EXCEPT !.user = resolved] ELSE work.scope)
     IN  work' = [work EXCEPT !.at = "ran", !.scope = scope, !.seen = Seen(scope), !.fresh = @ \/ replaced]
  /\ UNCHANGED <<request, worker, accounts, changes, envelope, held>>

\* The tool asked for input, and the answer starts another attempt from what was sent at first.
Resume ==
  /\ work.way = "task" /\ work.at = "ran" /\ changes < MaxChanges
  /\ work' = [work EXCEPT !.at = "queued", !.scope = NoScope, !.fresh = FALSE, !.seen = Anonymous]
  /\ changes' = changes + 1
  /\ UNCHANGED <<request, worker, accounts, envelope, held>>

-----------------------------------------------------------------------------
(* Turns of an agent *)

TurnUser(s) ==
  FirstKnown(<<First(UserOf(s).ids, <<"user_id", "id", "sub", "username">>), First(s.auth.ids, <<"sub", "user_id", "id">>)>>)

EnqueueTurn ==
  /\ work = NoWork
  /\ envelope' = [user |-> TurnUser(request), tenant |-> TenantOf(request), roles |-> RolesOf(request)]
  /\ work' = [NoWork EXCEPT !.way = "turn", !.at = "queued"]
  /\ UNCHANGED <<request, worker, accounts, changes, held>>

RunTurn ==
  /\ work.way = "turn" /\ work.at = "queued"
  /\ work' = [work EXCEPT !.at = "ran",
                !.seen = [user |-> IF envelope.user = "none" THEN NoOne ELSE Named(envelope.user, {}),
                          roles |-> envelope.roles, tenant |-> envelope.tenant]]
  /\ UNCHANGED <<request, worker, accounts, changes, envelope, held>>

\* The name a message comes in; Authenticated without one it is refused.
UserName(s) == IF s.holder = "user" THEN "none" ELSE First(s.user.ids, <<"id", "sub", "username">>)
Authenticated(s) == s.holder = "user" \/ s.user # NoOne

\* The owner of an A2A task is its user, of the tenant the message is addressed to; with no
\* user it is the tenant.
A2aOwner(name, tenant) ==
  CASE name # "none" /\ tenant # "none" -> <<tenant, name>>
    [] name # "none" /\ tenant = "none" -> <<"none", name>>
    [] name = "none" /\ tenant # "none" -> <<tenant, tenant>>
    [] OTHER -> <<>>

Send(tenant) ==
  /\ work = NoWork
  /\ LET owner == A2aOwner(UserName(request), tenant)
     IN  work' = IF Authenticated(request) /\ UserName(request) = "none"
                 THEN [NoWork EXCEPT !.way = "a2a", !.at = "refused"]
                 ELSE [NoWork EXCEPT !.way = "a2a", !.at = "ran",
                         !.seen = IF owner = <<>> THEN Anonymous
                                  ELSE [user |-> Named(owner[2], {}), roles |-> {}, tenant |-> owner[1]]]
  /\ UNCHANGED <<request, worker, accounts, changes, envelope, held>>

IdentityNext ==
  \/ \E n \in Holders, roles \in Roles : Change(n, roles)
  \/ Chat \/ Call \/ CallInProcess
  \/ Submit \/ Load \/ Prepare \/ Run \/ Resume
  \/ EnqueueTurn \/ RunTurn
  \/ \E tenant \in {"none", "t"} : Send(tenant)

-----------------------------------------------------------------------------
Granted(context) ==
  {r \in context.roles : \A i \in DOMAIN context.restrictions :
                            context.restrictions[i].limited => r \in context.restrictions[i].roles}

\* A worker takes the owner for the id of a user that has none, and loses the names it does not
\* look for: those of a text, and the pk of an object.  Someone with no name is lost where there
\* is a token beside.
Renamed(s) ==
  \/ "id" \notin DOMAIN s.user.ids /\ Owner(s) \notin {"none", UserId(UserOf(s))}
  \/ UserOf(s).shape = "text"
  \/ UserOf(s).shape = "object" /\ DOMAIN UserOf(s).ids \intersect {"id", "sub", "username", "pk"} = {"pk"}
  \/ s.user # NoOne /\ DOMAIN s.user.ids = {} /\ s.auth # NoOne
\* A turn looks for user_id first, which no one else does, and not for a pk or a text; without a
\* name it asks the token.
Unlike(s) ==
  \/ DOMAIN UserOf(s).ids \intersect {"user_id", "pk", "text"} # {}
  \/ DOMAIN UserOf(s).ids = {} /\ s.auth # NoOne
\* A tenant that is told beside the person is not sent to a worker, nor is a token beside a
\* security context.
ToldAside(s) ==
  \/ s.tenant # "none" \/ (UserOf(s).tenant = "none" /\ s.auth.tenant = "none" /\ s.state # "none")
  \/ s.context.present /\ s.auth # NoOne

\* Whichever way the work takes, it is the same owner's (core/context.py:97) as of a chat turn of
\* the request: but for the tenant the scope names, which is not told to a tool (executor.py:870),
\* and the id of a user who is owned by another name, which a dependency is asked with instead.
SameOwner ==
  LET key == OwnerKey(Seen(request))
      carried == OwnerKey(work.seen)
  IN  work.at = "ran" =>
        CASE work.way \in {"call", "kept"} -> carried = key \/ (request.tenant # "none" /\ carried[2] = key[2])
          [] work.way = "task" /\ work.fresh ->
               \/ carried[2] = envelope.owner
               \/ worker.dependency \in {"declared", "unfit"} /\ carried[2] = Id(request.user)
          [] work.way = "task" /\ ~work.fresh -> carried = key \/ Renamed(request) \/ ToldAside(request) \/ request.holder = "context"
          [] work.way = "turn" -> carried = key \/ Unlike(request)
          [] work.way = "a2a" -> request.user = NoOne \/ carried[2] = key[2]
          [] OTHER -> carried = key

\* Work done later has no more rights than its request had, or, where the application was asked
\* for the account, than the account has had since (mcp/tasks.py:788).
NoMoreRights ==
  work.at = "ran" =>
    /\ work.seen.roles \subseteq (IF work.fresh THEN held \union request.auth.roles ELSE RolesOf(request))
    /\ work.way \in {"call", "kept", "task"} => Granted(work.scope.context) = Granted(request.context)

=============================================================================

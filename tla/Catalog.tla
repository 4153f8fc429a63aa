------------------------------- MODULE Catalog -------------------------------
(***************************************************************************)
(* What a server offers, how it is asked for it and for whom it works: the *)
(* lists of what is registered (Registry), the files of its skills         *)
(* (Skills), the arguments of its tools (ToolArguments) and the identity   *)
(* its work runs with (Identity).  They share nothing that changes: in a   *)
(* behaviour one of the four is at work.                                   *)
(***************************************************************************)
EXTENDS Naturals, Sequences

CONSTANTS
  Marked, Apps, Later, Rank, SkillNames, Values, PageSize, MaxLater,              \* of Registry
  Disk, Customs, Contents, Binary, MaxFiles, MaxBytes, MaxBlob, MaxEdits,         \* of Skills
  Passes,                                                                         \* of ToolArguments
  Requests, Workers, Holders, Roles, MaxChanges                                   \* of Identity

VARIABLES app, stage, registry, listening, router, registered, published, client
VARIABLES disk, custom, edits, loader, loaded, told, match, read
VARIABLES passing, step, values, used
VARIABLES request, worker, accounts, changes, envelope, work, held

Offer == INSTANCE Registry WITH Handlers <- Marked, phase <- stage
Skill == INSTANCE Skills WITH answer <- read
Arguments == INSTANCE ToolArguments WITH Calls <- Passes, call <- passing, at <- step
Who == INSTANCE Identity

\* Scopes as the server reads them; no account is named as nobody is.
IdentityAssumption == (\A s \in Requests : Who!IsScope(s)) /\ "none" \notin Holders
ASSUME IdentityAssumption

FilesAssumption == Skill!SkillsAssumption
ASSUME FilesAssumption

ListsAssumption == Offer!RegistryAssumption
ASSUME ListsAssumption

PassesAssumption == \A c \in Passes : Arguments!IsCall(c)
ASSUME PassesAssumption

registryVars == <<app, stage, registry, listening, router, registered, published, client>>
skillVars == <<disk, custom, edits, loader, loaded, told, match, read>>
passingVars == <<passing, step, values, used>>
identityVars == <<request, worker, accounts, changes, envelope, work, held>>
catalogVars == <<registryVars, skillVars, passingVars, identityVars>>

NoRegistry ==
  /\ app = [routes |-> <<>>, dynamic |-> <<>>] /\ stage = "stopped" /\ registry = Offer!Empty
  /\ listening = FALSE /\ router = FALSE /\ registered = 0 /\ published = 0 /\ client = Offer!NoClient

NoSkills ==
  /\ disk = Skill!None /\ custom = Skill!None /\ edits = MaxEdits
  /\ loader = [Skill!Idle EXCEPT !.at = "refused"]
  /\ loaded = Skill!None /\ told = {} /\ match = Skill!NoMatch /\ read = Skill!NoAnswer

NoPassing == passing = [target |-> "none"] /\ step = "done" /\ values = [n \in {} |-> {}] /\ used = {}

NoIdentity ==
  /\ request = Who!NoScope /\ worker = [loader |-> "none"]
  /\ accounts = [n \in Holders |-> {}] /\ changes = MaxChanges
  /\ envelope = Who!NoEnvelope /\ work = [Who!NoWork EXCEPT !.at = "refused"] /\ held = {}

CatalogInit ==
  \/ Offer!RegistryInit /\ NoSkills /\ NoPassing /\ NoIdentity
  \/ Skill!SkillsInit /\ NoRegistry /\ NoPassing /\ NoIdentity
  \/ Arguments!CallInit /\ NoRegistry /\ NoSkills /\ NoIdentity
  \/ Who!IdentityInit /\ NoRegistry /\ NoSkills /\ NoPassing

CatalogNext ==
  \/ Offer!RegistryNext /\ UNCHANGED <<skillVars, passingVars, identityVars>>
  \/ Skill!SkillsNext /\ UNCHANGED <<registryVars, passingVars, identityVars>>
  \/ Arguments!CallNext /\ UNCHANGED <<registryVars, skillVars, identityVars>>
  \/ Who!IdentityNext /\ UNCHANGED <<registryVars, skillVars, passingVars>>

CatalogSpec == CatalogInit /\ [][CatalogNext]_catalogVars

-----------------------------------------------------------------------------
\* A client that follows the cursors of a list gets all of it, although more is registered
\* meanwhile (core/_cursor.py:11).
PagesComplete == Offer!PagesComplete

\* Whatever is marked is held as it is routed (mcp/registry.py:43), the first that was registered
\* serves what is listed (docs/learn/resources.md:48), and what is hidden serves nothing.
ListedIsServed == Offer!ListedIsServed

\* A registration while the server runs is announced to subscribed streams: "Calling
\* plugin.registry.register_resource(name, handler) (or register_tool / register_prompt) at
\* runtime automatically broadcasts notifications/resources/list_changed to subscribed
\* streams" (docs/learn/resources.md:67).  It is not.
RegistrationAnnounced == Offer!RegistrationAnnounced

\* A client reads the file it was told of, byte for byte, although files and sources change
\* (mcp/skills.py:578).
ServedAsListed == Skill!ServedAsListed

\* Arguments that the schema of a tool asks for are accepted, and what is accepted reaches
\* the parameters it names (mcp/executor.py:792).
ArgumentsReach == step # "done" => Arguments!ArgumentsReach

\* Whichever way work takes, at once, as a task, as a turn or over A2A, it is done for the
\* owner who asked for it (core/context.py:97).
SameOwner == Who!SameOwner

\* Work done later has no more rights than its request had, or, where the application is asked
\* for the account, than the account has had since (mcp/tasks.py:788).
NoMoreRights == Who!NoMoreRights

=============================================================================

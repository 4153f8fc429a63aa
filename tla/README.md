# Verification of litestar-mcp

TLA+ models of litestar-mcp, a Litestar plugin that serves the Model Context Protocol
and A2A, runs agents and executes their work in the background: its concurrent core,
and the rules by which requests are checked, routed, bound and attributed.
Paths below are relative to the repository; `mcp/tasks.py` stands for
`litestar_mcp/mcp/tasks.py`. `PROJECT.json` relates every definition to the lines it
models and lists the runs, theorems, hazards and findings.

1. [The system](#1-the-system)
2. [The modules](#2-the-modules)
3. [The runs](#3-the-runs)
4. [What is proved](#4-what-is-proved)
5. [Divergences found](#5-divergences-found)
6. [What is not modelled](#6-what-is-not-modelled)
7. [Plan](#7-plan)

## 1. The system

Everything runs on asyncio: inside a process a step lasts from one `await` to the
next, and between processes only a store (`litestar.stores`), a broker
(`litestar.channels`) and a job queue (`litestar-queues`) are shared.

| component | state | operations | hard behaviour | what makes it correct |
| --- | --- | --- | --- | --- |
| Task store and in-process runner (`mcp/tasks.py`, `mcp/service.py`) | stored records; `_runners`, `_input_queues`, `_cancel_events` of the process | `create`, `complete`, `fail`, `require_input`, `wait_for_input`, `update`, `cancel`, `mark_cancelled`, `close`; `_run_task` | handlers, the runner and `Task.cancel()` meet at any await; restart over a store that survives | a terminal record stays; each pause gets its own answers, once; a wake-up is never lost; an acknowledged cancel ends the task |
| Queue task executor (`queues/mcp_tasks.py`) | the record with its dispatch envelope, a job pointer, the jobs | `submit`, `resume`, `cancel`; the job | lookup and save are apart for other processes; cancellation races completion, pause and resume | attempts follow answered pauses, never overlap, a task does not stay `working` |
| Durable workflow engine (`queues/workflow.py`, `queues/workflow_store.py`) | run and node records with a TTL; reserved job keys | `start`, `advance`, `execute_node`, `watch`, `set_run_status`, `put_node` | many advances at once, stale reads, crashes with and without retry, watchdog against TTL | a node runs once and after its dependencies; the verdict fits the records; a run ends |
| In-process workflow engine (`agent/workflow.py`, `queues/dependencies.py`) | in-degrees, a ready channel, step results | `validate_dependencies`, `execute_run`, `should_skip` | parallel nodes, a failure cancels siblings | exactly the acyclic graphs are accepted; topological order |
| Subscriptions (`core/sse.py`, `mcp/routes.py`) | one bounded queue per stream; the broker task | `open`, `publish`, `disconnect`, `close_all`; the response generator | slow clients, overflow, broker failure, shutdown | no gap in what is delivered; one last response; closed streams end |
| Agent turns (`agent/runtime.py`, `agent/controller.py`) | messages, budget counters, a bounded frame buffer | `produce`, the model loop, tool batches, `chat` | deadline, failures, a client that leaves, back-pressure under a lock | history is extended, never overwritten; the client is told the truth; locks come back |
| Session stores (`agent/sessions.py`) | LRU map of histories with TTL, a lock per session | `load`, `save`, `lock` | eviction and expiry while a turn runs | turns of a session are serial |
| Queued agent turns (`queues/bridge.py`, `queues/tasks.py`) | a channel with replay per turn | `enqueue_turn`, `emit_agent_frame`, `stream_turn` | reconnection with a cursor, an idle deadline that ends the stream and may displace a frame, jobs that die | every frame once and in order; the client learns the outcome |
| Streaming responses (`core/_streaming.py`, `mcp/routes.py`, `a2a/plugin.py`) | producer task, channel, deadline | `start`, `prefetch_stream`, `result`, `close` | client leaves during prefetch or send; cancellation of the cleanup | a producer never outlives its request by more than the timeout |
| stdio bridge and ASGI transport (`mcp/bridge.py`, `mcp/stdio.py`) | requests in flight, subscriptions, end-of-input flag | pump, `post_message`, `cancel_request`, `close_subscriptions`, lifespan | cancel overtakes its request, end of input, an application that hangs | one answer per request or cancellation; everything is closed at the end |
| MCP endpoint (`mcp/routes.py`, `core/jsonrpc.py`, `mcp/service.py`) | none between requests | envelope, metadata, version and header checks, the router, every method | two protocol generations told apart by eight signs; client and bridge prepare what the server checks | only what passed every check runs; what client and bridge prepare is accepted; every request has one answer |
| Handler pipeline (`mcp/executor.py`) | the call being made | hooks, guards, dependencies, handler, exception handlers, clean-up | each may fail or be cancelled | hooks balance, resources close |
| A2A endpoint (`a2a/plugin.py`) | none | JSON-RPC dispatch, nine HTTP+JSON routes, context, extensions | two bindings with checks of their own | both mean the same |
| Registry and plugin (`mcp/registry.py`, `mcp/plugin.py`, `mcp/app.py`) | tools, resources, templates, prompts; the cached router | discovery before and after routing, registration, lists, URI lookup | handlers found twice in any order; lists that change between two pages | all marked handlers are held as they are routed; what is listed is served |
| Skills (`mcp/skills.py`) | skills loaded at start, their manifests, the sources | load with limits, list, look up, directory, verified read | files edited while they are loaded or served | a client reads what it was told of |
| Tools and arguments (`mcp/executor.py`, `mcp/tool_handlers.py`, `utils/handler_signature.py`, `core/tools.py`, `core/schema_builder.py`) | the arguments of one call | schema, validation, split over path, query and body, injection | names, aliases, legacy names, dependencies and injected parameters told apart in three places | accepted arguments reach the parameters they name |
| Identity (`core/context.py`, `mcp/tasks.py`, `queues/`, `a2a/`) | who asks; what is sent to a worker | `owner`, principal snapshot, rehydration, turn principals, A2A users | rules of their own on each of six ways | one owner on every way; no rights gained later |
| CLI, HTTP and provider clients, observability | none | thin I/O | little | see section 6 |

`tools/call` goes through the checks of the MCP endpoint to the handler pipeline, or
promotes a tool to a task: with no executor `_run_task` runs it in the process and
shares `MCPTaskStore` with `tasks/update` and `tasks/cancel`; with one,
`QueueTaskExecutor` makes a job per attempt and the record carries the envelope of the
next attempt. Status changes are published through the subscriptions. Durable workflow
nodes run agent turns; a turn takes its session's lock from the session store and is
streamed by `AgentChatController` through a `StreamOwner`, as progress responses and
A2A streams are. The bridge posts the lines of its standard input to the MCP endpoint,
in the same process (`mcp/stdio.py`) or another.

## 2. The modules

| module | models | kind |
| --- | --- | --- |
| `TaskLifecycle` | what the record of a task promises to its readers | abstract |
| `McpTasks` | the in-process deployment of tasks; implements `TaskLifecycle` per task | detailed |
| `McpTaskQueue` | the queued deployment of one task; implements `TaskLifecycle` | detailed |
| `WorkflowRun` | what a run of a workflow promises, whichever engine executes it | abstract |
| `DurableWorkflow` | one durable run, any number of workers; implements `WorkflowRun` until it times out | detailed |
| `WorkflowEngine` | one run of the in-process engine; implements `WorkflowRun` | detailed |
| `Workflows` | the two engines | composition |
| `Subscriptions` | the listen streams of one worker | detailed |
| `AgentTurns` | turns, sessions and locks of one process | detailed |
| `StreamOwner`, `QueuedTurn`, `Streams` | a streamed request; a queued turn and its readers; both | detailed, composition |
| `StdioBridge` | bridge, in-process transport and application | detailed |
| `McpMessage` | how client and bridge prepare a message and its headers, and how the server compares them | operators |
| `HandlerCall` | one call of a handler through the pipeline | detailed |
| `McpRequest` | one MCP request from sender to reply, with `HandlerCall` inside | composition |
| `A2aRequest`, `Endpoints` | one A2A request over both bindings; both endpoints | detailed, composition |
| `Registry`, `Skills`, `ToolArguments`, `Identity` (over `Scopes`) | discovery and lists; skills; arguments; owner and rights | detailed |
| `Catalog` | the four of the last row | composition |
| `McpTaskQueueProofs`, `WorkflowsProofs`, `SubscriptionsProofs`, `AgentTurnsProofs`, `StreamsProofs`, `StdioBridgeProofs` | theorems about the module they are named after and, if it composes others, about those | proofs |
| `ServerProofs` | theorems about `HandlerCall` and `Endpoints` | proofs |
| `ServiceProofs` | theorems about `McpTasks` and the four parts of `Catalog` | proofs |
| `MC...` | instances for TLC | |

An action is what runs between two awaits at which something else can interfere, and
it is named after the operation. Definitions named `Fault...` are plausible bugs of the
definition that follows them. They are used by no specification; each shows that a
property can be violated by a bug of the code. A composition of modules that share
nothing (`Workflows`, `Streams`, `Endpoints`, `Catalog`) starts one of them and leaves
the others idle, so that one run answers for all.

**TaskLifecycle.** `status` and `answer` of one record: `Create`, `Pause`, `Resume`,
`Complete`, `Fail`, `Cancel`, `Expire`. Whatever else happens, a reader of the record
sees only these steps.

**McpTasks.** `status`, `answer`, `requests` and `responses` are the stored record;
`local`, `attached`, `inputQueue` and `cancelEvent` are the dictionaries of
`MCPTaskStore`; `call`, `runner` and `updating` are the program points of the tools/call
handler, of `_run_task` and of update handlers. The store's `asyncio.Lock` is held over
each lookup and save, so a critical section is one action; the status callback, the
input queue, the tool and the wait for the lock are points between actions. `Interrupt`
is `Task.cancel()`: in the try block it leads to `MarkCancelled`, in an `except` handler
it ends the coroutine (`dropped`). `Crash` keeps the record and loses the rest.
Payloads are the keys of the input requests they answer.

**McpTaskQueue.** Here a lookup and the save that follows it are two actions, and
`LockFree` keeps apart only actors that share a host. An actor is the submit handler, an
update or cancel handler, or the attempt of a job; `copy` is the record it looked up and
`intent` what it is about to save. `SharedProcess` chooses the deployment. The queue is
external and modelled from its use: an enqueue returns the live job of the same key, a
cancel wins against pending and running jobs, a job is run at most once. `Interrupted` is
the cancellation signal or the timeout of an attempt: `cancelled` is saved instead of what
was under way, except of a failure, because one `except` clause does not catch what is
raised in another. A `complete` or `require_input` that raises is saved as a failure
(`SaveRaises`); when `fail` or `mark_cancelled` raises, nothing is saved (`Unsaved`).

**DurableWorkflow.** `run` and `records` are the stored records, `pending` the advance jobs,
`jobs` the jobs of each node, `reserved` the keys of `unique_until="forever"`, and `actors`
the advance and watch jobs being executed. No lock exists: every await on the store is a
step, and `get_nodes` may see some of the records written while it reads (`ReadNodes`).
`set_run_status` is a read and a write (`ReadStatus`, `WriteStatus`), so is `put_node`.
`ActorCrash` puts the job back, as `retries=3` does (`Retries`, of which `MaxCrashes` is at
most), `JobCrash` does not. `clock` counts watchdog intervals. `Accepted` is Kahn's
algorithm as registration runs it.

**Subscriptions.** `streams[l]` is a subscription with its queue and the place of its
consumer; `broker` and `feed` the broker task and what it has yet to deliver; `shutdown` how
far `close_all` has come. `due` is history: what the filter of a registered stream matched
so far, that is, what its client is owed. No critical section of the manager's lock contains
an await, so the lock is never waited for and each operation is one action.

**AgentTurns.** `entries`, `order` and `locks` are the dictionaries of
`MemorySessionStore`, with a lock named after the turn that made it, because an evicted
lock lives on in the turns that hold or await it. The store never suspends, so `Load`
and `Save` belong to the steps of `produce` that call them. `turns[t]` holds the
coroutine (`at`, `holds`, `steps`, `calls`, `batch`), its frame buffer and what its
client has got. A turn waits for its lock, the model, the tools and room in the buffer.
`Fails` is an exception of the model or a tool batch, the deadline included; `Leave` is
the client that goes away, which cancels the producer. `Elsewhere` is the save of a
turn of some other session, which may evict.

**WorkflowRun, WorkflowEngine, Workflows.** The abstract run has the nodes `started`,
their `record` and the `verdict`. `WorkflowEngine` has the main loop of `execute_run`
and a worker per started node; `inDegrees`, `channel` and `results` are its variables,
and a worker tells its dependents in two steps, so that siblings interleave. A node that
raises cancels the task group. `depends_on` may name a node twice: `uses` counts how often.

**StreamOwner.** `producer`, `channel` and `owner` are the task, the memory channel and
the fields of `StreamOwner`; `request` is the coroutine of the request from prefetch to
the last message, and `closer` the two callers of `close`. Cancellations are counted
until they are delivered, so that the second `Task.cancel()` during cleanup is a step.

**QueuedTurn.** `history`, `feed` and `streams` are the channel, what its backend has yet
to hand out, and the generators of `stream_turn`. A client may connect again at any time
with its last number; `truncated` and `overtaken` record that the replay began late, or
that a live frame of a remote broker came before the history. The idle deadline cancels the
`__anext__` of an async generator: after the first `Ping` the stream is over. If it passes
between the hand-over of a frame and the next step of the reader, a ping is sent in place of
the frame (`PingInstead`, recorded in `displaced`; at most once per client, the bound).

**StdioBridge.** A line of input is a task `post[n]`; `app[n]` is the application's task
and its channel of one chunk; `inflight` and `stopped` are the cancel scopes; `writer` is
the lock of standard output; `ended` tells how bridge and lifespan ended. A worker thread
that writes a line goes on although its task is cancelled (`stray`).

**McpMessage, HandlerCall, McpRequest.** A message is a record of what the checks tell
apart: eight signs of a current client (client information alone is one), versions, names
that are plain, need encoding or are padded, arguments by path. `RequestHeaders`,
`HandshakeHeaders` and `Mirrored` are the headers that client and bridge send;
`MetadataError` is what `_request_metadata_error` finds. A schema has references, unions and
recursion. `Walk` goes through its places level by level, with recursive functions; the
server checks the annotations of properties among them (`Checked`), the bridge mirrors all
(`Annotated`), and the later in the walk (`After`) wins. `McpRequest` sends the message,
takes it through the HTTP checks and the router to the method, and ends in a reply or in
`HandlerCall`, whose `call.at` follows the pipeline through its hooks, any of which may fail
or be cancelled. Dependencies opened before another one fails are `stray`: no one closes
them (`mcp/executor.py:385`). `ScenesAssumption` says what the senders, messages, headers
and servers of an instance are.

**A2aRequest.** Both bindings take one request at their own speed through `Read` (routes,
envelope, version), `BuildContext` (tenant, user, extensions, the application's
`context_builder`) and `Handle`. Routes are sequences of segments (`JsonRpcRoute`,
`RestRoute`, each with and without a tenant); how Litestar follows a URL, and where the
SDK's client finds each of the `Operations`, is external. A REST `POST` to one unknown
segment is a JSON-RPC request of the tenant of that name (`Astray`). A `GET` of `:subscribe`
whose first item is an error is answered without its context and announces no extension
(`Announced`). `AsksAssumption` says what an ask is.

**Registry.** `registry` holds the four dictionaries as sequences, so that an entry that
is replaced keeps its place. `app` says in which order handlers are written and routed;
`OnAppInit` and `OnStartup` discover both. A handler declares by
decorator, by the attribute another package's decorator leaves, or by `opt`. Handlers of
the stand-alone server (`mcp/app.py`) are mounted below internal paths; each mounted handler
is routed at least once. Tools are listed by name, everything else in the order it was put
(`InOrder`). URIs are sequences of tokens; a template is matched token by token as its
regular expression does. `Served` is `resources/read`: what is `Reserved` answers first, then
the first resource of that URI, hidden or not, then the first visible template that matches.
`RegistryAssumption` and `ListsAssumption` give the claims of the constants their shape.

**Skills.** `loader` walks directory by directory with its limits while files are edited;
`told` is what a client was told; `match` a file looked up and not yet read. Digest and size
tell contents apart (`SkillsAssumption`).

**ToolArguments.** A value is the key it was sent under, so `values` tells which key each
parameter was made of. `Schema`, `Valid`, `Split` and `Bound` are operators; the
synthesized handler of a `Tool`, its direct execution by an agent, and prompts are targets.
`IsCall` says which callables are meant: those Python and Litestar accept (no parameter named
twice, no path parameter that is also a dependency), and well-named ones (`WellNamed`), in
which no two parameters share a wire name unless their collision is reported.

**Identity.** A request carries user, token and security context; `work.seen` is what a
tool sees at the end of each way: at once, kept in process, in a worker (with a loader of
accounts, or without), as a chat, as a queued turn, over A2A. A tool runs in a scope of its
own (`Dispatched`, of `_build_dispatch_scope`), which has the user, the token, the security
context and the state of the request, and neither its tenant nor its owner; a chat sees the
request itself. Accounts lose and gain roles meanwhile.

## 3. The runs

| run | shows | instance |
| --- | --- | --- |
| `mcp_tasks` | `NoLostWakeup`, `AnswersFitRound`, `CancelRecorded`, the refinement `LifecycleSpec`, the liveness `CancelHonoured` | 1 task, 2 keys, 3 pauses, 1 crash; 7,728 states |
| `mcp_task_queue` | `AttemptsFollowRounds`, the refinement `LifecycleSpec`, the liveness `WorkingMovesOn`, in one process | 2 keys, 2 updates, 1 cancel, 3 jobs; 316,986 states |
| `workflows` | `Orderly`, `VerdictFits`, `NeverVanishes`, the refinement `ImplementsRun` and the liveness `RunEnds`, for both engines | durable: 2 nodes (chain, independent, and a loop that is rejected), 1 worker and the watchdog, 2 jobs per node, 1 crash, a timeout of 1 and a TTL of 2 intervals; in-process: every graph of 3 nodes, with double edges; 513,830 states |
| `subscriptions` | `NothingLost`, `EndsWithResponse`, `NoLeak`, the liveness `ClosedEnds` | 2 listeners, queues of 2, 3 events; 420,408 states |
| `agent_turns` | `HistoryKept`, `ToldTheOutcome`, the liveness `TurnEnds` | 2 turns, 2 sessions, room for 1, buffer of 1, 2 model calls, 1 tool call; 256,717 states |
| `streams` | `InOrder`, `Contained`, `OnceInOrder`, the liveness `RequestEnds`, `TurnTold` | 3 items through a channel of 1, every cancellation twice; 3 frames, 2 jobs of one turn, 1 client that connects 3 times, both kinds of broker; 880,150 states |
| `stdio_bridge` | `Answered`, `CancelFinds`, `NothingLeftBehind`, the liveness `Terminates` | 2 lines of every kind, an application that answers, streams, fails or hangs; 368,253 states |
| `endpoints` | `OnlyAllowed`, `HooksBalanced`, `PreparedAccepted`, `BindingsAgree`, the liveness `Replied` | an ordinary request of each of 21 methods from each sender with one detail changed, tools/call with two; A2A asks by configuration, outcome, route and tenant; 2,024,928 states |
| `catalog` | `PagesComplete`, `ListedIsServed`, `ServedAsListed`, `ArgumentsReach`, `SameOwner`, `NoMoreRights` | 8 applications, 2 later registrations, pages of 1; 3 directories with 2 edits; 9 signatures with every set of keys; callers of every shape with 2 changes of roles; 1,193,685 states |
| `agent_turns_serialize`, `streams_keep_alive`, `registration_announced` | the divergences of section 5: `TurnsSerialize`, `PingKeepsAlive`, `RegistrationAnnounced` | the instances of `agent_turns`, `streams`, `catalog` |

**Why the bounds are enough.** Tasks, streams of different listeners and durable runs do
not share state except where noted, so one task or run meets every interference that
concerns it. Two keys are needed for a partial answer, three pauses for an answer that
arrives a round late. Three jobs are an attempt, its resumption and a resumption that
should not be; two updates race for the last answer. Two nodes give a dependency and two
siblings that end together; the watchdog is a second advance next to the one worker,
two jobs per node let a duplicate show itself, and a crash re-runs an advance. A timeout of
one interval and records that live for two are the least for which `NeverVanishes` can hold
and a run can time out. Three nodes
of the in-process engine give a diamond's sides and a chain. A queue of 2 holds a
notification and the response, and 3 events overflow it. Two turns contend for one lock;
a store with room for one session evicts at every save of another; a buffer of one is
full after one frame; one tool call more than the budget is produced. Three items fill a
channel of one with one being sent; three frames leave a hole in a replay of one, and those of
an earlier job in the feed are older than the replay; a
second job restarts the numbering. Two lines are a request and its cancellation, or two
requests that contend for standard output. Requests do not share state, so one request
at a time is enough for `endpoints`: most checks look at one detail of an ordinary
request, some at two, hence `Changed`. Two later registrations may go before and behind
the cursor of a page of one. Two changes of roles take a right away and give it back
while a worker runs. The bounds are constants (`MaxRounds`, `MaxCrashes`, `MaxJobs`,
`MaxEvents`, `MaxItems`, `MaxFrames`, `MaxDrops`, `MaxLines`, `MaxEdits`, `MaxLater`,
`MaxChanges`), the finite sets of handlers, calls and requests, and `TTL` for the clock.

**Fairness.** The event loop eventually runs each coroutine that can continue, and queue
workers claim and run jobs: weak fairness per actor (`Fairness` in each module). Tools
end, except for an application behind the bridge, which may hang, and a producer behind a
stream, which may swallow its cancellations. Nothing obliges a client to answer, cancel or
leave, a record to expire, time to pass, or anything to fail. `McpTaskQueue` assumes a
worker serves the queue; `DurableWorkflow` lets `Tick` pass an interval only when no watch
job is due, that is, the watchdog is served within its interval (`NeverVanishes` is
meaningless without it). Timeouts fire: the idle deadline of `stream_turn`, the deadline
of `close`. A client of `Subscriptions`, `AgentTurns` and `StreamOwner` that stays
connected reads, and one of `QueuedTurn` connects again. `TurnEnds` also uses strong
fairness of `Settles`: each time round the model loop passes the deadline check of
`_next_before`, so a model that always has another delta is ended by it. `Catalog` has
safety properties only.

**Excuses in the properties.** They name what the code does not promise and are kept as
narrow as the code allows; most of them are also listed in section 5.

- `NoLostWakeup` and `CancelHonoured`: a handler that dies between save and `queue.put`, a
  crash (in-process runners are documented as lost), an interrupt inside a handler.
- `WorkingMovesOn`: failures no handler records (`stranded`).
- `Orderly`, `VerdictFits` and the durable half of `ImplementsRun`: a run that timed out.
- `HistoryKept`: sessions that lost a lock in use. `NoLeak`: a response never iterated.
- `OnceInOrder`: a replay that begins late or was outrun by the feed (`Skips`), a live
  frame before its history, a second job of the turn, a frame that a ping displaced. `TurnTold`
  excuses a second job only: the client comes back after a ping or a loss with the number of
  the last frame it got, and the replay ends with the terminal frame.
- `CancelFinds`: a tool call that is still loading the headers of the tools.
- `PreparedAccepted`: what the sender of the message itself got wrong (`Mistaken`), and the
  differences between the preparations and the checks (`Diverges`).
- `BindingsAgree`: envelopes that exist in one binding only, a tenant named like a route,
  the parameters of operations that read nothing but their path (`Bare`), and the extension
  header of a subscription that fails.
- `HooksBalanced`: of clean-up, the dependencies that are `stray`.
- `ListedIsServed`: two functions that declare one name (`Sole`), URIs that an earlier
  entry, a skill or the OpenAPI document answers to (`Reserved`, `Shadowed`), values that occur
  in the text behind their variable (`Fits`). Of two templates that match a URI the earlier has
  to answer. `PagesComplete`: an entry before the cursor that went.
- `ServedAsListed`: a skill edited while it was loaded, a file named like a directory.
- `ArgumentsReach`: arguments that are advertised and cannot be passed (`Unreachable`), and
  accepted calls that may fail (`MayFail`), of which the broadest is a parameter that is to be
  injected: whether the injection succeeds is the application's.
- `SameOwner`: the tenant of the scope, which a tool is not told; callers that a worker or a
  turn knows under another name (`Renamed`, `Unlike`), tenants and tokens told beside the
  person (`ToldAside`), a security context with a principal of its own, and the id of a user
  who is owned by another name, which a dependency is asked with.

## 4. What is proved

The theorems hold for every value of the constants that satisfies the named assumptions.
Most of these say that bounds are numbers and sets are finite. `WorkflowAssumption` adds that
an advance is run again at most `Retries` times; `ScenesAssumption`, `AsksAssumption`,
`IdentityAssumption`, `FilesAssumption`, `ListsAssumption` and `PassesAssumption` give
requests, scopes, skills, handlers and callables the shape that the code reads of them, and
TLC evaluates each on the instances. TLC checked each formula first.

| module | theorem | states |
| --- | --- | --- |
| `ServiceProofs` | `Types`, `NoWakeupIsLost`, `AnswersAreOfTheirRound`, `CancellationIsRecorded` | the invariants of run `mcp_tasks` |
| `ServiceProofs` | `Refinement` | `McpTasks` implements `TaskLifecycle` for each task |
| `ServiceProofs` | `AnswersMatch`, `TerminalStays`, `RecordsEndOnce` | in `TaskLifecycle` results and errors belong to completed and failed records, and a terminal status stays until expiry; so also in `McpTasks` |
| `McpTaskQueueProofs` | `RoundsInOrder`, `Refinement` | `AttemptsFollowRounds` and `LifecycleSpec` of run `mcp_task_queue`: `McpTaskQueue` in one process implements `TaskLifecycle` |
| `WorkflowsProofs` | `Types`, `RunsOnce`, `Skipping` | `TypeOK`, `NodeRunsOnce`, `SkipsPropagate` of `DurableWorkflow` |
| `WorkflowsProofs` | `Orderliness`, `Verdicts`, `NothingVanishes` | the invariants `Orderly` (the two before together), `VerdictFits` and, if the record outlives the run timeout and one watchdog interval, `NeverVanishes` of run `workflows` |
| `WorkflowsProofs` | `KahnExact`, `CountedKahnExact` | registration accepts exactly the workflows without a cycle; so does the check that counts edges, whatever node is named twice |
| `WorkflowsProofs` | `Refinement`, `EngineRefinement`, `Implementation` | `DurableWorkflow` implements `WorkflowRun` until it times out, `WorkflowEngine` always; together `ImplementsRun` of run `workflows` |
| `SubscriptionsProofs` | `TypeCorrect`, `NoGap`, `ResponseLast`, `CountsOnlyConsumers` | `TypeOK` with the bounds of queues and of `max_streams`; `NothingLost`, `EndsWithResponse`, `NoLeak` of run `subscriptions` |
| `AgentTurnsProofs` | `TypeCorrect`, `Serialized`, `Told` | `TypeOK` with the bound of the store; `HistoryKept`, `ToldTheOutcome` of run `agent_turns` |
| `StreamsProofs` | `Ordered`, `Supervised`, `Resumed` | the invariants `InOrder`, `Contained`, `OnceInOrder` of run `streams` |
| `StdioBridgeProofs` | `TypeCorrect`, `AnswersOnce`, `CancelsFind`, `LeavesNothing` | `TypeOK`; `Answered`, `CancelFinds`, `NothingLeftBehind` of run `stdio_bridge` |
| `ServerProofs` | `PlaceTells`, `Balance`, `GuardedBody` | what has run of a call follows from its place; `HooksBalanced` of a single call; no handler before its guards |
| `ServerProofs` | `Allowed`, `BalanceOfRequests`, `PreparedTaken`, `BindingsAlike` | `OnlyAllowed`, `HooksBalanced`, `PreparedAccepted`, `BindingsAgree` of run `endpoints` |
| `ServiceProofs` | `RightsKept`, `OwnerKept` | `NoMoreRights`, `SameOwner` of run `catalog` |
| `ServiceProofs` | `ListedRead`, `PagesKept`, `ListedServed`, `ArgumentsPassed` | `ServedAsListed`, `PagesComplete`, `ListedIsServed`, `ArgumentsReach` of run `catalog` |

**In-process tasks.** `NoLostWakeup` is not inductive: it says nothing of the runner
before it waits, which is where a wake-up could be lost. `IInv` adds per task:
`CallFits` (how far tools/call is tells whether there are a record and a runner, and a
live runner has a queue), `RunnerFits` (the status the record may have at each point of
the runner), `AnswerFits` (a result belongs to `completed`, an error to `failed`),
`WakeupFits` (at most one set of answers is on its way, in an update handler or in the
queue, complete and of the current round; none before the runner has paused; one when
the record of a paused runner is back at `working`, unless its handler died) and
`PauseFits` (a paused record has nothing on its way, and its open and answered requests
are those the tool asked for). Only `Close` and `Crash` touch several tasks, so the step
lemma has one case per action of one task. The refinement takes the guards of the
abstract steps from `IInv`.

**Queued tasks.** Both theorems assume `SharedProcess`; with processes of their own the
actors overwrite each other's records (section 5). Who holds the lock then has the record
in hand as it is (`Locked`). The argument is that somebody bears the task at any time, and
one actor only (`Single`): the handler on its way to enqueue an attempt, or the job from
its creation until it has settled the record. What a bearer carries fits the number of
jobs and of pauses (`Bears`); a paused record has no bearer (`PauseFits`), and its last
answer makes one. Most steps change nothing of this and are dealt with by one lemma
(`Minor`); those that pass the task on are the creation, the save of the envelope, the
enqueue, the save of a pause and that of the last answer. `QueueAssumption` says that no
actor plays two parts.

**Durable runs.** `IInv` is `TypeOK`, `Base`, which always holds, and `Steady`, which
holds until the run times out. `Base` says that nobody acts for a node before all its
dependencies are recorded: not an actor that found it ready, and not a job. `Steady`
says that a job's node has its key reserved or is recorded already; that of the jobs of a
node at most one gets past the check of its record, and that an unrecorded node has at
most one job (`Sole`); that what runs or completes has only completed dependencies; and
that a verdict, held or written, is that of a full set of records. Records only grow, so
stale reads do no harm: what `get_nodes` saw is still true. Once all nodes are recorded
keys may be released, and a late advance may make a second job, which stops at its check.
A timeout ends `Steady`, because it releases keys of unrecorded nodes. For the refinement
`RunInv` adds that nothing exists before `start()` created the run, and that a started
handler has all it depends on completed and its node unrecorded until its job writes; then
reading the context of a node that goes ahead is the abstract `Start`, writing a record
`Settle`, writing a status `Complete` or `Fail`, a lapse `Abandon`, and the rest stutters.
`NothingVanishes` rests on `Watched`: a started run that is running always has a watch job,
and no interval passes without a look at the run's age.

**In-process runs.** The in-degree of a node falls in several steps while its dependencies
finish side by side, and a worker that fails or is cancelled stops telling half-way, so it
is no simple function of the results. `Counts` says that it is the sum of the edges from
some set of nodes that includes all that have no result or have yet to tell (`Waits`). The
node whose in-degree reaches zero therefore waits for nobody, is sent to the channel once
(`Channeled`), and its worker finds all it depends on recorded. `LoopFits` says that the
main loop received as many nodes as have a worker and leaves when all are through or a
sibling failed; `WorkerFits` ties a worker to its result. For the sums there are lemmas
about the fold the model uses (`TotalWithout`, `TotalZero`), proved with sets as below.
`Implementation` puts both engines together: in a behaviour one of them is at work and the
other stays as it is (`Sides`, `EngineRests`, `DurableRests`).

**Workflow graphs.** `Accepted` is a recursive function on sets of nodes, and the library's
induction takes an operator as parameter. `KahnExact` therefore argues with sets: the
solution of the recursion exists (`VisitsExists`, built from the least set of visited sets
that is closed under one more visit), and a counterexample to the claim would have a
largest visited set (`Largest`, from the well-foundedness of strict inclusion in a finite
set), from which one more visit leads to a larger one.

**Subscriptions.** The flow of a stream is what its client got, what its consumer holds and
what is queued. Taking and sending a message leave it as it is. While a stream is
registered, its flow is exactly what it is owed (`due`); once it was ended by overflow,
disconnection, shutdown or the broker, the flow is an initial part of that, the response,
and the sentinel if there was room (`EndsWell`). `NothingLost` and `EndsWithResponse` read
the part the client has from the flow.

**Agent turns.** `Fine` says of one turn by itself which fields go with its place and what
its buffer may tell. Between turns there are three facts: a turn whose session is not torn
uses the lock that the store has for the session (`LocksKept`), no two turns hold one lock
(`Exclusive`), and the turn at work on such a session loaded all that the store has of it
(`BaseCovers`), which is why its save takes nothing away. A second invariant keeps the LRU
order free of duplicates and within `max_sessions`.

**Streams.** For a request (`OwnerInv`): the items in the channel are consecutive and go on
where the client's items and the one being sent end; a last message is sent only by a
producer that is over, with the channel empty; and the number of cancellations follows
from the state of the deadline. For a queued turn (`QueuedInv`): the feed is the end of the
history, numbers grow by at most one from a frame to the next, and what an open connection
still has to take continues what its client has got (`Follows`) as far as the job has
published (`Knows`). A resumed connection keeps this, because the part of the replay that
is cut off is known to its client; a displaced frame breaks it for good, and is excused
(`DisplacedKeeps`).

**The bridge.** The place of the task of a line tells whether its request is in flight,
what its application may have done, where its answer is on its way (`Carried`: in the pipe
or in the hand of the task, never in both) and whether it was written. End of input and
failure say which tasks may still run.

**Calls and requests.** `ByPlace` says of each place of the pipeline what has run of a call
there. For an MCP request `Admission` adds that what is called, or becomes a task, was found
by the router (`Found`), passed the checks (`Admitted`) and has the arguments it was sent with
(`Sent`). For A2A, `A2aKnown` says that a binding that builds a context found no fault; a
method without route reaches nothing over REST, because of the forms its paths may have
(`PathForms`, `Elsewhere`).

**Prepared messages.** Client and bridge differ from the server in which annotation counts
when several have one header: the bridge takes the last of its walk, which exists because a
finite set of places has one that no other is behind (`LatestIn`; `Beyond` compares places).
If the message is not excused, the last one has the path of the one the server checks
(`Mirrors`), and so the headers fit (`Fits`).

**Two bindings.** `Follows`, Litestar's recursive way from segment to segment, is the same as
a match of equal length (`FollowsIs`, `Matches`). So the URL the client takes leads to one
route, with or without a tenant (`Locations`, `Goal`), and both bindings reach the
operation that was asked for. `A2aAnswers` says how far each has come (`Progress`) and that it
declined (`Declined`) or took the request (`Taken`), with a context (`ContextOf`) and an answer
(`AnswerOf`) that depend on what was asked and on the binding alone; it remains to compare
the two (`SameFaults`, `SameContext`, `SameResult`).

**Owners and rights.** `Carried` says for each way (`Ways`) what is on its way and what was made
of it. A scope in a worker (`TaskScope`) grants what the request granted and, unless an account
was loaded, has no roles but those of the request; a loaded one has roles that the account
asked for had since the attempt began (`Holding`) and the id it was asked for with (`Asking`).
The lemmas below it follow a person through serialization and back (`ThereAndBack`,
`SentPerson`, `OwnerSent`), and through the scope a tool runs in (`DispatchedKey`).

**Skills.** `FilesKept`: manifests come from the disk as the loader read it, what a client was
told agrees with them, and what is read is compared with them (`ToldKept`, `MatchKept`,
`ReadKept`).

**Lists.** `ListsKept` gives the dictionaries their shape, `ClientKept` says that what stayed on
the list has been got or lies behind the cursor. A registration only moves entries further
back (`Grows`), so the cursor passes none of them. The lists hold nothing twice
(`ListedOnce`), which gives the exact count when nothing changed.

**What is served.** `OfferInv` adds to that, while the server runs, that every claim of a
mounted handler is held by a copy that Litestar made (`Declared`): discovery goes over all
copies, of which there is at least one (`AllFound`). `Answering` says who answers a URI. That a
template matches a URI made from it with the values it was made from, and no other
(`RoundTrip`), is shown by where each piece begins (`Spread`, `Walks`): a value ends where the
text behind it first occurs (`ValueEnds`), which `Fits` is there for.

**Arguments.** `ArgsInv` says for each step of a call what it accepted (`Accepts`), bound
(`Prepared`) and reached (`Reaches`). Names are resolved (`Resolves`) and split (`Splits`) so
that a parameter has one place it can come from (`Sources`, `Bounds`); what conforms to the
schema is valid (`ConformsValid`), what is valid can be bound (`ValidBound`), every key reaches
a parameter or is `Unreachable` (`KeysReach`), and no parameter gets the key of another
(`KeysOwn`). `RestoredFits` and `ExecuteFits` do the same for the handler of a `Tool` and for
its direct execution.

**Induction.** Theorems that take an operator as a parameter are out of the provers' reach, so
induction over numbers is done by the least counterexample (`LeastNat`) and over finite sets
by the largest.

**What the proofs found.** `OnceInOrder` was not inductive, and rightly so: a client that
connects while the feed is longer than the replay gets an older frame behind the hole. The
instance with a replay of two could not show it, one with a replay of one does, and the
excuse names it now (`Skips`). The in-process engine did not refine `WorkflowRun` for a
workflow without nodes, over which `execute_run` returns at once and for which no instance
had a case: the abstract `Begin` allows it now. `CASE` expressions with overlapping guards, in
which TLC takes the first and TLA+ any, were made disjoint. `NeverVanishes` needs a record that
outlives one watchdog interval as well as the run timeout. The parameters of an operation that
reads nothing but its path differ between the A2A bindings, and not its tenant alone. A handler
that is mounted has to be routed for `DeclaredIsHeld`. `Unreachable` excused every key without
an alias, and the model gave an optional path parameter no default.

**Only model-checked.** Liveness (`CancelHonoured`, `WorkingMovesOn`, `RunEnds`,
`ClosedEnds`, `TurnEnds`, `RequestEnds`, `TurnTold`, `Terminates`, `Replied`), because
the prover treats neither fairness nor ENABLED. Every invariant and every refinement that a
passing run checks is proved.

## 5. Divergences found

The first three are stated as the quoted sentence of the documentation and refuted by a run.

- `TurnsSerialize` (`agent_turns_serialize`): a session evicted or expired under a running
  turn takes its lock along, and the next turn of the session overwrites it, or is
  overwritten.
- `PingKeepsAlive` (`streams_keep_alive`): `docs/queues/queued-agent-turns.md:81` calls the
  ping of `stream_turn` a keep-alive, and a terminal frame the end of the response. The deadline
  ends the iterator with the wait, so the stream is over after its first ping
  (`queues/bridge.py:153`). A client that comes back still learns the outcome (`TurnTold`).
- `RegistrationAnnounced` (`registration_announced`): registering while the server runs
  changes the lists and publishes nothing.

The rest was met while modelling. The models do what the code does, and where a property
would say otherwise it names the case as an excuse.

*Tasks.* `mark_cancelled` is shielded from AnyIO cancellation, not from a second
`Task.cancel()`: the runner ends and the record stays `working`. With processes of their
own, a worker and a replica replace one terminal status by another, and both may answer
the last open request. A worker that fails before its try block, or dies, leaves the
record `working`, and so does a restart of in-process tasks (`mcp/tasks.py:251`). A tool
that pauses with no requests can never be resumed (`mcp/tasks.py:380`). Only
`dishka_container` is taken out of the state of an in-process task (`mcp/service.py:995`),
other per-request containers stay.

*Workflows.* `run_timeout_seconds` equals `ttl_seconds` by default, so the record of a
stuck run lapses before the watchdog can mark it failed. A node job that raises keeps its
reservation, and no advance can enqueue the node again. An advance that read the run
before the watchdog failed it enqueues nodes of a dead run (`queues/workflow.py:281`).

*Turns and streams.* The terminal error frame of a turn is dropped when its buffer is full
(`agent/runtime.py:431`). `_check_agent_transfer` looks at calls, not results: a specialist
that calls `transfer_to_agent`, a tool it does not have, is told so and transferred all the
same (`agent/runtime.py:136`). A frame handed to `stream_turn` just as its idle deadline
passes is lost on that connection, and a ping sent instead (`queues/bridge.py:155`). A live
frame of a remote broker may overtake the replay, which is then dropped. Posting the id of a
turn again restarts its numbers, so a client that connects with its last number misses the
new frames.

*MCP requests.* The client sends no `Mcp-Param-` headers, and is refused for tools that ask
for them. A `subscriptions/listen` whose params are an array fails with status 500
(`mcp/routes.py:484`). An `initialize` for a version the server does not speak is answered
with the default (`docs/learn/discovery.md:98`), but refused when it comes through the
bridge, which copies the version into a header (`mcp/bridge.py:344`). The bridge never
renews its tool headers (`mcp/bridge.py:395`). An annotation on a branch of a union is
mirrored by the bridge (`mcp/bridge.py:563`) but not validated by the server
(`core/schema_builder.py:361`): a branch with the header of a property makes the bridge's
calls fail. `after_tool_call` is not called for a cancellation (`mcp/executor.py:277`), nor
for arguments that do not pass validation, which is before the calls that `HooksBalanced`
covers (both against `docs/learn/configuration.md:146`). When a dependency fails, those with
a generator that were opened before it are not closed (`mcp/executor.py:385`).

*A2A.* The bindings differ in the envelopes they take and in the order of their checks. A
tenant named like the first segment of a route addresses that route. Getting or deleting a
push configuration, the extended card and a `GET` of `:subscribe` take no tenant but that of
path and header. A `GET` of `:subscribe` that fails with its first item sends no extension
header, where JSON-RPC does (`a2a/plugin.py:606`). A `POST` to an unknown or disabled route
of one segment is taken for a JSON-RPC request (`a2a/plugin.py:883`).

*Registry and skills.* A hidden resource registered earlier under the same URI makes a
visible one unreadable; a resource that is replaced leaves its template serving; a
templated resource is also listed under `litestar://` and its name, where its variables
have no values. Functions with one qualified name share their metadata. After
`on_app_init`, `LitestarMCP.register_tool` only appends to a list. In the stand-alone
server two resources that differ in their scheme, or two tools of one name, share an
internal path and the later is dropped (`mcp/app.py:477`, `mcp/plugin.py:123`); every
resource is registered as a template. Subscriptions filter by other keys than
`docs/learn/resources.md:66` says (`core/sse.py:23`). An inline skill with files `a` and
`a/b` lists no way to `a/b`. Textually equal definitions that refer to different ones are
taken for the same (`core/schema_builder.py:294`).

*Arguments.* Inputs of dependencies that the handler does not use are advertised, perhaps
as required. Header and cookie parameters are advertised and cannot be passed; what comes
beside an explicit `data` is dropped. On its endpoint a tool's own dependencies yield to
those of the layers (`mcp/tool_handlers.py:194`), in direct execution they win
(`core/tools.py:209`). A body is one property `data`, where `docs/learn/tools.md:21`
shows its fields. `prompts/get` says that a `data` parameter is ignored
(`mcp/service.py:1348`); it is advertised and passed.

*Identity.* A tool runs in a scope without the tenant that the request's scope names
(`mcp/executor.py:870`), where `docs/agents/runtime-and-budgets.md:55` says that it is taken
from there; its owner is then one of the default tenant, unlike that of a chat. A user that
is a plain string owns a chat under its text, and is anonymous in a turn or a worker. A user
known by `username` or `sub` gets the owner as `id` in a worker if a token names somebody
else; one known only by `pk` is lost there; `user_id` counts only for turns. A tenant of
scope or state is not carried to workers. A principal in the security context beside a plain
user becomes the worker's user. An account loaded in the worker keeps the authorization of
the time of enqueue, and one whose roles were all revoked falls back on those of the token.
An A2A caller known by token only is anonymous, or takes the name of the tenant. Falsy ids
such as 0 are skipped.

## 6. What is not modelled

- The conversion of single values: JSON Schema of a type, msgspec, docstrings, content
  blocks, YAML. Which properties exist, which are required and where a value goes is
  modelled.
- Type guards, `__init__.py` and type declarations; configuration objects and their
  validation.
- CLI (`mcp/cli.py`), `MCP.run`, provider clients and agent models, the embedding of HTTP
  clients: I/O and formatting around the modelled operations, without state of their own.
- Observability: no behaviour depends on a span.
- The A2A task machine belongs to the a2a SDK.
- Of the modelled parts: the encoding of task records, the branch of `tasks/update` for a
  task without dispatch, queue routing, the compaction hook of a turn (awaited without
  deadline) and the contents of messages; the steps of a tool batch;
  `LitestarStoreSessionStore`, whose locks exclude only turns of one process;
  cancellation and list of queued turns; the normalisation of prompt results; what fails in
  `resources/read` after the handler was called, which is one failure; how a
  `PromptController` qualifies the names of its prompts.
- Of the arguments: the names `resolved_user` and `user_claims`, inputs of dependencies that
  Dishka resolves, and the order in which a tool asks the containers it falls back on. None of
  these is an argument a caller could name.
- Memory growth of the dictionaries that never drop entries (`_runners` and others).

## 7. Plan

Every module that was planned is there, and every safety property of a passing run is
proved. What is left is to model more: the store-backed sessions, whose locks are local to a
process, would be the first, then the cancellation of queued turns; new modules join one of
the compositions, as the runs are at one per question.

# TLA+ models of the Power BI lineage backend

The backend is a FastAPI service (`src/app`) that reads Power BI, Fabric and
Snowflake on behalf of a signed-in user and answers lineage questions. It runs
as a single process: one asyncio event loop, plus the worker threads in which
FastAPI runs synchronous handlers and dependencies and in which the services
run blocking drivers (Snowflake, SQLite, MSAL). Most of its state is in memory.
SQLite holds graph versions and scan jobs, the only state that survives a
restart.

Two kinds of module follow from this. Where the order of events decides whether
the program is right - a store of live connections shared by threads, a
single-flight cache, sign-ins that outlive their session, jobs with crash
recovery, futures shared by the tasks of one request, polling against a
deadline, questions to a model - a module is a state machine. Where the program
computes - it reads SQL, TMDL, M, PBIR and joins what it read into graphs and
answers - a module is a set of operators, run over bounded families of inputs
and compared with a definition of what the input means.

Contents: [inventory](#inventory) · [plan](#plan) · [modules](#modules) ·
[runs](#runs) · [fairness](#fairness) · [proofs](#proofs) ·
[findings](#findings) · [limits of the models](#limits-of-the-models) ·
[what is not modelled](#what-is-not-modelled).

## Inventory

Paths are under `src/app`. `PROJECT.json` has the full list of components with
their sources, and the hazards with the properties that cover them.

| Component | State it keeps | Operations | Interacts with | Hard because | Right when |
|---|---|---|---|---|---|
| Snowflake session store (`services/auth/snowflake_session_store.py`) | sessions with one live connection each, their use counts and expiry | `save`, `get`, `checkout`, `delete`, `close_all`; replacement of the store | the sign-in, status and logout routes, traces, shutdown | worker threads; `close()` runs outside the lock; expiry is lazy | no connection is closed under a trace, twice, or never |
| Provider read cache (`services/provider_read_cache.py`, `ttl_cache.py`) | entries with deadlines in LRU order, futures of fetches under way | `get_or_fetch`, `invalidate_session` | every service that reads a provider, `DELETE /cache` | many callers share one fetch; cancellation; refresh during a fetch | one fetch per key, reads never go back, failures are not kept, a refresh takes effect |
| Scan jobs (`services/scan_job_service.py`) | tasks and a semaphore in memory, rows in SQLite | `submit`, `submit_live`, `_execute`, recovery | repository, graph services, the cached dependency that builds the manager | crash between steps; writes that fail; concurrent first requests | rows tell the truth about tasks, and finished jobs stay finished |
| Lineage persistence (`repositories/lineage_repository.py`, `services/lineage_store_service.py`) | rows of graph versions, a TTL cache of snapshots | `save`, `get`, versions, jobs | scan jobs and lineage routes, in worker threads | `save` and `get` are chains of atomic steps | versions are immutable and never repeated; the cache agrees with the rows |
| Cross-workspace source resolver (`services/cross_workspace_source_resolver.py`) | futures of upstream models, listings, warnings, all per request | `resolve`, `resolve_one`, `upstream_model`, `_load` | Power BI listings, model definitions | recursive tasks that await each other's futures; cycles; partial failure | every task ends; an answer without warnings reports every end of its hops and nothing else |
| Snowflake deep lineage walk (`services/snowflake_deep_lineage_service.py`) | nodes, edges, distances, query levels of one trace | `_query`, `_infer`, `_absorb_*` | the session's connection, thread pools, `GET_LINEAGE` | answers arrive in any order; limits cut the walk anywhere; branches fail | limits hold, distances are shortest, a cut is reported |
| Microsoft sign-in (`services/auth/microsoft_*`, `device_auth_store.py`, `sso_login_store.py`) | device sessions with tokens and flows, pending SSO logins | start, background poll, callback, status, logout, expiry, the two token getters | MSAL in threads, both providers, credentials dependencies | background polls outlive the session they write to; validation between getting and storing a token | an ended session hands out nothing; a token handed out is accepted and unexpired |
| Fabric long-running operations (`services/fabric_item_definition_service.py` and two like it) | one operation being polled | start, poll, fetch the result, decode | Fabric API, read cache | server-chosen delays against a deadline | the wait is bounded, the request ends |
| Snowflake transformations and SQL (`services/snowflake_transformation_service.py`, `domain/snowflake_sql.py`) | memoised reads of one request | find the statement behind an object, parse it, follow a column | the walk, which uses the parsed sources | a positional parser; several histories that each may fail | the sources named are the ones read; silence means searched |
| Model definitions and DAX (`services/semantic_model_definition_parser.py`, `dax_dependency_service.py`) | none | TMDL lines into a model; references, closure and cycles of measures | graph, report lineage, Power AI | properties belong to the object opened last; cyclic measures | a model is read as written; dependencies are exact |
| Report lineage, physical sources (`report_definition_normalizer.py`, `report_visual_source_column_service.py` and others) | none | PBIR into fields, M into sources, the join of both | providers, the resolver | two formats, nested fields, shared source ids | all fields are kept; the columns shown are the ones a field is made of |
| Lineage graph and its queries (`lineage_graph_service.py`, `impact_analysis_service.py`, search, validation, changes) | none | build, search, paths, impact, validate, compare | lineage routes, scan jobs | bounded searches over cyclic graphs | equal to reachability, distance and difference |
| Live lineage scan (`live_lineage_scan_service.py`) | none | reads a model, its reports and the gateways | scan jobs, graph | partial failure | a failed gateway costs its own sources, with a warning |
| Power AI (`ai/`) | recent turns per conversation in a TTL cache; the state of one library import | resolve, route, tool loop, gate, stream, remember | model gateway, every lineage service | an external model decides the loop; concurrent questions; joins of partial reads | ends; the model's words rest on evidence; dossiers are true |
| Cross-model lineage | none | admin scans over workspaces, with polling | Power BI admin API | deadlines, partial failure | every workspace is read or reported |
| Explorer, estate discovery | none | joins of listings, bounded fan-out | providers | partial failure of some reads | what is missing is reported |
| XMLA metadata | none | rowsets into metadata | external engine | external library | rows are decoded exactly |
| App access | none | merge principals of apps and workspaces, paging | Power BI admin API | pages, duplicates | every principal once, with its strongest access |
| Provider HTTP clients | none | one request, mapped errors | providers | timeouts | every failure becomes a typed error |
| HTTP core, schemas, configuration | counters | middleware, logging, validation | all routes | - | - |

How they interact. A route gets its credentials from a session store, reads
providers through the read cache, and hands the data to services that keep
state only for the request (resolver, walk, readers). Scan jobs are the
exception: they outlive their request, build a graph with the same services,
and save it through the lineage store. The Snowflake walk holds its session
checked out for the whole trace; the session store must keep that connection
open. Power AI sits on top of the readers: it resolves what the user has open,
asks them, and lets a model word only what they found.

## Plan

Order: the behaviours that several actors share and that no test can schedule
come first, then what is sequential but intricate.

1. Done: `ConnectionLifecycle` (abstract), `SnowflakeSessions` (implements it);
   `ProviderReadCache`; `ScanJobs`; `VersionedGraphs` (abstract), `LineageStore`
   (implements it); `CrossWorkspaceResolver`; `DeepLineageWalk`.
2. Done: `MicrosoftSignIn`; `FabricDefinitions`; the SQL modules
   and `SnowflakeTransformations`; `SemanticModels`; `ReportDefinitions`,
   `PhysicalSources`, `VisualSources`; `LineageGraph`, `LineageQueries`;
   `PowerAiAgents`, `PowerAi`, `PowerAiContext`, `Dossiers`.
3. Left to model, in this order:
   - the walk's pools and `SnowflakeSessions` together, for the trace whose root
     call raises while its worker threads still use the connection;
   - cross-model lineage: the admin scan's polling loop and its semaphores, as a
     fourth variant of `FabricDefinitions`;
   - the explorer's fan-out and app access, as far as they have control of their
     own;
   - `ScanJobs` over `LineageStore`, with the graph version a job reports.
4. Abstract specifications worth stating next: a job ledger for `ScanJobs` (absent,
   queued, running, terminal), a once-only future for `ProviderReadCache` and the
   resolver.
5. Theorems. Done: type correctness and every safety property of a run that holds,
   for every state machine (see [proofs](#proofs)). Left: the refinements of item 4.
6. Bounds: two or three actors, one or two keys, one crash, a clock of a few
   ticks. [Runs](#runs) says why this is enough.

## Modules

The names of actions and variables follow the source wherever TLA+ allows it;
`PROJECT.json` maps each definition to its lines. Some operators are followed
by mistaken variants of themselves, named for the mistake (`CheckinNeverCloses`
for `Checkin`). No specification uses them: replacing an operator by its variant
must make TLC report the property that `PROJECT.json` pairs it with, which
shows that the property depends on the code it is about.

### ConnectionLifecycle and SnowflakeSessions

`ConnectionLifecycle` is what any pool of live connections promises: opened
once, handed out until retired, closed once when retired and idle.
`SnowflakeSessions` is the store and its requests.

| Model | Code |
|---|---|
| `home[s]` | the store generation whose `_sessions` holds the session |
| `active`, `closeWhenIdle`, `expiresAt` | the fields of `SnowflakeAuthSession` |
| `current` | which store `_snowflake_session_store` is |
| `closing[r]` | the connections a method still has to close after its lock |
| `Connect`, `ConnectFails`, `Save`, `Respond`, `ReplacePrevious` | the sign-in route: connect, `save`, delete the session of the old cookie |
| `Status`, `Checkout`, `CheckoutFails`, `Checkin`, `Delete`, `CloseAll` | `get`, `checkout` (enter, refuse, exit), `delete`, `close_all` |
| `RetireStore` | `close_snowflake_session_store` at shutdown, and replacement by `get_snowflake_session_store` |

One action per critical section and one per connection closed outside it. The
identity of the user and the credentials are left out.

`save` does not ask whether its store was closed, so a sign-in that held a store
while `close_all` emptied it leaves its connection there, where nobody closes it.
`Served(g)` says that a store is the one in use or that a `close_all` of it is
still to come; the history variable `late` collects the sessions saved into a store
that is not. `NoLeak` requires of every open connection a store that is served, a
trace that will close it or a request that is about to, with `late` as its one
exception; [findings](#findings) has the promise without the exception.

### ProviderReadCache

`get_or_fetch` as seen by its callers: `Hit`, `Join`, `Lead`, `CallUncached`,
then `Answer`, `Complete` or a cancellation. Because the cache lives on one
event loop and only awaits the provider, each stretch between awaits is one
action. `Put` and `Forget` are `TTLCache.set` and its removal, with the LRU
order; `Refresh` is `DELETE /cache`, which invalidates the Power BI token and
the Fabric token if there is one. What the provider holds is a version number,
0 while access is denied. Four history variables (`floor`, `shown`,
`refreshed`, `overtaken`) record what a caller had been promised when it called. A
fifth, `since`, records for each entry which others were read or stored after it; it
is updated by what calls do, never by looking at the LRU list, so that
`LiveEntriesStay` can say of an eviction that it took the entry used longest ago.

### ScanJobs

`Construct`, `Recover` and `ConstructFails` build the manager; `Submit`,
`CreateRow` and `Spawn` are the request; `Acquire` to `MarkFailed` are
`_execute`. `Update` is `update_job`: it writes, then reads back, and may
raise before or after the write. `Crash` keeps the rows and loses the rest. The
status `"interrupted"` stands for a row with status `failed` and the error code
`SCAN_INTERRUPTED` that recovery gives it; a client sees them apart by that code. With two elements
in `Managers` two first requests may build a manager each. Properties that only
hold with one manager say so with `Alone`; the run with two managers shows what
remains.

### VersionedGraphs and LineageStore

`VersionedGraphs` is what the store promises to its callers: each graph has a
history that grows at its end, a save returns the version its content has there,
and a read is answered out of it, with the version asked for or, for the newest,
with one that misses no earlier save unless calls contend for the graph.
`LineageStore` implements it with rows and a cache; a call takes effect when its
transaction commits or when it finds its answer, and all else it does is hidden.

Each SQLite transaction and each `TTLCache` call is one action; `save` and `get`
are `Begin...`, then `Commit`, `Invalidate`, `CacheVersion`, `CacheLatest`, or
`Look`, `Read`, `Fill`, `Return`. `Expire` removes any entry at any time, which
covers the TTL and the LRU limit. `Crash` empties the cache and keeps the rows.
Contents are compared by equality, as the code compares hashes.
`QuietReadsAreCurrent` states exactly when a read of the latest version is current: when
no two calls on the graph have overlapped since its cache was empty. A reader
that took the newest row before a save and fills the cache after it makes later
reads stale for a TTL, and the history variable `raced` is how the property
leaves this out.

### CrossWorkspaceResolver

One request. A task per root; its recursion through `resolve_one` and
`upstream_model` is `stack[r]`, and the code's `chain` is the models on it but
the root's. `running` is the task that has not suspended, so everything between
two awaits runs without interruption, as on the event loop. `Load`, `Await`,
`KeepUnnamed`, `KeepUnresolved`, `KeepUnmatched`, `KeepSourceless`, `Replace` and
`KeepItem` are the cases of the loop; `Ask`, `Queue`, `ListingReturns`, `Locate`,
`LocateFails`, `Fetch`, `DefinitionReturns` and `DefinitionUnavailable` are `_load`;
`Unwind` is an exception that leaves the task through every frame that owes a
future, from a listing (`ListingRaises`, which also gives back its lock), a
definition or an awaited future.

The code keeps a hop without a warning in two cases: its endpoint names no
workspace or no model (`Unnamed`), or the upstream model has the table but no source
of it (`Bare`). `SilenceMeansComplete` therefore does not say that a silent answer
names only databases. It says that the sources reported are exactly the ends of the
table's hops (`EndsAt`): databases and the hops of these two kinds. The
module leaves out the provenance fields (`via_*`) of the answer; how a table is
matched (lineage tag, then name) is in `VisualSources`.

### DeepLineageWalk

One upstream trace. `walk` is the `_LineageWalk` object; its methods are
functions from a walk to a walk (`Query`, `Infer`, `Admit`, `AbsorbRow`,
`AbsorbSource`), and an action is one finished call taken from the set of
pending ones in any order. `world` is what Snowflake and the SQL of its objects
would say; `Rows` is the set of rows `GET_LINEAGE` returns and `Sources` what an
object's SQL names. `Absorbed` takes the rows up one by one, `First` by one of the
numberings in `Orders`, because Snowflake promises no order; any of the rows of
a call may be incomplete (`SNOWFLAKE_LINEAGE_ROW_INVALID`). Left out: object types,
process nodes and their queries, parent objects, the observed warning that
lineage was inferred (it reports no loss), and downstream traces, which mirror
the upstream ones without inference.

### MicrosoftSignIn

A session is an object and the key the store keeps it under, and the two part
when the key is deleted: `stored` is `_device_sessions`, `session[i]` the object,
which a background task still writes to. `ended` is the set of sessions a
logout, a replacement or their age has removed.

| Model | Code |
|---|---|
| `Start`, `PollFails`, `PollReturns`, `ValidationFails`, `Validated`, `TryFabric` | `start_authentication` and the steps of its task between awaits |
| `BuildAuthorizationUrl`, `Callback`, `CallbackRefused`, `Exchange`, `ExchangeFails`, `CompleteLogin` | the redirect login, its `state` popped once |
| `Authenticate`, `PrincipalSignsIn`, `NoPrincipalToken` | the service principal, which replaces the caller's previous session |
| `AskPowerBi`, `AskFabric`, `AskTooLate`, `PrincipalStatus`, `Logout` | the getters, which clear what has lapsed, the status routes and the logout |
| `TaskDies` | an exception that is no `AppException`: the session stays as it is |

A token is its expiry and whether its provider will accept it, which nobody
knows before asking; `ExpiresAt` has the floor of 60 s the code gives it (one
unit). `start_fabric_authentication`, a second device flow, is reached by no
route and is left out.

### FabricDefinitions

The POST that answers at once or starts an operation, the polling loop, the
result and the decoding of its parts, for the three services that do this
(`kind`). Time is in the module: `due` is what is left of a sleep or a call,
`remaining` of the wait. `CallExpires` is the client's timeout, `OperationEnds`
the provider's side, which may never come. `HandleProviderResponse` is the
mapping of a status to an error, and `TooLate` the test before a sleep. Its
specification is `FabricSpec`, and its other general names begin with `Fabric`
too, because one module proves things about it and `ProviderReadCache`.

### The readers

Each reader is a set of operators with the source's names, one per function
that decides something, over inputs cut to what the decisions look at (the
header of each module says how a token, a line or an expression is
represented). A `...Cases` module enumerates a family of inputs and states what
the answers must agree with; `MCReaders` runs them all, one case per behaviour.
`Concatenation` holds the one helper they share.

| Modules | Code | Family | Compared with |
|---|---|---|---|
| `SnowflakeSql`; `SqlMeaning`, `SqlCases` | `domain/snowflake_sql.py` | every pairing of an inner and an outer query as subquery, alias or CTE, in views, renaming views, `INSERT`, `MERGE`, `UPDATE`, `CLONE`, `COPY`, external tables | the columns a query reads by its meaning: the queries are written from an abstract syntax whose reading `SqlMeaning` defines |
| `SnowflakeTransformations`; `TransformationCases` | `snowflake_transformation_service.py`, `snowflake_metadata_client.py` | two tables with every short history of statements; one object of every kind with every combination of failing reads | what is not shown was searched for and the failure said; what is inferred is a statement that writes the table |
| `SemanticModels`; `ModelCases` | `semantic_model_definition_parser.py`, `dax_dependency_service.py` | models written out as TMDL; measures, calculated columns and tables with every choice of references, comments and strings among them | the model that was written; the references of the code that is neither comment nor string, their closure and cycles |
| `ReportDefinitions`, `PhysicalSources`, `VisualSources`; `ReportCases` | the report, source and join services | field expressions of every form; one report over a model with a table, a link to another model, a calculated table and measures, under every answer of the providers | all pages, visuals and fields kept; the rows of a field are the base columns its expression is made of |
| `LineageGraph`, `LineageQueries`; `GraphCases` | graph, search, impact, validation, change and live-scan services | the graphs of the report family's models with reports and Snowflake dependencies | reachability and distance, pages that cover every match once, a live scan that loses only the gateways that failed |
| `PowerAiContext`, `Dossiers`; `DossierCases` | `ai/context/resolver.py`, `ai/tools/dossier_tools.py` | an object of each kind by each way to name it; one model under the answers of the providers | the object of that name; visuals that show it or what is computed from it; base columns under it; what is left out is said |

### PowerAi

`PowerAiAgents` is the fixed routing: keyword intent, the agent that gathers
evidence, the status it ends in. `PowerAi` is the request around it, one action
per stretch between awaits: `Ask`, `Resolved`, the rounds of the tool loop, the
gate (`Accepts`: claims cite evidence that exists), the fallback to the composed
answer, streaming with a client that leaves, and `RememberTurn`. What requests
share is `kept`, the turns of every conversation by token and identifier with
the cache's eviction and lapse, and `library`, the one-time import of the
provider library. Whatever a model writes is a choice: calls, claims, nothing,
or a failure.

## Runs

States are distinct states; times are of two workers.

| Run | Instance | Shows |
|---|---|---|
| `snowflake_sessions` | 2 sessions, 3 requests, 2 stores, clock of 1; 882 000 states | `NoCloseUnderTrace`, `ClosedOnce`, `NoLeak` (a connection saved too late excepted), `NeverRevived`, refinement of `ConnectionLifecycle`, and that retired connections get closed |
| `provider_read_cache` | 2 callers, 3 keys of 3 tokens (two of one user), 2 entries, TTL 0 or 1; 3.9 M states | single flight under failure and cancellation, monotonic reads, no remembered refusal, eviction only of the entry used longest ago |
| `scan_jobs` | 3 jobs, 2 managers, 1 slot, 1 crash; 662 000 states | rows and tasks agree and stay within the limit, successes have graphs, terminal is terminal, jobs settle |
| `lineage_store` | 1 graph, 2 contents, 2 versions, 3 threads; 340 000 states | the cache and what calls are given agree with the rows, quiet reads current, refinement of `VersionedGraphs` (whose histories only grow and repeat no version) |
| `cross_workspace_resolver` | 3 models in 10 worlds, every set of roots and of hidden models; 156 000 states | one fetch per model, sources are real, a silent answer reports exactly the ends of the hops, every acyclic request ends |
| `cross_workspace_resolver_cycle` | 2 models that refer to each other; fails | two tasks await each other |
| `deep_lineage_walk` | 8 objects, every subset of 8 edges and one larger graph, two orders of rows, two sets of limits; 490 000 states | limits hold, nothing is invented, findings stay, silence means the whole lineage |
| `deep_lineage_walk_inference` | one graph; fails | inferred edges may keep a longer distance |
| `sign_in` | 2 sessions, 1 redirect state, 2 handlers, clock of 3; 3.25 M states | ended sessions hand out nothing; tokens handed out are unexpired, in age and accepted |
| `definitions` | 2 requests, a wait of 4 s, calls of up to 2 s, pauses of 0, 1 and 3 s | the wait is bounded by the deadline and two calls; every request ends |
| `power_ai` | 2 requests of 2 users in one conversation, 2 tool rounds, 2 turns kept, 3 questions | the model's words rest on evidence, turns are kept in order and per user, the model is asked boundedly |
| `readers` | six families, 47 754 cases (95 508 states) | each reader against its meaning |

Why the bounds are enough.

- `snowflake_sessions`: a race on a connection needs a trace, a logout and a
  third request (replacement, expiry or shutdown) between them; two sessions
  are needed for replacement and for `close_all` to close several; two stores
  for requests that hold a retired one. One tick separates live from expired.
- `provider_read_cache`: single flight needs a leader and a joiner; three keys
  over two entries force evictions that have an order to get wrong; two tokens of one
  user and one of another separate refreshes; a key with three
  versions (denied, first, second) separates stale from current. A third caller
  would repeat the role of the joiner.
- `scan_jobs`: one slot and three jobs give a running, a waiting and an arriving
  job at once; one crash separates before from after, and its recovery is
  repeated by the second manager.
- `lineage_store`: two saves and a read overlap in every order; a third version
  would repeat what the second shows, and two contents suffice to alternate.
- `cross_workspace_resolver`: three models give a chain longer than
  `MaxDepth = 2`, a diamond, and cycles of length one to three; endpoints that name no
  model and tables without a source stand at the end of one hop and of two; two
  workspaces give two listings besides the tenant's.
- `deep_lineage_walk`: the graph is longer than two batches of depth 2 and has
  shortcuts across a batch boundary and cycles; one set of limits cuts it at
  every kind of limit, the other admits it entirely. The rows of a call are listed
  from the root's end on or from the far end on. The proofs cover every other order
  and size.
- `sign_in`: one session is signed out or replaced while another begins, two
  handlers overlap a background task, and the clock passes the age of a pending
  login (1), of a session (2) and the life of a token (2), before and after each
  other. The proofs cover every other size.
- `definitions`: requests do not share state; two of them check that one does
  not hold up the clock of the other. The pauses are none, one that fits several
  times and one that fits once; the bodies have one fault each.
- `power_ai`: two requests overlap in the one conversation, three questions
  overflow the two turns kept, two rounds separate the first, a repeated and the
  last; the four questions take the greeting, the refusal, the inventory and the
  object through the routing.
- `readers`: the families have one of each form the code distinguishes and the
  pairs of them that meet; nesting is at most two, because deeper text repeats
  the same step.

`CHECK_DEADLOCK FALSE` is set where the system stops by itself: a request or a
trace that has ended, jobs that have all finished, a case that is judged.

## Fairness

- `SnowflakeSessions`: weak fairness of the clock and of `Progress(r)`, what a
  request does once it has begun. Threads are scheduled by the OS and the
  driver returns or times out. No request is bound to arrive, which is why
  expiry alone closes nothing.
- `ScanJobs`: weak fairness of `Step(j)`. asyncio runs every ready task and
  `asyncio.Semaphore` wakes waiters in order. Submissions and crashes are not
  fair.
- `CrossWorkspaceResolver`: weak fairness of `Step(r)`. The loop runs ready
  tasks, and the HTTP client has timeouts.
- `FabricDefinitions`: weak fairness of the clock, of the poll after a sleep and
  of the client's timeout. Fabric owes no answer and no operation need end.
- The others state safety only. `ModelIsAskedBoundedly` is the safety form of the
  tool loop's end; the walk ends because a level never exceeds `maxDepth` and the
  number of queries never exceeds `maxQueries`.

## Proofs

`SnowflakeSessionsProofs` proves, for any sets of sessions and requests (the
requests finite), any age and any bounds:

| Theorem | States |
|---|---|
| `TypeCorrect` | the type invariant |
| `TracesKeepTheirConnection` | `NoCloseUnderTrace` |
| `ConnectionsAreClosedOnce` | `ClosedOnce` |
| `NoConnectionLeaks` | `NoLeak` |
| `RetiredIsFinal` | `NeverRevived` |
| `StoreImplementsPool` | refinement of `ConnectionLifecycle` |

Assumptions: the ones `SnowflakeSessions` declares, that is, `Requests` is
finite, `NoSession` is no session, `MaxAge` and `MaxStores` are positive and
`MaxTime` is a natural number. TLC evaluates them in every run of the module.

The argument. None of the properties is inductive: that a connection under a
trace is open says nothing about who may be about to close it. The inductive
invariant `IInv` follows a connection along its life and says in each part who
knows it: not yet saved, only by the request that opened it (`Fresh`,
`Unsaved`); in a store, open and in nobody's `closing` (`Stored`); retired, left
to a trace that will find `closeWhenIdle` (`Traced`) or to exactly one closing
request (`Closed`). `Counted` ties the number the code keeps to the set of
traces it stands for, by cardinality: it is what turns `active = 0` into "no
trace", and why `Requests` must be finite. `Prepared` says that a request has
what its next step needs. One lemma per action that changes the session state,
one for those that do not (`QuietStep`), and `NextInv` joins them. The action
property and the refinement are then proved step by step under `IInv`. `NoLeak`
follows from `Kept`, that an open connection has a store, a trace or a request, and
from a second invariant: what is left in a store that is no longer served was saved
late (`Visited`), because `CloseAll` empties the store it visits.

`MicrosoftSignInProofs` proves, for any sets of sessions, states and handlers, any
lifetimes, ages and clock:

| Theorem | States |
|---|---|
| `SignInTypes` | the type invariant |
| `EndedSessionsAreSilent` | `EndedIsFinal` |
| `TokensHandedOutAreGood` | `AnswersAreGood` |

Assumption: `SignInAssumption`, that ages, clock and lifetimes are natural
numbers. The argument: what a getter returns depends on the key being stored and
on the object under it, and neither property says anything of either while a task
or a handler is between two awaits. `Inv` adds what holds there. For the first,
an ended session was used once and has left the store for good (`EndedEntries`,
`UsedEntries`), so a task that still writes to it writes to an object no key leads
to, and no identifier is given twice. For the second, tokens the provider has not
accepted are never in an object of the device or redirect flow (`ProvenEntries`):
they are in the task until validated (`ProvenTasks`) or in a handler's draft
(`ProvenDrafts`), and only a device session's own task writes to it
(`DeviceTasks`). `NextInv` has one step per action.

`ProviderReadsProofs` proves, for any keys, tokens and callers, any
assignment of keys to tokens, any `ttl_seconds`, `max_entries`, clock and number of
versions:

| Theorem | States |
|---|---|
| `TypeCorrect` | the type invariant; entries are listed once and never exceed `MaxEntries` |
| `OneFetchPerKey` | `SingleFlight` |
| `ReadsOnlyAdvance` | `ReadsNeverGoBack` |
| `RefreshesTakeEffect` | `QuietRefreshTakesEffect` |
| `RefusalsPass` | `RefusalIsNotRemembered` |
| `LiveEntriesRemain` | `LiveEntriesStay` |

The properties speak of what a finished call was given; the invariant says where
that came from. `Entries`: a cached version is as new as all that was shown, and
as the last refresh unless a fetch overtook it. `Promises`: what was true of a key
when a call began still is. `Answers`: an answer not yet absorbed is good for its
leader, for everyone who joined it and for the cache, which is the step from one
fetch to many readers. `Fetches` ties `_fetches` to the tasks, so that nobody joins
a fetch that is over. The last theorem relates the LRU list to the history `since`:
`Ordered` says that what stands behind an entry in the list is exactly what was used
after it, so that the head, which is evicted, is the entry used longest ago
(`OldestIsLeastUsed`). It rests on what `Without` computes, a
recursive function over the positions of the list: `WithoutIsFiltered` says it by
induction over the numbers up to the length, and the induction rule itself follows
from `NatLessThanWellFounded`.

`ScanJobsProofs` proves, for any finite set of jobs, any managers and concurrency
and any number of crashes:

| Theorem | States |
|---|---|
| `TypeCorrect` | the type invariant |
| `SuccessIsReal` | `SuccessHasGraph` |
| `ShownJobsLive` | `ShownJobsAreAlive` |
| `TasksAgree` | `TasksMatchRows` |
| `TerminalStays` | `TerminalIsFinal` |

`SavedFirst` puts the graph before the success. `Agree` relates every place in
`_execute` to the row it goes with, as long as at most one manager is ready
(`OneReady`): that no manager but one came out of its constructor survives a
second constructor that fails, which `Alone`, the condition in the properties,
does not. `Bounded` counts the holders of a manager's slots; it is by cardinality,
and why `Jobs` is finite.

`LineageStoreProofs` proves, for any graphs, contents, threads and number of
versions:

| Theorem | States |
|---|---|
| `TypeCorrect` | the type invariant |
| `VersionsDiffer` | `NoRepeatedVersion` |
| `CacheIsTrue` | `CacheMatchesRows` |
| `QuietReads` | `QuietReadsAreCurrent` |
| `StoreKeepsPromise` | refinement of `VersionedGraphs` (`PromiseIsKept`) |

`Cached` and `InHand` say that what is cached, and what a thread carries between two
steps, is in the rows under the version it claims. `Quiet` is about a graph that has
not raced: one call works on it, and the newest cached version, or the one about to
be cached, is not older than what a save returned (`Acked`). For the refinement,
`Stage` maps the places of a thread to what its caller can tell of them:
`PromiseCommit` and `PromiseAnswer` are the two steps that take effect, and `Hidden`
is every other. `NoRepeatedVersion` is part of the invariant and no property of a
run: the refinement says more.

`ProviderReadsProofs` also proves, of `FabricDefinitions`, `FabricTypeCorrect` and
`WaitEnds` (`WaitIsBounded`) for any requests, limits, pauses and payloads. `InTime` says what is left of the wait:
it covers a sleep under way, and is overrun by at most the time already spent in
the poll, and then in the fetch of the result. `TimesAssumption` says that the
times are natural numbers and the pauses integers, as `max(1, ...)` needs.

`CrossWorkspaceResolverProofs` proves, for any models and worlds, cyclic or not, any
roots and any depth limit:

| Theorem | States |
|---|---|
| `TypeCorrect` | the type invariant |
| `FetchedAtMostOnce` | `FetchedOnce` |
| `ReportsAreReal` | `SourcesAreReal` |
| `SilenceIsComplete` | `SilenceMeansComplete` |

What a table comes from is defined by reachability (`SourcesFrom`, `ModelsFrom`:
the least sets closed under the hops), not by the recursion of the code, and
transitivity of those sets is what carries an answer from an upstream model to the
frame that waits for it. `Shape` is the discipline of the stacks. `Once`: as long as
nothing raises, each pending future is owed by exactly one frame, which has not yet
asked; a task cannot see this from its own stack, so the invariant speaks of all
stacks at once. `Path`: a frame is upstream of those below it, so in an acyclic
tenant the chain cuts nothing. `Known`: what a frame has found at the sources it
has passed, what a future holds and what a task returned is real and, while there
is no warning, exactly the ends (`Leaves`) of the hops. `Covers`, that every table with a
source is given one, tells a table without a source from one the answer has lost.

`PowerAiProofs` proves, for any requests, tokens, conversations, questions, model
replies and limits:

| Theorem | States |
|---|---|
| `TypeCorrect` | the type invariant |
| `AnswersAreGrounded` | `ModelSpeaksFromEvidence` |
| `NoTurnIsMissed` | `TurnsAreKept` |
| `ModelIsSpared` | `ModelIsAskedBoundedly` |

`StoreOK` describes the whole conversation store by two counters, the turns a
conversation had and those it lost: each entry holds exactly `Recent`, the turns
since the loss up to the limit, and a conversation without an entry has lost all.
Every operation of the store (`Touched`, `Lapse`, `RememberTurn` with its eviction)
is shown to keep it, whatever turns another request added since the history was
read. `RequestOK` bounds the calls by the place in the loop (`AskedLittle`), and
says that a request only composes where the fixed path has an answer, which is what
a failing model falls back to. `InputsAssumption` says that the contexts of questions
and the calls of models are of their types.

`DeepLineageWalkProofs` proves, for any finite set of objects, any lineage, cyclic or
not, any limits, any depth of a call and any orders of rows:

| Theorem | States |
|---|---|
| `TypeCorrect` | the type invariant |
| `NothingIsInvented` | `NothingInvented` |
| `FindingsRemain` | `FindingsStay` |
| `SilenceIsWhole` | `SilenceMeansWhole` |

Calls finish in any order, any of them may fail and any row may be incomplete. The
proof has four layers.

1. Distances. `StepsTo` is a recursion over numbers; that it has the solution one
   expects follows from `NatLessThanWellFounded` (`RecursionExists`, `StepsExist`).
   `StepsAre` reduces it to four facts (`AreSteps`), which give the triangle
   inequality (`Triangle`). Nothing after that looks at the recursion.
2. Bookkeeping. Each method of the walk gives a walk that `Extends` the one it was
   given and is still sound (`SoundWalks`: within the limits, and nothing nearer than
   it is). A row that has been absorbed is `Took`: its edge, its far end and, at a
   boundary, the next call have a distance no greater than the row's, unless the walk
   says that it was truncated.
3. Rows. `Absorbed` removes one row after the other until none is left
   (`ByOneRow`), so in any order a row is either taken up or said to be lost.
4. The invariant `IInv`. `Queried`: a call is made from a level the object's distance
   allows. `Complete`: as long as the walk is silent, each object asked about has its
   call pending at the *lowest* level it was asked from, or everything within reach of
   that call is taken up. This is the docstring's "queried again from the lower
   level", and the reason why an answer to an earlier call from a higher level may
   be absorbed late without harm.

`SilenceIsWhole` needs more than the invariant: that every object within `maxDepth`
was in sight of a call made low enough (`Seen`), by induction over its distance from
the root. An object at the edge of one call's sight was asked about from there, and so
is at the beginning of the next one's. With inference a walk still invents nothing
and loses nothing, and `NothingIsInvented` and `FindingsRemain` cover that;
`SilenceMeansWhole` leaves inference out because it does not hold there (finding 2
below).

All assumptions are the named `ASSUME`s of the module proved about: constants are of
their types, limits are natural numbers (positive where the code's settings are), and
a name that stands for nothing is not one of the things. TLC evaluates them in every
run.

Only model-checked: the liveness properties, which need fairness, and the readers,
whose operators recurse over text and trees and are compared with recursive
definitions of its meaning. The prover does not unfold the recursion inside the
library's operators on sequences (`SelectSeq`, `FoldLeft`), so the modules proved
about use `RemoveAt`, sets or a recursive function of their own where a proof must
know what is computed.

## Findings

Two statements of the repository that its code does not keep have a run in which
TLC finds the counterexample; `PROJECT.json` quotes the lines.

1. The comment in `upstream_model` that a cycle does not deadlock. With two
   selected models of one cycle, each task awaits the future the other owes
   (`cross_workspace_resolver_cycle`).
2. The docstring of `_LineageWalk` that every distance is the shortest one.
   Inference from an object's SQL is not repeated from a lower level
   (`deep_lineage_walk_inference`).

Five more are stated in their modules and have no run. TLC reports each violated
when it is put into the configuration named here in place of the properties there,
with the constants given:

| Property | Configuration | What the code does |
|---|---|---|
| `ExpiredEventuallyClosed` | `SnowflakeSessions.cfg`, one session, one request, `MaxTime = 2`, `MaxStores = 1` | README.md:1049-1050 says expiry closes the connection; the store looks at `expires_at` only when a request names the session (`snowflake_session_store.py:79`) |
| `ShutdownClosesAll` | `SnowflakeSessions.cfg` | README.md:1049-1050 says graceful shutdown closes the connection; a sign-in that took the store before `close_all` saves its connection there after it (`snowflake_session_store.py:56-71`), and no one closes it |
| `RefreshTakesEffect` | `MCProviderReadCache.cfg` | `api/v1/cache.py:56-58` says a refresh leaves no stale definition; a fetch under way at the refresh is joined by later calls and cached for a TTL (`provider_read_cache.py:86`) |
| `InterruptedMeansStopped` | `ScanJobs.cfg`, one job, `MaxCrashes = 0` | README.md:1614 lists a singleton manager; two overlapping first requests build two, and the second one's recovery fails the first one's live job (`api/dependencies/lineage.py:26`) |
| `RefusalsNeedNoModel` | `MCPowerAi.cfg` | README.md:1406-1408 says every status but `answered` means the model was never called; the tool loop runs before the evidence is judged (`ai_service.py:333-364`), so a refusal may follow a call |

## Limits of the models

What the readers' families leave out because the code reads it differently from
its meaning, or because it has a bound the families do not reach. Each is a place
where the properties of `readers` would fail on a wider family.

- TMDL: the `lineageTag` of a hierarchy before its first level is taken for the
  table's (`semantic_model_definition_parser.py:331-343`); `TaggedCases` of
  `ModelCases` are the models it misreads.
- DAX: a `--` comment is read as code, an unquoted table name takes in preceding
  words of its line, and a table's name as a word of a longer quoted name gives an
  edge. The family has all three; `NamedWithin` names the readings that are allowed
  to be wrong.
- M: a source's identifier omits its native query (`physical_source_service.py:149`,
  `453-466`), so two queries of one database share the first one's text; two
  connectors and a native query in one partition are combined pairwise; only the
  first navigation step is read.
- Column lists of native queries: an alias with spaces invents a column, an
  unaliased `x + y` reads `x` only, and with a `JOIN` every column is given every
  table.
- PBIR: keys beside a known wrapper of a field are dropped.
- Snowflake: of two objects of one name and different domains the source is
  linked to the last; a history search cut at its limit ends silently.
- Cross-workspace resolver: a hop whose endpoint names no workspace or no model
  (`cross_workspace_source_resolver.py:240-243`), and a hop to an upstream table
  without a source (276-278), stay in the answer without a warning. The repository
  promises warnings for upstream models that are not visible, missing or unreadable
  (README.md:690-698), so `SilenceMeansComplete` counts these hops as ends and no
  finding is made of them.
- Graph and dossier answer differently in two places: the graph has no edge from
  a column to a hierarchy level and so never reaches visuals through one, while
  the dossier does; the dossier misses visuals that show a calculated table's
  columns, which the graph reaches. `Truncated` of an impact search may be set by an
  edge to a missing node.
- Power AI: a failed listing of another workspace is skipped silently
  (`ai/context/resolver.py:706-708`), and a workspace's dossier may deny what a
  failed listing hid; a report whose matching raised is counted as checked; the
  sources of a report may include tables of which only calculated columns are
  used; the tool loop does not ask whether a provider is configured; the import
  of the provider library holds up the event loop.
- Deep walk: object types, process nodes and their queries, parent objects,
  downstream traces. A root call that raises leaves worker threads on the
  connection (`snowflake_deep_lineage_service.py:206-210`): the walk and the
  session store are not composed.

## What is not modelled

- Cross-model lineage, the explorer, estate discovery and app access: in the plan
  above. They join listings and hold no state beyond their request.
- XMLA rowsets and their reconciliation with definitions: decoding of an external
  engine's rows without control of interest.
- HTTP clients beyond their timeout and error mapping (`FabricDefinitions`): one
  call is an answer or a failure in the models that use it.
- Middleware, metrics, logging, schemas, configuration: no state that other
  components depend on, except limits, which are constants here.
- Wording: what an answer, a warning or a label says, and the prompts.
- In the modelled parts: credentials and identities, scopes, `TTLCache.clear`,
  listing of versions and the health check, provenance fields, and the
  `created_new_version` flag of a saved graph.

## Running

`tlc -config MCLineageStore.cfg MCLineageStore` checks a run. `PROJECT.json` names
the module and the configuration of each; `SnowflakeSessions` and `ScanJobs`, which
need no definitions for TLC, are run directly. `tlapm` of each `...Proofs.tla` checks
the proofs about the module it is named for, `ProviderReadsProofs` those about
`ProviderReadCache` and `FabricDefinitions`.

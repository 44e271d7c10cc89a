# A TLA+ model of the Jarvis AI OS backend

The backend under `src/backend/app` is a FastAPI service.  Every HTTP request is a coroutine with a SQLAlchemy session of
its own (`db/session.py`, `expire_on_commit=False`, PostgreSQL's READ COMMITTED); requests meet only in PostgreSQL and in
the ChromaDB server.  Between two `await`s any other request may run, and a process may stop.  This directory models the
parts where that matters and the pure algorithms they rest on, checks them with TLC on small instances, and proves the
central facts with TLAPS for every instance.  Paths below are relative to `src/backend/app` unless they start with `src/`.

Contents: [inventory](#inventory) · [modules](#modules-and-the-code-they-model) · [runs](#runs-and-what-they-show) ·
[bounds](#bounds) · [fairness](#fairness-and-deadlock) · [proofs](#proofs) · [divergences](#divergences) ·
[not modelled](#what-is-not-modelled) · [plan](#plan)

## Inventory

| Part | State it keeps | Operations | Hard behaviour | What makes it correct |
|---|---|---|---|---|
| Agent run orchestration, `domains/agents/services.py`, `repository.py`, `policies.py` | `agent_runs`, `agent_events`, `audit_logs` rows; an in-memory copy per request | create_and_execute, cancel | a dozen transactions per run, racing cancellations, unique event numbers read and inserted in two statements, an error handler that writes after a rollback | row, log, audit and answers agree; the log has no gap; statuses follow the table |
| Agent records, same files | `agent_definitions` rows; a run's steps, events, artifacts | definitions: create, update, archive; runs: create, update_status, append_step, append_event, append_artifact, delete (no route calls the latter six) | checks on copies, two creations of one key, event numbers of the caller's choice, a delete that meets a writer | status and count follow the log; what gets past a limit, and what meets a constraint of the database, has a cause |
| Plan executor, `executor.py` | `_active` map, one lifecycle per call: status, steps, events | execute, cancel, state | cancellation at each `sleep(0)`, an event limit that can be hit anywhere | steps follow the plan, a result is final and logged |
| Agent runtime, `runtime.py`, `factory.py` | `_active` map, one lifecycle per call | execute, cancel | a backend that hangs, raises, answers late or too much | a cancelled call never succeeds, retry information matches |
| Context assembly, planner, tool registry, memory and knowledge providers, `context.py`, `planner.py`, `tools.py`, `memory.py`, `knowledge.py` | provider and tool registries; otherwise none | build_context, merge, plan, register, resolve | registrations and memory edits between the providers' awaits, limits that count differently or are set in two places | highest rank wins, a refusal has a cause, planner and executor refuse a plan of the planner's for its length only |
| Documents and retrieval, `domains/documents` | `documents`, `document_chunks` rows and Chroma vectors | upload, delete, list, search, query | two stores without a common transaction | what is answered is live, deleted means gone |
| Parsing and chunking, `domains/documents/parser.py`, `chunking.py` | none | parse, normalize, chunk | breaks close to the start of a window, overlaps close to its length | no character is lost, the loop ends |
| Memory, `domains/memory` | `memory_items`, `memory_references`, `memory_events` rows | create, update, delete, recall, reinforce, list, search | read-modify-write without a lock, expiry | counters account for the events |
| Identity, `domains/identity`, `api/routes/auth.py` | `users`, `sessions` rows; cookies at the client | register, login, refresh, logout, current user | a refresh racing another refresh or a logout, answers that replace a browser's cookies in any order, two unique indexes | one account per email, one current refresh token per session, a logout is final, a browser loses a usable session for a cause |
| Workspaces, `domains/workspaces` | in-memory map of integration bindings behind an `asyncio.Lock` | bind, update, enable, disable, delete, prepare a request | the provider, the credential and the binding change under one another, a service without a registry checks no provider | one active binding per workspace and provider, coherent with its credential |
| Integrations, `integrations/` | provider registry; immutable contracts | register, unregister, the GitHub provider's calls | resolvers between check and use, HTTP failures mapped to errors | a refusal has a cause, an answer is a response |
| Governance audit, `domains/governance` | `audit_logs` rows, in the caller's transaction | record_audit_event | none of its own | as many rows as changes (`AgentRuns` counts them) |
| Configuration, logging, health, migrations, front end, `agents/` scaffold | none that changes | start-up, pure I/O | none | not modelled |

How they interact.  Routes call services directly.  `create_and_execute` calls the context assembler, the planner, the
executor and the runtime in that order, and records each answer in a transaction of its own.  `api/dependencies.py` builds
an executor and a runtime for every request (lines 64 and 72), so their maps of active runs are never shared between
requests: the `cancel` route reaches an executor and a runtime that know no run.  The assembler and its registry are built
per request too, so what `ContextPlanning` shows of registrations under way holds for the classes' interface, which the
application does not use that way yet.  The audit service adds its row to the transaction of its caller.  The user a
request acts for is loaded in the same session the handler writes with (`api/dependencies.py:25`), which matters whenever a
handler rolls back and goes on.

## Modules and the code they model

| Module | Models | Unit of interleaving |
|---|---|---|
| `RunLifecycle` | abstract: a run's status follows the table of `policies.py` | a change of the status |
| `TokenLedger` | abstract: an email has one account, a session one current token, nothing is given out twice or un-revoked | a change of a session |
| `ExclusiveSlot` | abstract: a slot has at most one holder, and is free between two | taking, leaving |
| `AgentRuns` | one run: the request that executes it and the requests that cancel it; implements `RunLifecycle` when alone | one database statement |
| `AgentRecords` | definitions, and a run's rows outside create_and_execute, under any requests | one flush or commit |
| `PlanExecutor` | one `DeterministicExecutor`, several calls of execute | the code between two `sleep(0)` |
| `AgentRuntime` | one `LifecycleAgentRuntime`, several calls of execute | the code before and after the backend's await |
| `ContextPlanning` | assembler, planner and the executor's validation, with memories stored, edited and deleted and providers and tools registered meanwhile | the code between two awaits of a provider |
| `DocumentStore` | the documents of a user in both stores: upload, delete, search | one call of a store |
| `Chunking` | `_normalize_text` and `TextChunker.chunk` | one turn of the loop |
| `MemoryItems` | one memory: create, recall, reinforce, update, delete, expiry | one database statement that waits |
| `AuthSessions` | accounts, sessions, tokens and the browsers' cookies: register, login, refresh, logout, expiry; implements `TokenLedger` | one database statement that waits |
| `WorkspaceBindings` | bindings, provider registry, calls of GitHub; implements `ExclusiveSlot` | one service method; the parts of a call between its awaits |
| `RunProofs` (of `AgentRuns` and `AgentRuntime`), `AgentRecordsProofs`, `PlanExecutorProofs`, `ContextPlanningProofs`, `DocumentProofs` (of `DocumentStore` and `Chunking`), `MemoryItemsProofs`, `AuthSessionsProofs`, `WorkspaceBindingsProofs` | the theorems and their proofs | |
| `MC...` | the small constants and the symmetry sets for TLC | |

Conventions shared by the modules:

* `stage` (or `pc`) says where a request's handler is; `"post"`, `"new"` or `"idle"` is a request nobody has sent yet.  A
  request ends with an answer, is refused, raises, or is *aborted* or *dropped* (its task or process is gone).  `Abort` is
  enabled between any two steps: the session's end rolls its transaction back.
* A copy a handler has read is a variable of its own (`view`, `copy`, `subject`, `token`); nothing refreshes it, except
  where the code reads again.  A request that has ended keeps no copy.
* What a transaction writes becomes visible in one step, `Commit`.  What it *waits for* before that is modelled: row locks,
  and uncommitted rows with the same unique key.
* Some operators are marked `Mutant:` and used nowhere.  Each stands beside the definition it is a damaged form of: a
  plausible bug (a dropped guard, a whole row written instead of the changed columns) that the property it is listed with
  in `PROJECT.json` must notice.
* A property with several named parts (`RecordsAgree`, `ExecutionsAreSound`, ...) is their conjunction; the parts have
  their own comments, and the proofs establish them one by one.

### AgentRuns

`Create` is lines 330-357 of `services.py`: the run, event 0 and an audit row in one commit.  After it the owner goes
through `NextStage`: four transitions (`validate`, `queue`, `start`, `finish`), each one `_transition_run`, and four stages
that append events (`context`, `plan`, `execute`, `run`).  A transaction is `BeginTransition` or `BeginNotes`, then
`UpdateRow` (takes the row lock), `SelectSequence` (`next_event_sequence`), `InsertEvent` (waits for a foreign uncommitted
row with the number, `InsertConflicts` on a committed one), `Commit`.  A cancelling request is `CancelReads` and one such
transaction.  `RefuseTransition` is the `AgentLifecycleError` of a status that does not allow the change.

Failures have three ways out.  `StageRaises`: a collaborator raised with no open transaction, and `_fail_run_after_error`
re-reads the run (`Recover`) and moves it to `failed`.  `ContextRaisesInTransaction`: the exception arrives while the
session has a transaction; `db.rollback()` (line 485) expires the ORM objects, `run.id` (line 494) raises again and the
handler is lost.  `InsertConflicts`: likewise.  Two paths of the code are never taken: `_fail_run_after_error` never finds
the run still `requested` (until the first transition commits, nothing fails without a transaction open, and then the
handler is lost) and never finds it `queued`, a status from which the table allows no `failed` (no collaborator is called
between the commits of `queued` and `running`).

### AgentRecords

Requests of every kind share one shape: read and check (`Read` or `Refuse`), flush, perhaps number and insert an event,
commit.  What the model makes visible:

* Only COMMIT stands in a `try` (`services.py:162-169`): an IntegrityError the flush raises escapes the service, answer
  `"integrity"`, although the code has a handler that would turn it into a conflict.
* An archived definition keeps its key.  The UPDATE names only columns that differ from the copy, so a rename that has
  read a definition before it was archived does not bring it back; `ArchivesAreUndoneOnPurpose` rests on that.
* `update_status` writes the retry count of its copy plus one, so two updates can count as one retry
  (`RowAgreesWithLog` says how far the count may be off), and the limits of steps and events are looked at before the
  write, so racers pass them.  A status change adds its event without looking at the event limit (`services.py:626`), so
  it passes that one alone.
* `append_step` and `append_event` insert the caller's index or number without looking for it, so a caller alone can meet
  the unique index; a null key or status reaches the NOT NULL column.  `ExcessAndErrorsHaveACause` names for each limit that
  is passed and each error of the database who can meet it, and which of them take a race.
* `append_event` takes the caller's number.  Gaps may result, but a status event always gets the next number, which is
  why the last numbered status event is still the run's status.

### PlanExecutor and AgentRuntime

A lifecycle record is the lifecycle object of one call; an operator on it is a method, and the field `raised` is the
exception in flight: a record that carries one passes through later methods unchanged, which is the exception propagating.
`Leave` is the `except`/`finally` of execute.  The executor awaits only `sleep(0)` before and after each step; the runtime
awaits only the backend.  `_cancel_requested` and `context.cancellation_event` of the runtime are one flag, because only
`cancel` sets them, both at once.  A task cancelled while it awaits the backend ends as a `cancelled` result, as in the
code; a task dropped while it sleeps in the executor is `Drop`.

### ContextPlanning

`build_context` asks the providers that were registered when it began, in rank order; only some of them suspend, the
memory provider twice (its page and its total are two SELECTs).  `GoOn` is the loop between two suspensions, `Merge` what
follows the last; `Plan` and `Execute` wait for nothing.  A section is its size and the keys it has; the payload lies under
one of the keys and is counted twice in the merged size (in the section and in the data), unless a higher section has the
key.  Read closely, the code has these edges:

* A delete between the two SELECTs, or an edit after which a listed memory no longer passes the search's filters
  (`domains/memory/repository.py:212-249`), leaves a total below the page, which `MemoryContextProvider` takes for a
  corrupted answer and fails the run (`domains/memory/repository.py:155-157`, error `"memory_total"`).
* How long a plan may be is said in three places that no validator relates: the planner's `max_plan_steps`
  (`planner.py:41`, `MaxPlanSteps`, error `"planner_limit"`), the class `ExecutionPlan` itself (`planner.py:141`,
  `LongestPlan`, `"plan_steps"`), and the executor's `max_steps` (`executor.py:99`, `MaxSteps`, `"executor_limit"`).  With
  the defaults they are equal and above the requested tools' limit; the model keeps them apart.
* The planner compares the same limit as the assembler, but counts more (`"planner_limit"` for a context the assembler has
  just accepted).
* A provider's name that is no identifier is accepted by the registry, and then `PlanMetadata` raises a `ValidationError`
  nobody translates (`"plan_metadata"`); a malformed tool id passes the route's payload and raises in `PlanningRequest`
  (`"planning_request"`).
* The shipped planner has an empty `ToolRegistry`, so a run that requests any tool fails; a task of more than 2,000
  characters with no query of its own is too long for the knowledge provider although the route takes 20,000; ten long
  memories exceed the section limit of 64,000 bytes and fail every run of that user.

### DocumentStore

`rows` is PostgreSQL, `vectors` is ChromaDB.  An upload inserts rows, upserts vectors, commits, answers; a delete reads,
erases vectors, soft-deletes the row, commits; a search asks ChromaDB and then hydrates from PostgreSQL (`forgotten` and `due`
only record what the stores held when it asked).  A call that
reports a failure may have been carried out (`Perhaps`).  The handler of a failed upload does not erase the vectors: its
rollback expires `current_user`, whose `id` is an argument of the erasing call (`services.py:212-217`).

### Chunking

A text is a sequence over five classes of characters (letters, full stops, blanks, newlines, and tabs for the white space that
only `strip()` sees), all that `_normalize_text` and `_find_natural_break` tell apart; a
chunk is the set of positions its `strip()` leaves.  `NaturalBreaks` is the best separator's last place in the later part
of the window, as a set because it is one place only by an argument.  `MinChunkSize` stands for the 200 of the constructor.

### MemoryItems

`Edited` is the copy after the handler's assignments, `Written` the row after the UPDATE, which names only the columns the
copy has changed.  A recall is a reinforcement by one.  `replace_references` deletes what its statement sees, so `seen`
is kept from `FindRefs` to the commit.

### AuthSessions

Every new session first inserts the unique `refresh_token_jti` `"pending"` (`service.py:204`) and replaces it before the
commit, so concurrent registrations and logins wait for each other there.  `Rotate` writes the columns refresh has changed
(hash, jti, expiry) and leaves `revoked_at` alone.  `logout` with a token that is no longer current does nothing and
answers 200.  An access token only reads, so it has no action; `Usable` is what it checks.

`jar` is the refresh token in each browser's cookies.  A refresh or a logout brings the one that is there when it is sent
(`Send`); the answer to a registration, a login or a refresh replaces it (`Answer`) and the answer to a logout removes it,
revoked or not (`ClearCookies`, `api/routes/auth.py:101`), whatever the browser has been given in the meantime.  An answer
may be lost after its commit (stage `"lost"`).  A refused refresh leaves the cookies alone: FastAPI makes the 401 from the
exception, so what `clear_auth_cookies` did to the route's own response (`api/routes/auth.py:82`) goes nowhere.

A usable session whose current token is in no jar and in no answer under way is *stranded*: nobody can refresh it or log it
out.  `StrandedSessionsHaveACause` lists how that comes about: the answer with the token is lost, the browser is given
another session, an older refresh answers after it, or a logout does that was sent before the token came.

### WorkspaceBindings

No method of the repository awaits while it holds its lock, so the lock is always free and a service method is one action.
A call of GitHub is several, from the binding it is prepared from to the answer, and the registry, the bindings and the
clock move between them.  The code's edges:

* The service's registry is optional and by default absent (`workspaces/services.py:36-42`, `guided`): then `bind`,
  `update`, `enable` and `prepare` skip whatever they would ask of a provider (lines 49, 160, 227, 256), and only the
  provider's own check at the call is left.
* What a provider requires is fixed for an object, not for an id: another object may be registered under the id (`Offers`),
  and the bindings keep the scopes they have.
* `is_usable` looks at the status of the binding and at the stored credential's, which was active when it was given and is
  never refreshed, and not at the expiry; only the provider's own check at the call does.  That check comes before the
  credential resolvers are awaited (`github/provider.py:126-133`) and is not repeated: a request can go out with a credential
  that has expired meanwhile, or for a provider that has been unregistered.
* `update_binding` checks a credential and scopes it is given, and no status: it can make a binding active whose provider
  is disabled or whose credential has expired.  Such a binding occupies the slot but makes no call.
* A credential without any owner crashes `bind_integration` (`workspaces/services.py:77`) and is accepted by an update.
* The provider awaits the credential resolvers and ignores what they say (`github/provider.py:128`).
* An error status of GitHub with a message that is blank or no text makes `IntegrationErrorInfo` raise inside the error
  handler, so the call ends in an exception instead of a response; on a 403, whose message is searched for a rate limit
  first, only the blank one does.

## Runs and what they show

| Run | Instance | Shows |
|---|---|---|
| `agent_runs_races` | owner and two cancellations, one event per result; about 135,000 states | the log's numbers are unique, without gap, and become visible in order (`SequencesAreExact`); row, log and audit agree (`RecordsAgree`); an answer can be relied on (`AnswersAreTrue`); an illegal status change is only ever written from a stale copy (`OnlyStaleCopiesLeaveTheTable`); no request waits for ever (`EveryRequestEnds`) |
| `agent_runs_solo` | owner alone, up to three events per result | without a second writer `AgentRuns` implements `RunLifecycle` (`FollowsLifecycle`) |
| `agent_records_requests` | three requests of any kind on two definitions and a run; 620,416 states | status and retry count follow the log (`RowAgreesWithLog`); what gets past a limit or meets a constraint has a cause (`ExcessAndErrorsHaveACause`); an archived definition comes back only when asked to (`ArchivesAreUndoneOnPurpose`) |
| `plan_executor_calls` | three calls, two for one run, plans of up to two steps, limit of seven events; 49,400 states | one coordinator per run, an acknowledged cancellation is in the result, steps are a prefix of the plan, results are logged, a failure hides only behind a full log (`ExecutionsAreSound`); no step starts after a cancellation (`NoStepAfterCancel`); executions end (`ExecutionEnds`) |
| `agent_runtime_calls` | three calls, two for one run, limit of six events; 6,783 states | one executing call per run, cancelled calls never succeed, retry information matches the status, an attempt goes without a result only when the backend has filled the log (`AttemptsAreSound`) |
| `context_planning_races` | up to six providers, five sections, requests of every size around the limits, four limits on a plan's length; 553,056 states | a key is spoken for by the section of highest rank (`HighestRankSpeaks`); each refusal a caller cannot foresee has its cause in a race, in the planner's overhead or in limits that differ (`RefusalsHaveACause`); the planner's plans are refused for nothing but their length, and keep the order asked for (`PlansAreExecutable`) |
| `document_store_races` | two uploads, two deletes, one search, two chunks each; 186,034 states | what the two stores may disagree about (`StoresDifferOnlyUnanswered`); what never gets out, and what a search does not miss unless its places are used up (`AnswersHold`) |
| `chunking_texts` | every text of up to eight characters, every overlap the constructor accepts and the first it refuses on either side; 931,555 states | nothing of a text is lost (`NothingIsSkipped`), every window starts further on and, while the overlap is no longer than the least break, ends further on (`WindowsAdvance`) |
| `memory_items_edits` | two updates, a recall, a reinforcement and a delete; about 4.0 million states | references are stored whole and one update alone never loses the default expiry (`EditsAreWhole`); two additions to the count at once may lose one, and never count too much (`CountIsWithinEvents`); a delete is final (`DeletedIsFinal`) |
| `auth_sessions_requests` | two emails, two registrations, a login, two refreshes and a logout, all but the second registration from one browser; 707,348 states | accounts, tokens and revocations follow `TokenLedger` (`KeepsTheLedger`); a browser is left without the token of a usable session only for the causes named (`StrandedSessionsHaveACause`); nobody waits for ever for the pending key, an email or a user row (`EveryRequestEnds`) |
| `workspace_bindings_calls` | a service with a registry or without, two bindings, two workspaces, two providers, one call at a time; 209,950 states | one active binding per workspace and provider, free in between (`SlotsAreExclusive`); bindings agree with their provider and credential (`BindingsAreCoherent`); refusals and exceptions have a cause (`ErrorsHaveACause`) |
| `agent_runs_cancel_finding` | owner, one cancellation | an acknowledged cancellation is overwritten |

The last is expected to end in a counterexample; see [divergences](#divergences).

## Bounds

* `MaxNotes` (events in an executor or runtime result): 1 with cancellations, 3 alone.  Two events in one transaction
  differ from one only in a second SELECT and INSERT; the proofs cover every number.
* Two cancellations: one racing the owner, and one racing the other cancellation for the lock and the number.  Every pair
  of writers of the code is then present.
* Records: three requests (a check, an overtaking write, and a third that undoes or deletes), two definitions and two keys
  for a swap, `MaxSteps = 1`, `MaxEvents = 2`, so that the limits are met by the second and the third request;
  `Sequences = {2}` (the numbers callers choose) leaves a gap behind event 0,
  `Indexes = {0, 1}` lets two steps collide or not.
* Executor: with `MaxEvents = 7` and plans of up to two steps the limit is met in the middle of the longest plans, by the
  last event of others, and not at all by short ones; the default limits (64 steps, 256 events) are never met by a plan that
  validates.  `DeniedTypes = {"instruction"}` makes some plans fail on the policies.
* Runtime: `MaxEvents = 6` is four of the lifecycle's own events and two of the backend's; backends return 0 to 7.
* Context: sizes 0 to 2 against a section limit of 1 and a total of 4, an overhead of 1, query lengths 1 and 2 against a
  limit of 1: each is met exactly and passed by one.  The limits on a plan's length are all different, `MaxSteps = 1`,
  `MaxPlanSteps = 2`, `LongestPlan = 3`, `MaxRequested = 4`, and the lists asked for (`RequestedLists`) have up to five of the
  tools t1 to t5, or one malformed id; `Inventories` are registries that have all they ask for, lack one, or have one
  disabled, with room for one more tool (`MaxTools = 4`).  Two memories with one on a page: a total may be right, below the page, or
  right again for another memory.  `Meanwhile` stops when the planning has ended, since nothing is read afterwards.
* Documents: two chunks distinguish "some" from "all" vectors, `TopK = 3` is below the four vectors there can be.  The
  proofs cover any number of requests and chunks.
* Chunking: `ChunkSize = MinChunkSize = 5`, texts of up to eight characters: two to four windows, with breaks at each
  distance.  The proofs cover every size and length.
* Memory: a recall adds 1 and the reinforcement 1 or 2 (`MaxAmount = 2`, 10 in the schema), so that of two additions read
  from one count the one that is lost can be worth more or less than the one that is kept.  `Edits` are eight payloads: nothing, an
  expiry set or removed, each type with and without one, references with and without a change that takes the lock first.  Two updates suffice for each interference the code has between edits: it lies between one copy and one commit.
* Identity: two emails are needed for two registrations to compete for the pending key (with one, the email's own key
  orders them first), two refreshes to race with one token.  One
  browser (`BrowserOf`) sends all but the second registration, so that its answers can replace one another; `EmailsOf` lets the first
  registration name one email, as emails are interchangeable.  A session expires only while it is active.
* Workspaces: two bindings compete for one slot or hold two, with one user, one credential and `MaxProviders = 1`, so that a
  registration can be one too many.  `Offers` has two objects of GitHub with different statuses and two of the other provider
  with different scopes; credentials are `Presented` active or revoked, callers name (`Named`) one scope or both, and
  `Updates` ask for `active` besides those that leave the status.  The proofs cover every other choice of these, other required
  scopes of GitHub's objects among them, and any number of bindings.

## Fairness and deadlock

Liveness is checked under weak fairness of the steps of each request that has begun, never of sending one, of `Abort`, of
an expiry or of a cancellation.  For the executor this is asyncio running every task that is ready.  For `AgentRuns` and
`AuthSessions` it is the database serving a statement whose lock is free and the event loop resuming its coroutine.  It
does not assume that a request gets a lock it waits for: a circle of waiting requests would be a counterexample, and so is
the damaged `InsertSession` listed as a mutant.  The runtime has no liveness property: its timeout is `asyncio.wait_for`,
so "the backend is given up" would restate the fairness.  `Chunking` says that its loop ends as the action property
`WindowsAdvance`: the start of a window is a strictly growing number below the length of the text.

`CHECK_DEADLOCK FALSE` appears everywhere because every model is of finitely many requests, which all end.

## Proofs

Each proof module shows that an inductive invariant holds initially and is kept by each action, one lemma per action, and
draws the listed theorems from it.  None assumes more than the named assumptions of its module, except where stated.  Two
proof modules have two components each, which is why the specifications of `AgentRuntime` and `Chunking` and their parts
carry a prefix (`RuntimeSpec`, `ChunkingSpec`).  Every safety property a passing run checks, invariant, action property or
refinement, is also stated by a theorem.

| Module | Theorems (the property they state) | Inductive invariant |
|---|---|---|
| `RunProofs`, of `AgentRuns` | `TypeCorrect` (`TypeOK`), `SequencesExact` (`SequencesAreExact`), `RecordsAlwaysAgree` (`RecordsAgree`), `AnswersTrue` (`AnswersAreTrue`), `OnlyStaleCopies` (`OnlyStaleCopiesLeaveTheTable`), `SoloRefinement` (`FollowsLifecycle`, assuming `Cancellers = {}`) | `TypeInv`, `SequenceInv`, `LockInv`, `PendingInv`, `LogInv`, `AuditInv`, `SettledInv`, `SoloInv` |
| `PlanExecutorProofs` | `ExecutorInvariant`, `TypeCorrect` (`TypeOK`), `ExecutionsStaySound` (`ExecutionsAreSound`), `CancelStopsTheSteps` (`NoStepAfterCancel`) | `ExecutorInv`, `IdleInv` |
| `RunProofs`, of `AgentRuntime` | `RuntimeInvariant`, `RuntimeTypeCorrect` (`RuntimeTypeOK`), `AttemptsWithinAnyLimit`, `AttemptsStaySound` (`AttemptsAreSound`, assuming `RoomForLifecycle`) | `RuntimeInv` |
| `AgentRecordsProofs` | `RecordsInvariant`, `TypeCorrect` (`TypeOK`), `RowsAgree` (`RowAgreesWithLog`), `NumbersInvariant`, `ExcessAndErrorsCaused` (`ExcessAndErrorsHaveACause`), `ArchivesStay` (`ArchivesAreUndoneOnPurpose`) | `RecordsInv`, `NumbersInv` |
| `ContextPlanningProofs` | `PlanningInvariant`, `TypeCorrect` (`TypeOK`), `RefusalsAreCaused` (`RefusalsHaveACause`), `PlansAreTaken` (`PlansAreExecutable`), `TheHighestSpeak` (`HighestRankSpeaks`) | `PlanningInv` |
| `DocumentProofs`, of `DocumentStore` | `TypeCorrect` (`TypeOK`), `StoresDiffer` (`StoresDifferOnlyUnanswered`), `AnswersKept` (`AnswersHold`) | `DocumentInv` |
| `DocumentProofs`, of `Chunking` | `ChunksInvariant`, `ChunkingTypeCorrect` (`ChunkingTypeOK`), `NothingSkipped` (`NothingIsSkipped`), `WindowsMoveOn` (`WindowsAdvance`) | `ChunkInv` |
| `MemoryItemsProofs` | `MemoryInvariant`, `TypeCorrect` (`TypeOK`), `EditsStayWhole` (`EditsAreWhole`), `DeletedStays` (`DeletedIsFinal`), `CountStaysWithinEvents` (`CountIsWithinEvents`) | `MemoryInv`, `CountInv` |
| `AuthSessionsProofs` | `SessionsInvariant`, `TypeCorrect` (`TypeOK`), `LedgerRefinement` (`KeepsTheLedger`), `HoldersInvariant`, `StrandedCaused` (`StrandedSessionsHaveACause`) | `SessionInv`, `HolderInv`, `UnansweredInv` |
| `WorkspaceBindingsProofs` | `BindingsInvariant`, `TypeCorrect` (`TypeOK`), `BindingsCoherent` (`BindingsAreCoherent`), `ErrorsCaused` (`ErrorsHaveACause`), `SlotRefinement` (`SlotsAreExclusive`) | `BindingsInv` |

*Runs.*  The sequence numbers are not inductive by themselves, because a transaction that has inserted but not committed is
invisible to the next `SELECT max`.  `SequenceInv` adds that (1) whatever a transaction has inserted lies above the
committed log and continues it without a gap, (2) at most one transaction has uncommitted events, because the next one is
handed the same number and the unique index makes it wait, and (3) the number a transaction was handed is either still the
next one or already taken, so it conflicts.  A commit then only extends the log at its end.  `LogInv` adds the lock: between
its UPDATE and its COMMIT a transaction with a target is the only one that can change the row, so its event is both the
latest status event and the status.

*Executor.*  `ExecutorInv` says how far a call is at each sleep (`Underway`: k steps have their outcome, the others are
pending, the status is running) and what a call that has left has become (`Returned`, or `Cut`, without a result because
the log is full).  Between the two lies `Failing`, the lifecycle with an exception in flight that `_failure_result` is
handed: `FailureLeaves` shows that every such lifecycle becomes one of the two, so that each action only has to show
that what it raises is `Failing`.  `CancelStopsTheSteps` adds `IdleInv` (only an execution that is active is ever
cancelled): a cancelled lifecycle raises at its next check, and the events `_failure_result` then records start no step.

*Runtime.*  `RuntimeInv` has the same shape around the one await, and holds for any limit.  With less than `RoomForLifecycle`
(`MaxEvents >= 6`; `RuntimeConfiguration` allows down to 1, `runtime.py:94`) the lifecycle's own events fill the log: an
attempt then loses its result without the backend having any part in it, and below 4 it never gets to its backend
(`CutEarly`).  `AttemptsWithinAnyLimit` says what remains true, `AttemptsStaySound` adds who has filled the log.

*Records.*  `RowAgreesWithLog` is not inductive: a commit writes what its request has decided on before.  `RecordsInv` says
what each request may still rely on by then.  `DefinitionsInv`: two requests with a flushed write never have one row or one
key, and the key they write is still free.  `RunInv`: a status event that has its number has one above all committed status
events, because `next_event_sequence` reads under the lock of the run's row; an inserted number is taken by nobody else; a
flushed delete and a row somebody has added exclude each other; a counting update's copy counts no more than the log.  The
limits of `ExcessAndErrorsCaused` follow by comparing the copy with the tables: the copy was within the limit, so a table that
is beyond it has rows the copy has not.  Its integrity errors need `NumbersInv`: the number `next_event_sequence` gave a
request that chose none was free in the copy the request had read.

*Context and plans.*  `PlanningInv` says of an assembly suspended at a provider where it is in a queue that is ranked and has
the required providers, and that its page of memories once was live (`AssemblyInv`); of a context, that its data is the merge
of its providers (`ContextInv`); of a plan, that it is the one the planner builds of the request (`PlanInv`).  Registrations,
edits and deletes only make the causes it names truer.  The rest are lemmas on the model's operators, for lists and sets of any
size: `Ranked` lists all providers in order, each once (`RankedLists`); the fold `Merged` takes each key from the first of
the list that has it (`MergingTakesTheFirst`, `MergedSpeaksForTheHighest`); sums of sizes are natural numbers (`SumType`);
and the planner's steps are a chain that both validators accept, with the requested tools in their order (`StepsAreAChain`,
`ToolsComeBack`, `PlannerKeepsItsPlan`, `ExecutorTakesThePlan`).

The usual proof of such a lemma is an induction, and the library's induction theorems take a predicate as a parameter, which
the installed provers cannot instantiate.  The proofs take the *least counterexample* instead, which is first order:
`LeastNumber` and `SmallestSet` follow from the library's facts on well-founded relations; a lemma on a recursive function
assumes that some argument violates it, and refutes the least one with what the function does of the one before.


*Documents.*  `DocumentInv`: a delete has read only documents with a row, an upload adds vectors only while it has none, so
nothing brings an erased vector back; a search's hits avoid what was forgotten when it began, which hydration cannot undo.
`DueInv` follows what a search owes its caller from the vector store (whole for every live document no delete has come to,
`LiveDocumentsAreIndexed`) over the hits to the answer, which loses only what was deleted in between.

*Chunking.*  `ChunkInv` keeps, besides the covered prefix, how the current start was computed from the window before
(`PreviousWindow`), which is what makes the next end comparable with the last: a break is at least `MinimumBreak` after
the new start, and the new start is an overlap before the old end.

*Memory.*  `MemoryInv` says of each open request what its copy may differ in from the row as it is now (`RequestOf`,
`CopyOf`): where the type differs or the expiry has gone, another update has been answered in between.  An update alone
therefore works on the type and expiry that are in the row, and cannot lose the default expiry.  `CountInv`: no count, of the
row or of a copy, is above what the events add up to.  That sum is the cardinality of a set with one pair for every event and
unit (`Units`), so one more event is a union of disjoint sets (`OneMoreEvent`).

*Identity.*  `SessionInv`: tokens are named after the request that issues them, and before its commit no row and no
retired token bears its name (`Fresh`), so a rotation never brings one back; a registration that has inserted its email
has it alone; the session of a token is never absent again.  `HolderInv` is about whoever has a
current token: the request that has committed it answers for its session, and a logout that is about to answer leaves no
session usable with the token it was sent with.  `UnansweredInv`: until the answer to a login or a registration is on its way, no jar and
no request has a token of its session.  `StrandedCaused` then goes through the steps that change a jar or end a request.

*Workspaces.*  `BindingsInv` is the conjunction of the limits, of the slots, of `BindingsAreCoherent`, of
`ErrorsHaveACause`, and of `CallInv`: a prepared request is still of the binding's user, workspace and credential, whatever has
become of that binding; and when the service has a registry, its capability is supported and scopes the caller has not left
out satisfy some object of GitHub.  That leaves the causes named as the only objections.

Only model-checked: liveness (`EveryRequestEnds` of `AgentRuns` and of `AuthSessions`, `ExecutionEnds`), which needs ENABLED
and fairness.  The assumptions on constants are few: sets that the code holds in memory or in a page are finite (a build's
providers, memories), limits are at least what the code's validators require (the limits of steps are
positive, `executor.py:99`, `planner.py:41` and `planner.py:141`, and bear no relation to each other or to the number of tools a
request may name), the tools a request names are a sequence without repetition, and, for `AttemptsStaySound` only,
`RoomForLifecycle`.

## Divergences

What the repository says and the code does not do.  One has a run:

1. *Cancelled is not final* (`services.py:869-871`): the transition is validated against the request's own copy and
   written by primary key.  `src/docs/phase-6-agent-framework.md:272` draws cancelled as final.

Further ones, seen while modelling; the properties named show how far each goes:

* *The error handler is lost* (`services.py:494`): an exception with a transaction open leaves the run in an unfinished
  status, though `src/docs/phase-6-agent-framework.md:434` says "Mark run failed, audit, and log exception."
  `AnswersAreTrue` says what the answers that are given are still worth.
* *A failed upload leaves its vectors* (`domains/documents/services.py:217`): the compensation raises before the call.
  Searches never show them (`AnswersHold`), and only unanswered uploads leave any (`StoresDifferOnlyUnanswered`), but they
  use up places among the nearest hits (`SearchesMissOnlyForPlaces`, a part of `AnswersHold`: nothing else makes a search miss
  a document).
* *A concurrent recall is not counted* (`domains/memory/services.py:334`); `CountIsWithinEvents` bounds the loss.
* *A refused refresh clears no cookie* (`api/routes/auth.py:82`): the route clears them on a response that the exception it
  raises next replaces.
* *A status change is not held to the event limit* (`domains/agents/services.py:626`), which `append_event` is.
* *A logout that a refresh overtakes does nothing* (`domains/identity/service.py:151`) and answers 200.
* The cancel route does not stop the work: its executor and runtime are its own (`api/dependencies.py:72`), whereas
  `src/docs/phase-6-agent-framework.md:284` says "Stop pending work and record audit/event entries."
* At the event limit the executor may return `succeeded` with `executor_limit`, or raise (`executor.py:418`), and the runtime
  may raise `AgentRuntimeLimitError` (`runtime.py:310`) although `RuntimeResult` is "returned by every runtime execution
  attempt".  `ExecutionsAreSound` and `AttemptsAreSound` show that this is the only way it happens.  With the defaults the
  executor does not reach its limit; the runtime does with a backend that returns 996 events or more.
* Two updates that interleave can leave a short-term memory without an expiry (`domains/memory/services.py:218`), though
  `src/backend/tests/test_memory.py:128` asserts one; `EditsAreWhole` shows that it takes two.
* `create_and_execute` goes on to the runtime whatever the executor's result says.
* The edges listed under `AgentRecords`, `ContextPlanning` and `WorkspaceBindings` above: the conflict handler that sees no
  conflict, the total below its page, the two size limits and the three on a plan's length, `is_usable` ("valid for operations") that looks at no expiry, the
  unowned credential and the blank message.

## What is not modelled

* Texts, metadata, timestamps, byte limits in bytes, scores, passwords and the encoding of tokens; no property depends on
  them.
* `started_at` of a run and the `agent_steps` rows that create_and_execute writes (`AgentRecords` has the ones that
  `append_step` writes); the list and get methods, which only read.
* Embedding, and the parsers of pdf, md and txt files (a library's and a decoder's work); `Chunking` begins with the text they return.
* Integration contracts other than the checks a binding or a call goes through, and the GitHub client below the mapping of
  failures (URLs, JSON, headers).
* Configuration, logging, health, migrations, the front end and the `agents/` scaffold (pure I/O or no state).
* The answers of memory updates, which may show references the update has just replaced
  (`domains/memory/services.py:243`): listed as a hazard without a property.

`PROJECT.json` lists each part with its reason.

## Plan

Done: all the modules above, in the order of what matters most (runs, executor and runtime, documents, memory, identity,
then records, workspaces, chunking, context and planning), their abstract specifications, and eight proof modules that
state every safety property the runs check.

Left, in this order:

1. An abstract lifecycle with stale writers that `AgentRuns` implements with any number of cancellations
   (`SoloRefinement` is about none, `OnlyStaleCopies` is the step that would be refined).
2. Composition: `AgentRuns` with the executor and runtime of its request, which gives the events a result holds and the
   outcomes it may have; `AgentRecords` with `AgentRuns`, for an `append_event` or a delete that meets a run under way.
3. Step rows of create_and_execute, and the answers of memory updates.

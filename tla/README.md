# SuiSwarm-Agent in TLA+

SuiSwarm-Agent is a chat assistant: a supervisor model and a few sub-agents
(market data, web research, a Sui blockchain service) that work on a user's
message with tools, behind a FastAPI service and a command line. This directory
holds TLA+ models of its control logic, TLC configurations that check them on
small instances, and TLAPS proofs of their safety properties for all values of
the constants.

Paths below are those of the repository; `client.py` alone is
`src/suiswarm_agent/infra/http/client.py`.

```
tlasany M.tla                              parse
tlc -workers 2 -config X.cfg M             check a run (PROJECT.json names module and cfg)
tlapm MProofs.tla                          prove
```

## 1. The system

| component | where | state | operations |
|---|---|---|---|
| Rate limiter | `infra/http/client.py` | time of the last grant, an `asyncio.Lock` | `acquire` |
| HTTP client | `infra/http/client.py` | connection pool and its loop, cache, limiter | `request_json` with retries; `_client`, `aclose` |
| CoinGecko, GeckoTerminal services | `tools/market/` | none but the client they were built with | one coroutine per tool; two of them ask several times |
| Sui service | `tools/sui/` | as above | one `request` that reads and writes |
| Client singletons | `*/client.py`, `*/service.py`, `tools/registry.py` | a client per upstream, a service per API | get, close |
| Chat API | `interfaces/api/` | the compiled graph, its checkpointer | `POST /chat`, `POST /chat/stream`, lifespan |
| CLI | `interfaces/cli/` | one event loop per command | `chat`: one turn or a prompt loop, streamed or not |
| Checkpointer | `memory/checkpoint.py` | per session the checkpoints of its conversation | in memory, SQLite, PostgreSQL |
| Swarm graph and settings | `agent/`, `config/settings.py`, `llm/` | built once from the environment | assemble agents and models; run supersteps (LangGraph) |
| Agents' rounds of tool calls | `agent/agents/base.py`, `tools/sui/` | a round's calls (LangGraph) | ask, run in parallel, report or raise |
| Tool registry | `tools/registry.py` | none | tools by configured capability |
| Langfuse | `infra/observability/langfuse.py` | `_configured`; the SDK's unsent traces | configure, trace a turn, flush |
| Adapters, prompts, logging | `tools/*/tools.py`, `agent/prompts.py`, `core/` | none that matters to others | - |

How they interact. API and CLI start a *turn*: they run the graph on the thread
of a session. The graph loads the thread's newest checkpoint, the supervisor
answers or hands over to an agent, and every superstep leaves a checkpoint. An
agent calls tools, possibly several at a time; a tool calls its service, the
service the client singleton, the client the upstream, through the limiter and
the retries. All of it runs on one event loop, so steps interleave at awaits
and only there. A client that hangs up on a stream cancels its turn at an await.

What is hard about it:

- *interleaving*: several tool calls wait for one lock, one sleeps while it holds it;
  two turns of one session run at a time;
- *cancellation* at any await, inside the limiter's lock too;
- *failure*: answers lost after the upstream did the work, retries of
  non-idempotent POSTs, mixed failures of several attempts, saves that fail, a
  process that dies in the middle of a turn, a start or an end that fails half way,
  a tool that raises while its siblings are out;
- *time*: intervals, backoff, a cache that expires, a clock that starts anywhere;
- *stale state*: pools and a limiter's lock of an event loop that is gone,
  services that keep a client which the module has forgotten, three places that
  decide whether a capability is configured, a report made from the settings
  rather than from the swarm;
- *termination*: agents that hand over to each other.

`PROJECT.json` lists these hazards line by line, each with the properties that
would catch it going wrong.

## 2. The modules

```
RateLimiter --- RateLimiterHistory           Sampling --- MarketService
     |
HttpClient ==refines==> UpstreamCall --- ToolCalls

ChatModels --- SwarmAssembly ---\            ClientLifecycle
                     Langfuse --- Lifespan   Conversation
```

(`A --- B`: B extends A.) The proofs about `M` are in `MProofs`:
RateLimiterProofs, HttpClientProofs, ToolCallsProofs, ClientLifecycleProofs,
LifespanProofs (with SwarmAssembly's and ChatModels' part), ConversationProofs and
MarketProofs (with Sampling's). LimiterLockProofs has the lemmas on the limiter's steps that
RateLimiterProofs and HttpClientProofs both use. Every `MC*` module extends one of them and gives it the values TLC needs.
Operators whose comment starts with *Mutant:* are variants of the definition
that follows them, each with a fault a programmer might have made. Nothing uses
them; put in the place of the real definition they make the property they are
paired with in `PROJECT.json` fail. They show that no property holds by itself.

### RateLimiter, RateLimiterHistory (client.py:44-59)

`AsyncRateLimiter.acquire` as its awaits cut it up: take the free lock
(`TakeLock`), queue for it (`JoinQueue`), be woken and take it (`Woken`), sleep
out the rest of the interval while holding it, stamp and release (`SleepDone`),
be cancelled in the queue or asleep (`Cancel`). `Proceed` is the code between
getting the lock and the next await; it is one atomic piece because nothing else
runs there. The lock follows CPython's `asyncio.Lock`: a newcomer takes it only
when it is free *and nobody waits*, a release wakes the head of the queue, which
takes the lock in a later step of its own. `_min_interval`, `_last`, `_lock` are `interval`,
`last`, `owner`/`queue`; `now` is `time.monotonic()`, in whole clock units. A sleep may last longer than asked for.

RateLimiterHistory adds the grants given so far (`sent`) and how many there
were when a caller began to wait (`since`), which is what the promises speak of.

### HttpClient, UpstreamCall (client.py:62-234)

HttpClient extends RateLimiter, so a call goes through the real limiter, not
through a stub. `Call` is `request_json` up to its first suspension: the cache
(`Hit`) or the first attempt. `LimiterStep`, `Serve` (the upstream),
`CarryOutLate`, `Receive`, `LoseConnection`, `Retry` and `Abandon` (cancellation) are the
rest. `Failed` and `Exhausted` are `_with_retry`, `Refuse` is `_raise_for_status`.
A caller makes one call: a task has nothing in the client between two calls, so its
next call is another caller's.

A request the client gives up, since its answer was lost, timed out or was a 5xx, or
since the caller was cancelled, may still be on its way. `open` counts those: the
upstream may carry one out (`CarryOutLate`) during the backoff, beside a later attempt,
or at any time after the call was answered, failed or was left.

UpstreamCall is the abstract promise: no request leaves once the call is over, at
most `max_retries + 1` are carried out or may yet be, a call is answered only if
one was, and nothing is said of when the others are. HttpClient refines it, with
`CallState` as the mapping; a 2xx whose body is not JSON raises (client.py:161), so its
call is one that *failed* although it was carried out.

### MarketService, Sampling (tools/market/)

One operation at a time: services keep no state, so two that run at once only
meet in the client. What a `get` ends in is any of HttpClient's verdicts.
`search_coin_market` (up to three lookups) and `top_movers` (paid endpoint, then
fallback) are modelled attempt by attempt; `coin_market_chart` and `coin_ohlc`
with the sampling of their series; all other operations, of CoinGecko and of
GeckoTerminal, have one shape, "check the argument, ask once, wrap the answer",
and share `PlainOperation`/`AskedPlain`/`AskFailed`. Parameters other than those that decide the control
flow are left out. Sampling is `sample_points`, as pure operators.

`Top` is `sorted()[:30]` by what a stable sort does rather than by how: place `k` goes
to the coin that exactly `k - 1` others go `Before`, by their figure and, among equals,
by where they were. (That every place is taken is a lemma of MarketProofs, `PlacesTaken`.)

### ClientLifecycle (the singletons)

Several *lives* of a process: every life is an event loop (an API lifespan, an
`asyncio.run`). Tasks get a service (`Bind`), pass the limiter of its client
(`Pace`, `Queue`), send (`Send`, which is `_client()` with its replacement of a pool
of another loop), perhaps again (`Again`), and finish; `Shutdown` and `Close` are
the lifespan's end and `close_clients()` with its two families one after the other,
either of which may raise; `Exit` is the CLI's.

Of the limiter only what crosses lives is kept: its `asyncio.Lock` looks for an event
loop when somebody first has to wait for it, stays bound to it, and raises a
`RuntimeError` on any other. A client that a service kept into the next life
works there as long as its calls do not meet, and refuses one when two do
(`"refused"`); `OnlyVeteransRefuse` states that nobody else ever does.

The singleton is one per *life*, not per process, whatever its docstring says (section 3):
`SingletonWithinALife` says that much and no more, and `ReleasedButForgotten` that the
clients brought along are the only ones out of `close_clients`' reach, after a shutdown that
failed half way too.

### Conversation (interfaces/, memory/checkpoint.py, the running graph)

`Begin` is a request to the API or an input to the CLI. `Load` and `Enter` are the
start of a graph run (two steps: the load awaits the database), `Answer`,
`HandOver` and `Report` are its supersteps, `OutOfSteps` the recursion limit,
`Raise` a failure of model, tool or store, split by whether it is a
`SuiSwarmError`, since API and CLI tell these apart. `Save` and `SaveFails` are the
background saves, `End` what the interface sends at the end (`Ending`), `HangUp` a
stream's reader that goes away, `Restart` the process being killed or stopped and started again.
`setup` holds what does not change in a behaviour: the recursion limit, whether a
client waits for its turn to end before it makes the next one (`patient`), and how
many restarts there may be.

LangGraph is external. What is assumed of it is what `src/` relies on: a run
works on the checkpoint it loaded; checkpoints are saved in order in the
background; a run returns, or raises, only after its last save; the newest
checkpoint is the one created last. The savers keep or lose what they hold over
a restart ("durable" or "memory").

### ChatModels, SwarmAssembly (settings.py, cli/app.py, factory.py, graph.py, registry.py, client gates)

From the environment to a serving swarm, and a tool call of it. ChatModels is the
way of a model's name and temperature: validation (`Normalised`), then the CLI's
flags (`Overridden`), then what each role asks the provider for (`ChatModel`). In
SwarmAssembly `Bridge`, `Enabled`, `EnabledAgents` and `Group` are the code's four decisions;
`BuildGraph` is `build_graph` with the ways it can fail; `AskMarket` and
`SuiServiceRequest` are the gates of the clients, which look at the settings again;
`Reported` is what `/healthz` and `suiswarm config` show.

### Langfuse, Lifespan (langfuse.py, api/app.py, cli/app.py, checkpoint.py)

Lifespan composes both with the checkpointer into the life of a process: `Start`
(Langfuse is configured), `OpenStore` (`checkpointer_context` is entered, or raises),
`Build`, `Turn` and `UseTool`, `Stop`, `LeaveStore`, `CloseClients`, `Flush`. Each of them may raise where
the code may, and what follows is what the `async with` and the `finally` of the two
applications make of it: the API's `close_clients` and flush come after the
context and run only if nothing was raised, the CLI's flush runs whatever was.
`saver` and `graph` name the life whose checkpointer is open and whose graph
`app.state` names; a second life of an API process finds the first one's.

Langfuse is `_configured`, set when a client could be made and tried again with every turn until
then. The SDK is external: it keeps traces and sends them in the background (`Export`) or at the flush.

### ToolCalls (agents/base.py, tools/sui/)

One run of the Sui agent. Its model asks for any of `Calls` at once (`Ask`), each reading
or writing; each passes the gate for writes or raises (`Start`), runs as a call of
UpstreamCall (`Progress`, and `Upstream` for what the upstream does, then or later) and
returns or raises (`Return`; a body that is not JSON raises). Nothing in `src/` tells LangGraph's ToolNode to
handle what a tool raises, so one failure ends the run (`Ended`): its siblings are cancelled before they begin or at an
await (`Cancel`), and the run ends when all of them are over (`Settle`). Arguments that do not fit the
tool are the exception: the model is told (`Reject`).

ToolCalls is written with UpstreamCall's own actions, so that it uses the promise by
construction: there is nothing to prove about that. What HttpClient does to keep the promise is the
refinement's business. A reported write may have been carried out more than once, and
once again after the model went on: `AnswersRestOnReports` bounds that and does not exclude it.

## 3. What is checked

Twelve runs, seven that pass and five that exhibit a disagreement between the code and
what its documentation says. Figures are distinct states.

| run | instance | shows |
|---|---|---|
| `rate_limiter` | 3 callers, interval 0 or 2, clock from 0 or 3, 4 grants (0.1 M) | `Spacing`: grants `k` places apart are `k` intervals apart; `LockDiscipline`: no cancellation leaks the lock; `BoundedOvertaking`: a waiting caller is overtaken by each other at most once; `EveryCallerLeaves` |
| `http_client` | 2 callers of a call each, 1 retry, 1 key, ttl 2 (1.2 M) | the error raised is that of the last attempt; the upstream repeats work only after a lost answer or a 5xx, however late; cache hits are younger than the ttl; retries are metered too; every call ends; UpstreamCall is refined |
| `market_service` | 4 coins, lists of 2, series of up to 17 points, cuts of 2 to 5 (6 k) | lookups in order and a 429 never passed over; an empty answer tells whether something failed; the fallback only on 401/403; gainers and losers are the extremes; a cut series keeps its first and last point |
| `client_lifecycle` | 2 tasks, 3 loops, 3 services (2.9 M) | no request through another loop's pool or a closed one; a call is refused by a limiter's lock only if its client is from an earlier life; a client made in this life is the one the module names, and others in use were brought along from earlier lives; those are all that is out of a shutdown's reach, be it finished or failed |
| `conversation` | 2 turns of 1 session: one after the other, limit 3, a restart; or overlapping, limit 1; a bad save (1.6 M) | an answered turn is in the store whatever crashes; the history reads as a conversation even if turns overlap; each turn is told its end once and truly; the CLI shows the turn's own answer, once; every turn ends |
| `tool_calls` | 3 calls in 1 to 3 rounds, 1 retry (1.1 M) | the model goes on only when every call was reported or rejected; a reported write was allowed and carried out, at most twice with what is still out; a rejected or forbidden one is never carried out; every round settles |
| `swarm_assembly` | all environments of the tools with up to 2 listed agents of 4 names; both applications with all stores, flags and Langfuse keys; 2 lives (3.7 M) | the swarm and its models are the configured ones; a registered tool never fails for want of configuration, except a forbidden Sui write, which always does; no agent without its tools; the report agrees with the swarm; traces are flushed; turns run on an open store, and none stays open |
| `domain_errors` | as `http_client` | violated: a 2xx that is not JSON raises outside the domain's exceptions (client.py:161 against client.py:8) |
| `even_sampling` | as `market_service` | violated: for lengths between one and two times `max_points` the sample is the head of the series and its last point (models.py:37 against models.py:34) |
| `release` | as `client_lifecycle` | violated: the CLI never closes its clients (cli/app.py:103 against coingecko/client.py:57, sui/client.py:81) |
| `overlap` | 2 overlapping turns, no faults | violated: of two overlapping turns of one session one is lost, with its client answered (routes.py:46 against docs/huong-dan/trien-khai.md:279) |
| `blank_key` | the environments of the tools, 1 life | violated: a key set to nothing registers its tools (settings.py:197 against registry.py:3-5) |

The five disagreements are described in `PROJECT.json`, "findings", with the
trace of each. Smaller observations that no run of its own states:

- docs/huong-dan/them-llm-provider.md, 4.1, has `ANTHROPIC_API_KEY` suffice for another
  provider; `get_chat_model` (factory.py:46) raises ConfigError unless
  `LLM__API_KEY` or `OPENAI_API_KEY` is set, which `BuildGraph` has.
- docs/huong-dan/them-sub-agent.md:158-159 says that `build_graph` raises ConfigError when no
  agent remains enabled. It does not: graph.py:66-71 falls back to a research agent with the
  system tools, which is what `SwarmIsAsConfigured` states and `Fallback` models.
- "Process-wide CoinGecko client singleton" (coingecko/client.py:49; likewise of Sui) holds until the
  first shutdown. `close_clients` forgets the client, the services keep it (service.py:34): in a second
  lifespan of the process a service built before and one built now use two clients of one upstream
  at once, each with a limiter and a cache of its own, so that the upstream may see twice the
  rate. `client_lifecycle` reaches such states, and `SingletonWithinALife` allows them.
- `--model openai/...` reaches the provider with its prefix, `LLM__MODEL=openai/...` does not
  (`ModelsAsConfigured` makes the exception for the flag).
- The market agent's prompt tells it to give the reason when a tool fails; a tool that fails
  ends the turn instead (`Ended`), and the user sees the error of the tool.
- Of a turn that failed the user does not learn which of its writes were carried
  out, or may yet be. Nor, of one that goes on, does the model learn that an attempt of a
  write that was reported timed out before, and may be carried out a second time, at
  once or later: `retry` and `POST` together give at least once, not once (client.py:175, sui/client.py:57).

### Bounds, and why they are enough

- `Horizon` stops the clock unless a sleep or a backoff needs it to go on. It is
  three intervals in the limiter and past the ttl in the client, so that callers
  arrive before, at and after the end of an interval, and entries expire.
- `MaxGrants` stops *new* acquisitions; those under way run to their end. Four
  grants to three callers let one come back while others wait, which is what
  fairness is about. HttpClient's two calls let one hit what the other stored, or queue behind
  its retry, one after the other or at once.
- `MaxRetries = 1`: a first, a last, and so a mixed sequence of attempts. (The
  argument for more is by the model: an attempt depends only on its number
  being below the limit.)
- `Intervals` holds 0, the unlimited limiter, and an interval of several clock
  units; `Starts` holds a clock that starts within an interval of `_last = 0` and one past it.
- `MaxLength = 17` with cuts up to 5: lengths up to three times the cut and all
  remainders. The service's bounds are 10 and 250, its default 80; nothing in `sample_points` depends on them.
- `Coins = 4`, `TopN = 2`: lists shorter, as long as and longer than the top,
  with overlap of gainers and losers, ties, and coins without a figure. The code's `TopN` is 30.
- `MaxLoops = 3`: a client is made in the first life, forgotten but still held in
  the second, and met again in the third.
- `Setups`: a recursion limit of 3 allows one hand-over and the answer, 1 makes it
  bite at once (`settings.agent.recursion_limit` is larger, and only compared with); with
  patient clients a crash, at any step of either turn, with impatient ones none, since
  overlapping is the hazard there. `MaxBadSaves = 1`: a failed save in both.
- `MCTools`: every combination of unset, blank and given for the keys of the tools and of
  the model under both their names, and every list of up to two agents, with repetition,
  an unknown name, and empty. A third name meets no code that two do not. The application, store and flags are the
  default there, and vary in `MCProcesses`, where the tools' keys are fixed: nothing
  in the code reads members of both groups together but `build_graph`, which both have.
- `Temperatures` holds 0, which is falsy, and two others.
- `MaxLives = 2`: a life with what an earlier one left, and nothing but that is carried over.
- Three `Calls`, which the model asks for in one round, in two or in three, in any partition: one fails while another
  is out and a third has not begun, or a request of an earlier round is carried out in a later one.
  `MaxAttempts = 2` is one retry.

No symmetry is used: the runs are small enough, and liveness would not be sound with it.

Deadlock is checked in `rate_limiter`, `http_client` and `conversation`, where an
explicit last step (`Finished`, `AllDone`, `AllOver`) is enabled only when all
callers are out; everything else that stops is an error. `MarketService` never
stops. `client_lifecycle` and `swarm_assembly` do not check it: a process that is down for
the last time really stops; nor does `tool_calls`, where a run that answered or failed
has no further step (`EveryRoundSettles` is what excludes a stop in the middle).

### Fairness, and why the code justifies it

Liveness is checked under weak fairness of

- what the event loop does with a task that is ready (`Woken`, `SleepDone`,
  `LimiterStep`, `Retry`, `Step`): asyncio runs ready tasks first in, first out;
- the end of a request (`Receive` or `LoseConnection`): httpx is given a timeout, so the
  task goes on whether or not the upstream answers. Nothing is assumed about `Serve`, the upstream's part;
- the end of a superstep (in `Step`): the model's and the tools' calls have timeouts;
- in ToolCalls the beginning, return and cancellation of a call and the end of the round, which are the event
  loop's, and the end of an UpstreamCall, answered or failed, which is `EveryCallEnds` of HttpClient;
- the clock.

Nothing is assumed about calls being made, tasks being cancelled, clients
hanging up, restarts, or the model asking or answering. Weak fairness is enough: once enabled, each of these
stays enabled until it happens or its task is cancelled.

## 4. What is proved

Every invariant that a passing run checks, every action property, and the refinement
of UpstreamCall are theorems too, for any value of the constants: any number of callers,
tasks, turns, lives, names and retries, lists and series of any length. The assumptions are the
named `ASSUME`s of the models and no others (types; `LeastPoints <= MostPoints`; an
environment has the fields of one); every run evaluates those of its modules. PROJECT.json lists the
theorems with the property each states.

Each proof has one shape: an inductive invariant, checked by TLC before it was proved, a lemma per
action that says the action keeps it, and a last step that gets the property from it. Hardly any of the
properties is inductive. What had to be added, and why:

**RateLimiterProofs** (`LimiterInv`): `Spacing`, `BoundedOvertaking`, `LockDiscipline`.

- `SleepInv`: a sleeper's alarm is an interval after `last`. The lock is held
  during a sleep, so nobody moves `last` meanwhile; without this a grant after a sleep could be too early.
- `StampInv`: the last grant was at `last`, and none is in the future, which ties
  the ghost `sent` to the variable the code compares with.
- `BehindInv`: who was granted since `c` joined the queue is neither the lock's
  owner nor in front of `c`. This is the reason for `BoundedOvertaking`: such a caller can be granted
  again only after `c`.

`StepCases` (LimiterLockProofs) reduces every step to one of seven
shapes (a grant with a free limiter, a paced grant, falling asleep, joining,
leaving the queue, dropping the lock, an idle step), each stated by what it does to the
variables; then one lemma per part of the invariant goes through the shapes. Cancelling a
waiter takes an element out of the middle of a sequence; `RemoveAtProperties` and
the lemmas on `Without` say what that leaves.

**HttpClientProofs** (`HttpInv`): the verdict is the last attempt's, duplicates need doubt, hits are
fresh, requests are spaced, and `HttpSafe => ImplementsUpstreamCall`.

- `CallerInv` counts: the attempts of a call are those in its log and the one under way,
  and it was carried out at most once for each attempt that leaves doubt, and once more by one that was answered.
  What is still open counts as if carried out: the bound holds however late it is.
  The bound `max_retries + 1` of UpstreamCall and `DuplicatesOnlyAfterDoubt` both follow from it.
- `CacheInv` ties `expires` to the time of receipt, the ghost that `HitsAreFresh` compares with.
- For `RequestsAreSpaced` the limiter's `SleepInv` is enough, which is why it is apart from its history.

The refinement goes step by step (`CallerStep`): a caller's step is one of
UpstreamCall's or leaves its state alone, and no step touches another caller's.

**ToolCallsProofs** (`ToolCallsInv`): `AnswersRestOnReports`, over UpstreamCall's promise.
`CallInv` is what is known of one call: a write that runs passed the gate, one that the client answered was
carried out, nothing leaves for a call that never began, and what was and may yet be carried out of it is within
`max_retries + 1`. `RunInv` says that one call that raised or was cancelled fails the run, and that the model is asked
only when all are over. How far this is a statement about the tools over the real client: the safety they use is
UpstreamCall's, which `HttpKeepsThePromise` gives; that a call ends, which `EveryRoundSettles`
assumes, is `EveryCallEnds`, which is model-checked only; and no theorem is about one
module that contains both.

**ClientLifecycleProofs** (`LifecycleInv`): the properties of a life need to know what an
earlier one can have left. `AgeInv`: no client, pool or lock is of a loop to come, and a
pool is open exactly when it is this loop's (this is what `aclose`, or the replacement in `_client()`, sees to).
`HeldInv`: a singleton is younger than every other client its services hold, and where there is
none, in a life that has not closed it, those are of an earlier life. `ClosedInv`: where a family's client was
closed and forgotten, what is open of it is of an earlier life, between the two halves of `close_clients` and
after a failed one too.

**LifespanProofs** (`LifespanInv`): all that is said of the swarm follows from one fact,
`AssembledInv`: while it serves, it is what `build_graph` makes of the environment it was started in.
The rest are lemmas about the pure operators: `AssembledAsConfigured`,
`AssembledHasTools`, `AssembledModels`, `AssembledReports`. The loop over the list of names is the
recursive function `AgentsUpTo`; that it is defined for a list of any length, and what it keeps,
is proved by `SetInduction`, the induction principle for a *set* of numbers (from the
library's theorem on well-founded relations), which needs no operator as a parameter.
`StoreInv` and `TraceInv` follow the stages of start and stop.

**ConversationProofs** (`ConversationInv`): the longest, since a run works on a list it loaded
earlier, has checkpoints queued, and may share its session with other runs.

- `ListsInv`: what is stored, what any run has seen and what is queued reads as a conversation.
  `HistoryReadsAsConversation` alone is lost with the first save of a stale run.
- `RunInv`: what a run's record says at each stage of it, from which its ending is true.
- `StampInv`, `SerialInv`: with patient clients (or the CLI) only a turn that was hung up can still be live
  beside a newer one of its session, and all it has to save is older than what the newer one saves: the newest
  checkpoint of a clean run is the newest of the session.
- `KeptInv`: of a turn that is done, question and answer are in the newest checkpoint and in all that may replace it.

**MarketProofs** (`MarketInv`): `SearchInv` (the attempts are those made and those left, in
order, and `error` tells whether one failed), `MoversInv` (which endpoint was asked, with what end),
`RestInv` and `ResultInv` (a result is the operation's function of what it got). The
two algorithms are lemmas of their own: `SampledSeries` (with `Steps`, `Quotient`, `RoundedUp`: the rounding
up in `points[::step]` leaves at least `max_points` points) and `TopIsFair` (with
`PlacesDiffer` and `PlacesTaken`: the number of coins before a coin is an injection into the places, so all are taken).

Only model-checked:

- liveness, which is beyond the prover: `EveryCallerLeaves`, `EveryCallEnds`, `EveryRoundSettles`,
  `EveryTurnEnds`. The theorems are therefore about `HistorySafe`, `HttpSafe`, `ConversationSafe`, the
  specifications without their fairness (LifecycleSpec, LifespanSpec and MarketSpec have none; the proofs about
  ToolCallsSpec do not use its);
- the five disagreements: a counterexample is one instance, and TLC shows it.

## 5. What is not modelled, and why

- *Tool adapters, prompts, logging, response shapes*: text and one-line calls. An adapter
  awaits the service's method of its name with the arguments it was given; MarketService has
  the methods. Logging formats lines and binds a correlation id to them; nothing branches on either.
- *The CLI's prompt loop and tables, CORS and the validation of requests*: input and output, left to
  typer, rich and FastAPI. `make_graph` is `build_graph` for LangGraph's development server.
- *The numbers of `HTTPSettings`*: constants of RateLimiter and HttpClient.
- *Savers and LangGraph*: external, see Conversation.
- *`aclose` racing a new request* (client.py:98): `close_clients` runs when the
  server has drained its requests; ClientLifecycle takes that as a guard.
- *Waits in httpx's pool* between a limiter's grant and the sending of a request, by which two requests that
  were spaced can leave closer together: `RequestsAreSpaced` is about the grants.
- *A read-back of the answer that fails* (cli/app.py:79): the CLI's turn would end in an error after its answer was saved.
- *An answer of /coins/markets that is no list* (service.py:172): an object gives no coins, anything else raises a
  TypeError. Items that are no objects, or have no number, are coins without a figure (`NoChange`).
- *The size of the cache and of a conversation*: neither is bounded by any code.
  `max_conversation_messages` (settings.py:123, docs/huong-dan/cau-hinh.md:181) is read by
  nothing, and cache entries are never dropped, only replaced.

## 6. Plan

Done, in this order, the most depended-on part first: limiter and its proofs,
client and its promise, market services, singletons, conversation, assembly; then the
limiter's lock over several lives, overlapping turns, models and flags, Langfuse
and the life of a process, and the agents' tool calls over UpstreamCall; then the
proofs of all components. For these three definitions were restated, with the same meaning: `Top` and
`Attempts` without the sequence library's recursive operators, and the loop of `build_graph`
over names as `AgentsUpTo`.

Next:

1. The composition as one theorem: that ToolCalls over HttpClient, rather than over UpstreamCall, keeps
   `AnswersRestOnReports`, about a composed module instead of two theorems that meet in UpstreamCall.
2. The step lemmas that liveness rests on, as far as they are safety: that a caller at the head of the
   limiter's queue is woken by the step that frees the lock, and that a call's remaining attempts decrease.
3. The condition under which sampling is even: for which lengths `SampledEvenly` holds, as a theorem beside the
   violated run.
4. What overlap costs exactly: without patient clients, which turns `AnsweredTurnsAreRemembered` still
   keeps (those whose run began after the last other one of the session ended).

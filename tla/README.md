# Verification of trae-proxy

TLA+ models of the gateway `trae-proxy` (Go, `cmd/` and `internal/`), the runs that
model-check them with TLC, and the theorems that TLAPS proves about them. Paths
below are relative to the repository root, or to `internal/`.

## The system

trae-proxy is a local gateway: it takes requests in three client protocols (OpenAI
chat, OpenAI Responses, Anthropic Messages), forwards them to one upstream backend
with a token out of a pool of accounts, and renders the upstream's event stream in the
protocol of the client.

    client -> openai.Server -> handlers.ChatHandler | protocol.AnthropicHandler | protocol.ResponsesHandler
                                   |  callback per event            |
                                   v                                v
                     proxy.TraeProxy.ChatCompletion          db.Store.RecordLog
                        |          |            |
          models.Registry    auth.Pool    protect.Limiter    upstream HTTP + SSE -> ThinkSplitter -> callback
                                   |
                       queue.CircuitBreaker (one per account)

Four libraries stand beside it that only tests construct: the request queue
(`queue/manager.go`: breaker, rate limiter, degradation, scheduler, SSE broker), the workflow engine with
its agents (`workflow`, `agent`), its context manager, and the token manager with its storage (`auth/manager.go`,
`auth/storage.go`). They keep most of the program's locks, queues and goroutines, and are modelled as their exported
methods may be called.

| component (source) | state | operations | what is hard | what must hold |
|---|---|---|---|---|
| Circuit breaker (`queue/limiter.go`) | state, two counters, time of last failure | Allow, RecordSuccess, RecordFailure | reports arrive late and out of order | trips and closes for the right reason, never locks itself |
| Account pool (`auth/pool.go`) | accounts with token, stale flag, mutex; shared index; active account | GetToken, ensureFresh, ReportFailure, ReportSuccess | three kinds of lock, a network call under one of them, shared index | locks balanced, no token handed out that is known to be rejected or expired, a good account is found |
| Upstream proxy (`proxy/proxy.go`) | per request | ChatCompletion, postAuthenticated | retry after 401/403 | ends; retries once |
| Model registry (`models/*.go`) | models, aliases | Upsert, Resolve, ResolveChannel, UpstreamFor, refresh | lookups while the refresh merges | what is sent fits its channel; names keep their meaning |
| Upstream limiter, projector (`protect/protect.go`) | slots, time of last start | AcquireContext, release, Project | cancellation at every point, sleepers | slots exact, starts spaced, no stall; messages shrunk to a budget from the oldest on |
| Think splitter (`proxy/think.go`) | buffer, mode | Feed, Flush, WrapStreamHandler | tags cut between chunks, other events between them, text after a finish | chunking is invisible, nothing moves across a finish |
| Event stream (`proxy/*.go`, `sse/sse.go`) | per request | deliver, fail, end | any order, early end | a stream that stopped short is a failure |
| Protocol adapters (`protocol/*.go`, `openai/handlers/chat.go`) | open block or items, tool accumulators, finish reason, usage | the callback, the end, each streamed or gathered into one reply | interleaved tool calls, late finish and usage | framing, nothing lost, the right ending, the same text, calls and usage either way |
| Request log (`db/sqlite.go`) | channel, batch, table | RecordLog, worker, Close, ClearLogs | full channel, shutdown, process exit | each record one fate, order, flush |
| Scheduler (`queue/scheduler.go`) | four queues, semaphore, workers | Enqueue, Dequeue, worker, Stop | workers racing, Stop | each request once, order, slots |
| Queue manager (`queue/manager.go`, `queue.go`, `limiter.go`) | token bucket, sliding windows, degradation | SubmitRequest | a refusal has used up the earlier limits | limits hold; refusals cost nothing, where they can be free |
| Workflow engine (`workflow/engine.go`, `task_manager.go`, `event_bus.go`) | tasks, agents, agent queue, rounds | Start, Stop, CreateTask, status changes, workers | task chosen and assigned in two steps | priority, no worker repeats a task that nobody resets, Stop ends, no pending task is forgotten |
| Context manager (`workflow/context_manager.go`) | items by key | Add, Get, Remove, Clear, cleanup | Get between two locks; eviction | least valued goes first, critical never |
| Token manager (`auth/manager.go`, `storage.go`) | tokens, cache, file, stop channel | GetToken, AddToken, SaveToStorage, LoadFromStorage, Start, Stop | asynchronous saves, failing writes, crashes, refresh between locks | the file holds what was saved; no token is refreshed twice |

The remaining parts (configuration, format conversion, credential capture, SSE broker,
server and middleware, desktop shell, scripts) are in `PROJECT.json` with the reason
each is left out. `PROJECT.json` also lists every hazard found, at its line, with the properties that
cover it or a note why none does.

## Modules

| module | models | state and actions against the code |
|---|---|---|
| `BreakerOps` | the methods of `CircuitBreaker` as operators on one value | each runs under `cb.mu`, so each is one step; the clock is the time since the last failure, in ticks |
| `CircuitBreaker` | one breaker with the concurrent calls it guards | a call is let through, then reports success, failure or nothing (an error other than 401/403 is not reported) |
| `AccountPool` | `auth.Pool` | each caller is a program counter; a step is what happens between two lock operations: one hold of `p.mu`, one breaker method, one critical section of `acc.mu`. The hold of `acc.mu` is split where a renewal makes an HTTP call. What a renewal brings may be any token: new, the one of before or an older one, and from the API an expired one |
| `Gateway` (extends `AccountPool`) | the handlers of `proxy.go` | begin, outcome of the upstream request, report, retry; history: the tokens reported and not brought again since (`rejected`) |
| `PoolWatch` (extends `Gateway`) | an observer | which accounts have been healthy since a call of GetToken began, and whether something has disturbed the call |
| `ModelRouting`, `MCRouting` | `models.Registry`, its refresh, and a request's three lookups | each registry method is one step; the refresh is a step per list entry, as each is an `Upsert` of its own |
| `UpstreamLimiter` | `protect.Limiter` | the two waits of AcquireContext, cancellation in each, release |
| `Projector`, `MCLimiter` | `protect.Projector` | functions on texts, which are sequences of runes with lengths; the sizes are constants |
| `LogSink` / `LogStore`, both with `LogBatch` | what the log promises / how `sqlite.go` does it | `LogStore` implements `LogSink` under `pending <- batch \o queue`; `LogBatch` says what a failing insert may leave of a batch |
| `Scheduler` | `queue.Scheduler` | a worker checks the context, dequeues and takes a slot in three steps |
| `RateLimiter` | `queue.RateLimiter` and its three limits | Allow is one step; refill and the end of each timestamp's minute are steps of time. Each window reads the clock for itself, so the two timestamps of a request may leave apart: `torn` (history) says that they have |
| `QueueManager`, `MCQueue` (extends `Scheduler`, `RateLimiter`, uses `BreakerOps`) | `queue.Manager` | SubmitRequest is one step, as `m.mu` makes it; a processor reports to the breaker when it ends |
| `Agents` | what each agent does with a task's type and how its job can end | operators, used by `Workflow` |
| `Sorting` | the exchange sort that the task queue and the eviction both write out | folds over the places; the order is a set of pairs |
| `Workflow`, `MCWorkflow` (extends `Agents`) | engine, task manager, event bus | rounds of the scheduler as a number of sends still to do; a worker takes an agent, asks for a task, assigns it and runs in four steps; Start sets its flag and starts the goroutines in two. Anybody may set any status, pending included |
| `ContextManager` | `workflow.ContextManager` | Add with its eviction is one step, Get two; a pointer Get holds to an item that has gone leads nowhere; its specification is `ContextSpec`, so that it and `Workflow` can be proved about side by side |
| `TokenManager`, `MCTokens` | `auth.TokenManager` and `FileTokenStorage` | one step per method, GetToken two (find the token invalid; refresh what the account then has), SaveToStorage one per account, AddToken's goroutine a step of its own; a crash forgets all but the file. AddToken and a refresh may bring any token, one of before too |
| `ThinkSplitter` | `proxy.ThinkSplitter`, `WrapStreamHandler` | one step per event: text in any chunks, one other event, finishes or errors anywhere, the end; the loop of `drain` is recursive |
| `EventStream` | what `streamEvents` and `streamAgentTaskEvents` deliver | any event in any order, failure at any point, an end only where the channel's loop takes it as a success |
| `AnthropicStream`, `ResponsesStream`, `ChatStream` (extend `EventStream`) | the three handlers | one step per event: the callback, with every write it makes to the client; `NonStreaming` is the reply of a client that asked for no stream |
| `ReplyCollector` (extends `EventStream`) | `collect` | one step per event |
| `StreamAdapters` | composes the five | the callbacks of all adapters take each event of the stream in one step; the end and the failure of the stream are theirs too |
| `GatewayProofs`, `UpstreamLimiterProofs`, `QueueManagerProofs`, `LogStoreProofs`, `WorkflowProofs`, `ModelRoutingProofs`, `TokenManagerProofs`, `StreamAdaptersProofs` | theorems | each extends the module it is named after; `GatewayProofs` has those of `PoolWatch` and `CircuitBreaker` too, `WorkflowProofs` those of `ContextManager` |

Definitions keep the names of the source. Variables called history in a module are not in the code:
they record what happened so that properties can compare it with the state. In each module the
definitions marked `Slip` are plausible mistakes in the definition that
follows them; no specification uses them, they are there to show that the properties would notice.

## Runs

| run | bounds | shows |
|---|---|---|
| `breaker` | 3 calls, threshold 2, 2 half-open successes, timeout 1 tick | counters agree with what really happened; trips and closes only on runs of failures and successes; recovers |
| `gateway` | a chat with its retry and a model-list fetch, 2 accounts, one with refresh, reload from its source and expiry, one with neither, 2 tokens | locks balanced; no rejected token handed out unless a renewal brought it again, no expired one but by the caller's own refresh; a call finds a healthy account if meanwhile no availability changes and nobody moves the index past an unavailable account; every request ends |
| `pool_found` (violation) | 2 callers, 2 accounts | a call that is disturbed may not |
| `limiter` | 3 requests, 2 slots, interval 2 ticks; texts up to 6 runes, lists of 4 messages | slots exact, spacing, cancelled requests leave, no stall; `TruncationFits` and `ProjectionFits` compare the projector with its definition |
| `log_store` | 4 records, channel 2, batch 2, one ClearLogs | one fate each, order (refinement), Close flushes, everything settles |
| `queue` | 3 requests of one account (high, normal, no priority), 2 workers, 1 slot, 2 places, bucket 1, 2 tries and 1 admission a minute | one place each, order, slots, limits, Stop ends and is final, everything processed |
| `workflow` | 2 tasks of two priorities, 2 workers, 1 agent, agent queue 1, 2 Starts, 1 handler and 2 sends under way | as in the table above |
| `context` | 2 agents, 1 task, global: 4 keys; size 3, 3 priorities, 1 counted access, 1 reader | eviction takes the least valued; only critical items outgrow the size |
| `tokens` | 2 accounts, one with 2 tokens, 3 tokens stored, 1 caller and the loop, 1 failing write or crash | file and cache; SaveToStorage is a snapshot; no token is refreshed twice unless given again; the loop ends |
| `routing` | 2 agent-channel models, 1 preset, all lists of up to 2 of 7 entries, 9 names, 1 request | registry consistent; routing right; names keep resolving |
| `think_splitter` | all texts up to 6 characters, each finish counting as one, all ways to cut them, one other event anywhere | the classification is that of the whole text, cut at its finishes, and of `SplitThinking`; only an unfinished tag is held back, also before another event; nothing moves across a finish |
| `adapters` | all streams up to 4 events, 2 tool calls, one with arguments that are no JSON, 3 reasons | framing, nothing lost, the ending reported, the same reply gathered or streamed but for the differences named with `SameReplyEitherWay` |

Why the bounds are enough. The safety properties of all components but the streams and the projector are proved for every
value, so for them the runs only have to make each action happen, and what follows matters for the rest. For liveness the pool needs two callers for every race on one account or on the index, and
a second account so that the loop has somewhere to go. A channel of two and a batch of two
with four records reach every combination of full and partial. One slot
with two workers makes a worker block with a request in its hand; two tries and one admission a minute are the least
with which a refusal stays in the user's window. Two workers are what it takes to be given one task twice, one agent to see the
engine run out of agents; the sort itself is compared with its definition on all 81 sequences of four tasks (`SortAgrees`).
Four keys and a size of three evict on every kind of item, with scores (1, 2, 4 times 1 or 2) that tie and overtake. Two accounts show a snapshot cut in two; one
fault is a failed write after which everything succeeds, or a crash; two tokens are an old and a new one, and three stores bring the old one back. The projector's passes are 6 and 4 bytes, its marker one byte, and runes of two bytes
are cut at every place. Two list entries are what it takes to
take over a name and an alias and to make a prefix ambiguous. In the
streams, interleaving shows with two tool calls in three increments, a resumed item in three events, and both with a finish in four. The tags of the
splitter have two and three characters, so five hold a complete block or any
partial tag on either side of a cut, and the sixth is for a finish in it. A finish takes the place of a
character, so that text, tags and further finishes follow it in every way the bound allows.

### Fairness

* Goroutines that can run do run (weak fairness of a request, a worker, the log's worker, a round, SaveToStorage).
* A blocked channel operation or a mutex is served in the end (strong fairness of
  `Acquire`, `GetSlot`, `LoopRefresh`): Go serves waiters of a channel in order and a waiting writer before later readers, and `select` chooses at random among the cases
  that are ready (strong fairness of `SchedulerEnds`, `WorkerEnds`, `TakeAgent`, `LoopEnds`).
* Time passes and network calls end: renewals have a 30 s timeout, upstream requests the
  transport's. `CircuitBreaker` assumes calls that succeed only
  for `Recovers`, whose premise says that failures stop. Tickers tick; an agent's Run, which only sleeps, returns; a processor returns.
* Nothing makes a handler write a record, a client cancel, or anybody submit, create, start, stop or close anything.

## Where the code differs from what it says

The run `pool_found` ends in a violation on purpose; it states what a comment says: `GetToken` can miss a healthy
account, because `p.index` moves under its loop (`auth/pool.go:366`). `PROJECT.json` quotes the lines.

Reading the code for the models showed more, which no run states.

* Gateway. `os.Exit` skips the deferred `Close` of the log, which "gracefully flushes" (`cmd/trae-proxy/main.go:350`, `db/sqlite.go:149`).
  A refresh API that answers with an expired token has it handed out once (`auth/pool.go:288`; the reload asks at `304`).
  The `[DONE]` that closes a stream overwrites the finish reason `length` in the Anthropic stream (`protocol/anthropic.go:463`), and a cut
  Responses reply is `incomplete` when it is streamed and `completed` when it is gathered (`protocol/common.go:63`). An upstream
  reason `tool_calls` reaches an Anthropic client that has got no tool (`anthropic.go:206`). Arguments that are no JSON become `{}` only in a
  gathered Anthropic reply (`299`), and a call without an id gets one only in a streamed one (`442`).
  The ids of the Responses reply object drift when text or reasoning resumes (`protocol/responses.go:473`).
  The retry after a 401 asks for "the next account" and may get the same one again (`proxy/proxy.go:102`, `auth/pool.go:331`).
* Registry. A refresh that finds a registered model drops its channel (`models/refresh.go:73`). A prefix that a client relies on may become
  ambiguous and fall to the default model. `Upsert` overwrites a model that readers may still hold (`models/registry.go:129`), and `Resolve` takes any of several ids of one
  normalized name, in the order of a Go map. The aliases in `README.md:288` are not all registered.
* Queue. `HalfOpenMaxCalls`, "Max calls in half-open state", bounds reported successes and not calls (`queue/limiter.go:35`, `77`). VIP requests are
  not "preemptive": a request in a worker's hand starts first (`queue/priority.go:14`, `queue/scheduler.go:151`). `ErrDegraded` is never
  returned, as the degradation levels are tested from the lowest threshold up (`queue/limiter.go:232`). Each window of the limiter reads the clock for itself, and nothing keeps
  `AccountRPM` from exceeding `UserRPM` (`queue/queue.go:92`, `158`): in either case refused tries can cost an account its admissions. A refused request has drained the global bucket, and may have turned the breaker half-open. After Stop, requests are
  accepted that nobody takes. The SSE handler of an old connection removes a newer client with its ID (`queue/sse.go:211`), and broadcasts write `LastActivity` under the read lock (`81`).
* Workflow. Two workers can be given one task (`workflow/engine.go:142`); `AssignTask` and `FailTask` overwrite any status, a cancelled one too. No agent returns to idle,
  success never completes a task, and nobody publishes `EventTaskCreated`. With no idle agent left a pending task waits for good. `Start` adds to `e.wg` after it has let go of the lock, so a `Stop` in between waits for nothing. A restarted engine's workers end at once, for `e.ctx` stays cancelled. The types of `internal/agent` do not
  satisfy `workflow.Agent`. `TaskContextHelper.Set` ignores its priority; `GetStats` writes to a nil map.
* Tokens. The saves of one account can land in any order; `RemoveToken` is not told to the storage, and a refreshed token is not saved. `GetToken` returns neither token nor error when the account is
  removed during its refresh, and two callers that find a token invalid make two refreshes, the second of a token that may be good. A restarted loop ends at once, and the second `Stop` closes a closed channel (`auth/manager.go:167`). `LoadAll` writes the cache under the read lock.

## Proofs

From the assumptions on the constants only:

* `GatewayProofs`, the circuit breaker. The inductive invariant is `BreakerInv`. A property such as "trips only after
  Threshold failures in a row" needs that `failureCount` of a closed breaker *is* the run of
  failures, which needs every method to reset or count correctly in every state; and "never stuck" needs that
  `successCount` of a half-open breaker is below its limit. `MethodsTyped` types the methods; `BreakerNextInv` has one step per action; `NeverStuck` and `OnlyInARow` follow from the invariant.
* `GatewayProofs`, the pool. That a rejected token stays out (`RejectedStaysOut`) is not inductive: the token may be reported
  long after it was handed out, when the account has a newer one. `RejectedRetired` says what every interleaving keeps:
  a rejected token that its account has is marked `stale`. A renewal that brings a token excuses that one, for neither the API's answer nor the source is
  compared with it. `TokensKnown` says when a caller has a token. `LocksMatch` ties each mutex to the program counter of its
  holder, and `LoopBounded` keeps the loop counter in range. A step changes one caller's locals: `LocksKept`, `TokensKept` and `LoopKept`
  say when that is harmless, `FreeStep` and `StepInv` combine them, and each action has its lemma. `WhereGiven` finds the four
  places where GetToken hands out a token; `NeverReusesRejected` and `NeverExpired` are
  checked at each. An expired token is given at one of the four only: a renewal by the API, in the step in which it comes.
  That an undisturbed call finds a healthy account (`QuietCallsFind`) is not what it seems, as the call does not walk N places from one
  start: others move `p.index` under it, so it may pass an account twice and another never. `WalkInv` says what saves it (`Seen`): either all
  places so far, counted from the index of now, are unavailable, or the last place to come is the account the index has just been moved past, which is available.
  It needs that the index is moved only past an available account (`IndexMoves`), that the last place from there is that account (`LastPlace`), and that the N places
  are all the accounts (`PlacesAreAll`). A call is disturbed when the availability of any account changes, or when a caller moves the index past an account that
  is unavailable, though it was given that account while it was available. With two accounts that is enough to make a call visit the failing one twice.
* `UpstreamLimiterProofs`. `LimiterInv` says that the channel's count is the number of
  requests between GetSlot and their release or cancellation. Three lemmas (a request becomes a holder, one leaves, nothing
  changes) carry the cardinalities; every action is one of the three. `Capped` needs that running
  requests are among the holders, `Spaced` that `sinceLast` is the real distance to the last start.
* `QueueManagerProofs`. `RateInv` is not inductive: that a user's window is full only when the account's is depends on how many of its timestamps are refusals. `RateRoom` bounds them by
  `UserRPM - AccountRPM` (where that is not negative), which holds as a refusal is counted only while the account's window is full, and as long as the two timestamps of each
  request leave together (`~torn`); `torn` is forgotten when both windows are empty. Nothing is assumed of the two limits: where the user's is the lower one the theorem says only that neither is exceeded. `StopIsFinal` needs that every worker is gone once Stop has returned.
  That a request is in one place (`SchedulerInvariant`) is proved by keeping the places apart (`PlacesApart`: queues, hands, slots, done) and counting
  them (`AllCounted`); `TotalLength`, a fold over the four priorities, is shown to be a sum first. `OlderFirst` needs `InOrder`: each queue is in the
  order of acceptance, and nothing younger has left it before something older.
* `LogStoreProofs`. What is accepted is counted in one of five places, and none of them holds a record twice (`NoneTwice`). `Shutdown` says why Close
  flushes: from the last flush on, nothing that was accepted before Close is in the channel. The lemmas on sequences (append, tail,
  concatenation, the part of a batch that is written) carry both. The refinement is proved step by step: `RecordLog` accepts, `Receive`
  stutters (it moves a record from `queue` to `batch`, and `batch \o queue` stays), `Flush` settles the batch, `ClearLogs` clears.
* `WorkflowProofs`. Two workers can be given one task, but no worker is given one twice unless somebody has set it pending in between (`TasksRunOnce`):
  a task that a worker has been given, and nobody has set pending since, is pending only until that worker has assigned it (`GivenOnce`). `HighestPriorityGoesFirst` needs that the queue is sorted when a task is looked for, and the queue is sorted by nested
  exchanges: `FoldSolution` shows that a fold exists as a function on the sets of places, `ExchangeOrder` that one exchange keeps all elements
  and brings the right one forward, `FillPlaceSettles` that a pass settles its place, `SortBySorts` that all passes sort, for every sequence and every
  strict order. The eviction of the context manager uses the same lemma: `EvictionsAreLeast` says that what goes is worth no more than what stays, and
  `AddKeeps` that enough goes, unless what is critical is too much by itself.
* `ModelRoutingProofs`. What is looked up at three moments fits because of what a refresh never does: a model never leaves the registry or
  the legacy channel, and one on the legacy channel has its own name as upstream name (`RegistryIInv`, `Kept`). So a request whose channel was
  chosen before an entry is merged still finds the name it needs (`RequestIInv`); and only a builtin model that is no preset is on the agent channel. The registry at start-up is two folds over lists of any
  length (`BuiltinsLoad`, `DefaultsLoad`). `RoutingAssumption` states the facts of the two tables that routing rests on: that no name is empty, that `ResolveChannel` lists
  every preset as a legacy name and no builtin model as one. It is the proof that needs the last: without it a builtin model could be asked for on the legacy
  channel, where it has no name.
* `TokenManagerProofs`. `Inv` strengthens `StorageInv` in three ways: the cache, too, holds saved or failed tokens, for another
  account's save writes it out; what `SaveToStorage` has passed is in file and cache as long as `clean` holds (`SnapInv`); the token an account has
  has brought no refresh since the account was given it (`UseInv`), for a refresh presents what the account has in that moment, not what the caller has found invalid, and what
  it brings counts as given anew, whichever token that is. `GivenKeeps` and `RefreshedKeeps` carry that over the two ways of giving a token.

* `StreamAdaptersProofs`. Each adapter has an invariant of its own that says, as long as the stream goes on, what its wire shows of its state: `WireRight` (Responses) that the items
  open on the wire are the one in `item` and those of the tool calls, and that as many were added as indices given; `BlocksRight` (Anthropic) that the blocks
  started and stopped on the wire are `blockIndex` and `blockOpen`. An event that fits what is on the wire then leaves a framed wire
  (`NextItem`, `NextBlock`), and each method writes only such events. At the end of the stream the tool calls of the Anthropic handler are rendered by a fold over their order,
  and `AnthFlushes` carries the invariant along it. `EndingReported` says what holds: an Anthropic client with tool calls is told to run them (one without may be, if the
  upstream says `tool_calls`), and a Responses reply is not `completed` after `length` unless a reason other than `stop` follows. It needs what the stream was: that there is an accumulator exactly if a tool event has come (`ToolCallsSeen`, by
  `Arriving`: the order of the accumulators is that of the first increments), that a reason that cuts the reply stays (`Cutting`), and where the first finish and the last usage are (`ChatStreaming`).
* `StreamAdaptersProofs`, that nothing is lost (`NothingIsLost`). `NothingLost` speaks of a reply that has ended; what is inductive is that, as long as the stream goes on, what a
  handler holds and what it has written are together what was delivered to it. For the Responses handler (`RespTextInv`): what it has gathered (`RespGathered`) lists the positions of its type, the text of an open item is what was
  streamed under its id and the text of a done one is so for good (`WireText`), because increments come on the wire in the order of the stream. `OutputHasAll` reads
  the reply object off that, and `AllDone` that every item is done exactly once though the tool calls are closed by a fold. For the Anthropic handler
  (`AnthTextInv`): text and reasoning are on the wire (`Shown`), tool calls in the accumulators, under the id that any increment had (`Accumulated`).
  `CallsRendered` places call m of the order at three times m - 1 events after the last block, along the fold that renders them, and `CallPlacing` shows that there is no tool block elsewhere, so that
  blocks, calls and accumulators correspond. `ListingCalls` carries the order: the first increment of a call is the least of its positions, and the accumulators are in the order of these.

The facts about folds (`UpTo` to `FoldSolution`) are in the modules that need them, and so are those about appending to a sequence.

Only model-checked: every liveness property and the fairness it needs, which are beyond the prover; that the adapters reply the same either way (`SameReplyEitherWay`), which concatenates what the client reads with `FlattenSeq`, a recursive function, and orders with `SetToSortSeq`; that chunking is invisible to the splitter (`ChunkingInvisible`), whose `drain` is recursive; and the functions of the projector, compared with their definitions over
bounded texts.

## Not modelled

JSON and SSE parsing, encryption, HTTP, file formats: conversions without state; their outcomes are
nondeterministic choices. Registration of accounts while requests run:
`main` registers them before it serves. The request conversions of the adapters; a reply whose body is plain JSON (`proxy/proxy.go:214`); the word filter, which replaces in the order of a Go map. A `Start` of the workflow engine while a `Stop` still waits, and the
cancellation of the context given to `TokenManager.Start`. The data races named above: each step here is what one hold of a lock does. The
components marked `not_modelled` in `PROJECT.json`.

## What is left

Proofs: `SameReplyEitherWay`. From `NothingIsLost`, and the same of what `collect` gathers, both replies list the same
positions in the same order; what is missing are facts about the concatenations, selections and sorts that compare them.
Models: the SSE broker; the pool together with the limiter, to see how
old a token is when its request is sent.

# A verification project for WaddleAI

This directory holds TLA+ models of WaddleAI's core logic, the TLC
configurations that check them on small instances, and TLAPS proofs that hold
for every size. `PROJECT.json` is the machine-readable index: components, runs,
the mutants that show each property can fail, the map from definitions to
source lines, findings, hazards and theorems.

Run a model with `tlc -config <name>.cfg <module>` and a proof module with
`tlapm <module>.tla`.

## 1. The system

WaddleAI is an AI gateway. A Quart **proxy** authenticates a chat request, gates
it against token budgets, runs content filters, consults caches and memory,
routes it to a provider, filters the answer and meters it. A **management**
service (REST and gRPC) keeps keys, quotas, providers, policies and the model
fleet. **Penguincode** is a coding assistant that talks to the gateway and runs
agents of its own. `shared/` holds the libraries of the two services. State that
outlives a request is in Valkey (counters, caches, sticky sessions, the
scratchpad's hot tier), in the SQL database, or in the memory of a process; the
proxy image starts four hypercorn workers (`proxy/Dockerfile`), so everything "in
memory" exists four times and everything shared is written by four event loops
and their threads.

| Component | State | Operations | Hard behaviour |
|---|---|---|---|
| Usage metering (`shared/utils/metering.py`) | event buffer, retry queue, flush task, `token_usage` rows | record, start, flush, stop, write_aggregated_row | swap while recording, write failures, overflow of the retry queue, stop timeout, select-then-update across processes |
| Token limiter (`shared/utils/token_limiter.py`) | Valkey counters per minute and month, reservations | reserve, reconcile (Lua), key expiry | partial reservation on rejection, reconcile in a later window, expiry |
| Proxy pipeline (`pipeline/stages.py`, `main.py`) | request context | twelve stages, each may block | what a blocked request leaves behind: reservation, usage, cache |
| Request router (`shared/utils/request_router.py`) | breaker counters, cooldown and probe flag per provider | select_provider, fallback, health check, stats update | half-open probes, concurrent requests, stale health |
| Response cache (`shared/cache/exact.py`, `response_cache.py`) | Valkey entries, per-org index and byte counter | get, put, evict | multi-command writes, expiry against the counter |
| Cached configuration (`shared/cache/config.py`, `shared/routing/policy.py`, `assignments.py` and their endpoints) | SQL rows, copies in Valkey | resolve, write, invalidate | a copy written after the write that should have removed it, lost deletions |
| Routing engine (`shared/routing/`) | sticky sessions in Valkey | decide, escalate, de-escalate | the order of clamps, overlapping turns of a session |
| Working memory (`shared/memory/`) | scratchpad in Valkey and SQL, summaries | put, get, delete, summarise | two-tier writes, re-warming races a delete, versions inserted twice |
| CodeRAG worker (management `app/services/coderag_worker.py`) | clone directory, chunk rows | index, webhook, cron | runs of several branches in one clone |
| LLM connectors (`shared/utils/llm_connectors.py`) | a queue between a thread and a coroutine | stream | a wake-up that is lost |
| Users, organisations and keys (management `app/api`, `shared/auth`) | SQL rows | every writing endpoint, login | select-then-update, a check that is stale when the write happens |
| Token manager (`shared/utils/token_manager.py`) | `token_usage`, `usage_cache` | process_usage | three read-modify-writes, midnight between them |
| Usage tracker (`shared/agents/usage_tracker.py`, `shared/licensing/gate_cache.py`) | reports, cached licence answer | record_usage | a licence server that fails, checks that overlap inserts |
| Fleet (`shared/fleet/`, management `ollama_manager.py` and `api/v1/ollama.py`) | deployments, models | place, pull, delete | a download of an hour with no lock |
| Agent hooks (`shared/security/hooks*`, endpoints) | rules, denylist, configs, policies | evaluate, write | one scope after the other, each in its own query |
| Penguincode (`services/penguincode`) | history, agents, MCP process, REPL session | process, compact, call_tool, skill, config | overlapping messages of a session, cancellation, replies matched by position |
| Filters, memory adapters, vector stores, MCP gateway, licence client | none of their own, or text | scan, search, call | verdicts and outages, taken as choices by the models above |
| Web UI, CLI, editor extension, Helm, proto | clients and packaging | - | no protocol state |

What makes each part correct:

- *Metering*: every event is counted exactly once, or given up for a stated
  reason; `stop()` returns; a retry queue drains.
- *Limiter*: counters and admitted requests stay within the limits; a
  reservation is credited back once.
- *Router*: a provider that answers is offered; a tripped one is tried again.
- *Pipeline*: what a request reserves, spends, stores and caches is settled by
  the time it ends, however it ends, and its answer carries no placeholder of the
  upstream filter. The code keeps neither for every way a request can end
  (section 3).
- *Response cache*: an organisation stays within its quota, entries can be found
  by eviction, the eviction loop ends.
- *Cached configuration*: a copy differs from the database only for a reason one
  can name, and not for good.
- *Routing*: a sensitive request stays on local models through fallback, and, says
  the code's docstring, through escalation, which it does not; a conversation that
  begins anew does not inherit another's escalation.
- *Memory*: quarantined text is never read, the two tiers agree; a summary
  covers what was left out in its favour; an index is repaired by the next run, as
  far as its files' hashes tell it.
- *Accounts*: no update undoes another request's column; a revoked key opens
  nothing.
- *Token manager, usage tracker*: a call is charged once; the free tier's cap
  holds.
- *Fleet*: the model cap holds; a deployment does not stay "pulling".
- *Agent hooks*: a row that stood all along is honoured whatever else is written.
- *Penguincode*: supervision ends, context is not lost, a caller gets its own
  reply, a command's effect ends with it.

## 2. The modules

| Module | Models | Checked by | Proofs |
|---|---|---|---|
| `MeteringBuffer` | `shared/utils/metering.py` | `MCMetering` | `MeteringBufferProofs` |
| `UsageLedger` | what metering promises (abstract) | `MCMetering` | `MeteringBufferProofs` |
| `TokenLimiter` | `shared/utils/token_limiter.py` | `MCTokenLimiter` | `TokenLimiterProofs` |
| `CircuitBreaker` | `shared/utils/request_router.py`, selection in `DispatchStage`, `count_tokens`, health checks | `MCCircuitBreaker`, `MCControl` | `CircuitBreakerProofs` |
| `ProxyPipeline` | `pipeline/stages.py`, the chat handler of `main.py`, the pseudonym maps of `upstream_filters.py`, the write-back of `response_cache.py` | `MCProxyPipeline` | `ProxyPipelineProofs` |
| `Scratchpad` | `shared/memory/scratchpad.py` | `MCMemory` | `MemoryProofs` |
| `Summaries` | `shared/memory/summarizer.py`, `SummarizationStage` | `MCMemory` | `MemoryProofs` |
| `CodeIndex` | management `coderag_worker.py` | `MCMemory` | `MemoryProofs` |
| `ExactCache` | `shared/cache/exact.py` | `MCControl` | `ControlProofs` |
| `ConfigCache` | `shared/cache/config.py`, `shared/routing/policy.py`, `assignments.py`, and the endpoints that write their tables | `MCControl` | `ControlProofs` |
| `Routing` | `shared/routing/engine.py` with budgets, sensitivity, capability, escalation | `MCControl` | `ControlProofs` |
| `Fleet` | `shared/fleet/caps.py`, `placement.py`, management `ollama_manager.py`, `api/v1/ollama.py` | `MCControl` | `ControlProofs` |
| `BedrockStream` | `BedrockConnector.stream_chat_completion` | `MCControl` | `ControlProofs` |
| `Accounts` | management `auth.py`, `users.py`, `keys.py`, `organizations.py`, `quotas.py`, `shared/auth/rbac.py` | `MCPlatform` | `PlatformProofs` |
| `TokenQuota` | `process_usage` of `shared/utils/token_manager.py` | `MCPlatform` | `PlatformProofs` |
| `UsageReports` | `shared/agents/usage_tracker.py`, `gate_cache.py` | `MCPlatform` | `PlatformProofs` |
| `AgentHooks` | `shared/security/hooks_*.py`, `policy_resolver.py`, `policy_engine.py` and their endpoints | `MCPlatform` | `PlatformProofs` |
| `Foreman` | `ChatAgent.process` and the planner of penguincode | `MCPenguin` | |
| `ChatHistory` | its conversation history | `MCPenguin` | `PenguinProofs` |
| `McpStdio` | penguincode `tools/mcp` | `MCPenguin` | `PenguinProofs` |
| `Repl` | penguincode `core/repl.py` | `MCPenguin` | `PenguinProofs` |

In every module a step is what the code does between two awaits (or, in a
thread or a Lua script, between two commands that others can see). Operators
whose comment says *mutant* are deliberately wrong variants of the definition
that follows them; no specification uses them. The check that a property can fail
substitutes one for the definition it stands next to.

**MeteringBuffer.** `buffer`, `pending` and `running` are the fields of the
object; `loop` and `stopper` say where the background task and `stop()` are, and
`late` what `record()`, which asks neither, took once `stop()` had begun its last
flush;
`todo` and `failed` are the locals of the `flush()` in progress; `thread` is the
executor thread in which one aggregate is written, `orphan` one that a cancelled
flush left behind; `usage` is the `token_usage` table. `Swap` is the part of
`flush()` under the lock, `Select` and `WriteOk` the two halves of
`write_aggregated_row`, `FlushEnd` the re-queueing. Numbers in a row are
abstracted to how often the row counts each event. **UsageLedger** is the
abstract specification: an accepted event is held until it is billed once or lost
for good. `MeteringBuffer!Entry` maps the state of one worker to it; `Ledger`
instances the abstract module with that mapping.

**TokenLimiter.** `counter` and `expiry` are Valkey's counter keys per virtual
key, dimension (tokens per minute, tokens per month, money per month) and
window; `resv` the reservation keys. `LuaReserve` and `LuaReconcile` are the
scripts, atomic as in Valkey, with the increments the reserve script makes
before a later check rejects. `ReserveCall` and `ReconcileCall` read the clock
and load scripts; the script runs later. Charges are summed unit by unit
(`Spent`). `ReserveError` fails open, with or without the script's effect. Time
is counted in minutes; `MonthOf` maps minutes to months.

**CircuitBreaker.** Statistics are kept as far as decisions read them:
`failures` saturates at the threshold, `cool` is the cooldown left, `probe` is
`half_open_probe_in_flight`. `Recorders` run `_execute_with_fallback`,
`Dispatchers` are `DispatchStage`. The six strategies pick any offered provider.

**ProxyPipeline.** `pc` is the index of the stage a request is in; `ctx` its
context, with the response as none, raw, vetted or open (let through by a filter
that failed), and with the placeholders that still stand in it (`unrestored`) or
were filled in from another message's map (`mixed`), which a write-back takes into
the cache and a hit out of it. `In`, `SkipByFlag`, `ShortCircuit` and `Abort` are
`ProxyPipeline.run`; then one action per stage. `DispatchStage` is several actions
because it stores one pseudonym map per message, with an await each; a map expires
whenever its TTL is over (`ExpireMap`). `slipped` remembers the requests for which
a reserve or reconcile failed and was swallowed. `Answer` is the handler after
`run()`, `WriteBack` the task it leaves on the event loop.

**Scratchpad.** One (org, session, user). `row` is Postgres, `hot` Valkey; every
call has a position `at`. `seen` is what a `get()` read from Postgres and has not
yet put back. `serial` remembers whether calls have overlapped or failed, for the
two properties that only hold while they have not.

**Summaries.** `table` is `conversation_summaries` in insertion order, `step`
the await each request is at. `SelectLatest`, `Dispatch` (the model),
`FilterOnWrite`, `InsertSummary` (which the unique index may refuse) and
`MarkSuperseded` are `maybe_summarize`; `Recall` and `Raise` what
`SummarizationStage` does with its result. `view` is the summary a request
holds: whose turns it was made `of` and how many it `covers`. The INSERT's
parameters for `org_id` and `conversation_id` are in the wrong order, which the
model keeps (`Stored`): a conversation id that is not a number cannot be
inserted at all.

**CodeIndex.** `origin` is the remote, `local` and `head` the one clone directory
all branches share, `chunks` the rows of `code_chunks` counted by hash. A run
reads the tree file by file (`ReadFile`), compares (`Diff`), deletes and inserts.
Checkout and pull are each one step; the failure of a second cloner is `Abort`.
The comparison is of sets, so a row that is there twice stays there twice; `crossed`
remembers the files into which runs that overlapped have inserted.

**ExactCache.** `entry`, `idx` and `bytes` are the three kinds of Valkey keys of an
organisation; one action per Valkey command of a put, with the local variables in
`put`. `BreakOff` is an error or a cancellation between two commands, `Expire` the
TTL, which touches the entry alone. `Stored` counts bytes as pairs of a key and a
number, one for each byte. The ghost `spoilt` says which of the three
things the code makes no provision for have happened: overlapping puts, a put that
was broken off, an eviction of the very entry being overwritten.

**ConfigCache.** `row` holds versions, `hot` the copies. A resolution GETs its keys
one by one, fetches the missing rows in one query in a worker thread, and SETs
them; a write commits, then deletes copies in a second step that may fail.
`Clears` and `DependsOn` differ where the code's deletions miss a key (the global
assignment in an organisation's copy; `seed_assignments`). The ghost `excused`
holds the copies that such an omission, a lost deletion or a late SET left old.

**Routing.** The pure part is a chain of operators after the engine's own methods
(`Qualified`, `Vetoed`, `Chosen`, `Chain`, `PickFinal`, `Decide`; a chain is a set
of models, listed in the policy's order by `Ordered`); the state is the
sticky key of each session, which names no organisation, while the policy is that
of each request's own. `ReadSticky`, `Reset`, `Mark` are the Valkey commands of one
request, so that turns of a session overlap; `Lapse` is the TTL of its key.

**Fleet.** `dep` and `placed` are the two tables, `job` the step of each placement,
pull or deletion. `EnforceModelCap`, `FindDeployment`, `MarkPulling`, `PullEnds`,
`TrackModel`, `SettlePull` follow one pull; `LosePull` is the end of the process.
A statement is a step whether or not the driver defers it to the commit.

**BedrockStream.** The two halves of `put_nowait` in the worker thread (`PutItem`,
`WakeupNext`) and of `get()` on the loop's thread (`FindEmpty`, `Register`), with
the loop asleep in `select()` or not. asyncio is external.

**Accounts.** All rows in one function; a request authenticates (`SelectKeys`,
`SelectOwner`), reads its target (`ReadTarget`), and writes the columns it was
asked for. A login writes the login columns from the row it read before it checked
the password: `last` (the time and address of the last login) and the count. `meant`
is what the rows would be had the requests come one after another, `overlap` the
users two of whose logins have overlapped, and `valid` what was good while a request
was handled.

**TokenQuota.** `tbl` are the rows of three tables; a row is the set of calls it
counts, so that a lost addend shows. A call passes the tables in order; `SelectRow`
and `UpdateRow`/`InsertRow` are separate, `GiveUp` is an error, `Midnight` moves
the day. `date.today()` and `utcnow()` are one clock.

**UsageReports.** `Gate`, `Answer`, `NoAnswer` are the licence gate with its cached
answer, `Check` and `Record` the query and the insert. All within one month.

**AgentHooks.** An evaluation reads denylist, rules, configs and policies, scope by
scope; the endpoints write the same tables. `stood` remembers the rows that nobody
entitled has written since an evaluation began. The resolvers' Valkey caches are
not state: the management service gives them a synchronous client, so that every
awaited GET and SCAN raises, and they never hit.

**Foreman.** `at` is where `process()` is for each message, `line` and `free` the
semaphore, `round` and `result` the supervision loop, `draft` the last plan.
`RunOutput` and `ParsedSteps` are the format the planner writes and the one the
parser expects. `adjust_max` of the semaphore changes only `_max`, which no wait
looks at, and has no action.

**ChatHistory.** `history` and `summary` are the agent's fields, `keep` and `cut` the
locals of a compaction that awaits its summary. The except branch around the
summary is unreachable, since `_call_llm` catches everything.

**McpStdio.** `asked` and `lines` are the two pipes of the server process, `want` the
id a caller has written and waits for. `Start`, `Proceed` and `Shutdown` are the
discovery, which has no timeout. A line over the 64 KiB that asyncio's stream takes
by default is `Long`: `ReadOverrun` raises, and drops the line or leaves its rest in
the pipe, according to how much of it has come.

**Repl.** The agent's `model`, `_saved_model`, skill and prompt under the commands
that change them, one at a time.

The modules are not composed into one specification: the interfaces between them
are narrow (the pipeline calls `reserve`, `reconcile`, `record`, `decide`, `get`
and `select_provider`, each atomic or fail-open), and each module takes its
environment's side of the interface as a free choice. For the limiter, whose
failures the pipeline swallows, the choice is: reserved with or without an
answer, not reserved, rejected; reconciled, or not; a reservation that has
expired counts as reconciled. `record()` only appends and has one outcome.
`MCMemory`, `MCControl`, `MCPlatform` and `MCPenguin` check several modules in
one run: a variable `which`, chosen initially, says which of them moves. This is
a matter of packaging, not a composition.

Facts about the wiring at this commit, which the models do not hide: the proxy
builds `DispatchStage` without an upstream filter (`Upstream` = FALSE is the
deployed case); the context of an HTTP user has no `vkey_id`, so budgets and
metering act only for callers that set one; `main.py` builds a `MeteringBuffer`
and does not call `start()` on it; `_execute_with_fallback` and
`health_check_providers` are called by tests only, as are `call_with_retry`, the
connectors' credential selectors and the management service's own
`UsageTracker.record_usage`; `CodeRagWorker.index()` takes "main" for a branch that
is not given, whatever the repository's configured one, and `handle_webhook` keeps
only the last segment of a ref's path.

## 3. What is checked

| Run | Properties | Shows |
|---|---|---|
| `metering_one` | `Accounted`, `StopCountsTheRest`, `DropsOnlyOnOverflow`, `EventuallyCounted`, `ImplementsLedger` | one worker, three events in two minute buckets of one row, three failing writes, a retry queue of one, records during the last flush of `stop()`; the whole implements `UsageLedger` |
| `metering_crowd` | `BilledAtMostOnce`, `StopTerminates` | two workers on one row, cancelled flushes, orphaned threads |
| `limiter_all` | `NeverAboveLimit`, `MonthlyBudgetHeld`, `ReconcileAfterAdmission` | three requests of a key, three minutes, over- and under-estimates, an error, a Valkey restart |
| `breaker_all` | `HealthyIsOffered` | two providers and all kinds of callers |
| `breaker_ejected` (violation) | `BreakerRecovers` | a caller that records nothing takes the probe for ever |
| `pipeline_two` | `CacheVetted`, `ServedIsSettled`, `MapsMatchPlaceholders`, `OnlyLastIsRestored` | two requests on one cache key, exceptions and failures of filter and limiter anywhere, three pseudonymized messages of which two share a placeholder's name, maps that expire |
| `pipeline_meter` (violation) | `SpentIsMetered` | a response blocked by the output filter is never metered |
| `memory` | `NeverServesQuarantined`, `TiersAgree`; `CoverageGrows`, `NothingElided`; `IndexRepairs` | three puts, two gets and a delete of the scratchpad; requests of four conversations, one of which mirrors another; three index runs of two branches, or of one |
| `control` | `QuotaHeld`, `StoredIsIndexed`, `PutEnds`; `StaleIsExcused`, `EventuallyFresh`; `ClampHeld`; `ModelCapHeld`, `PullSettles`; `EndsUnlessLost`; `BreakerRecovers` | what decides where a request goes and what it finds there |
| `control_sensitive` (violation) | `SensitiveStaysLocal` | an escalation target, the replacement of a model that cannot serve and the answer to an empty chain are not clamped |
| `platform` | `NoLostUpdate`, `RevokedIsRefused`; `ChargedOnce`, `CacheFollows`; `FreeTierHeld`; `FloorHeld` | what the services keep in the database, under overlapping requests |
| `penguin` | `EndsUnlessReplanned`; `LostOnlyToCompaction`; `OwnReply`; `RestoredUnlessStacked` | the coding assistant's session |

A violation run states what a comment, docstring, test or design document of the
repository says, quoted in `PROJECT.json` under findings, and TLC's trace is how
the code departs from it.

The modules state more than the runs check. These hold as well when they are added
to the configuration of their run: each module's type invariant (`TypeOK`,
`QuotaTypeOK`, ...); `SettledIsCounted` for one worker; `FailsOpenOnlyOnError`
without a restart; `BlockedLeavesNothing`, `KeyLimitHeld`, `FreshStartsClean`,
`NoOrphans`, `PullingIsUnderway`, `DeliveredWhole`, `StuckOnlyIfLost`, `ReachHeld`,
`PremiumIsEarned`, `QuotaOvershoot` and `OneRowPerOrganisation`; and
`RestoredInTime` where no request has more than one pseudonymized message. Most of
them are theorems (section 4).

**What the conditions of a property mean.** Much of this code makes no provision for
an overlap: where a check and a write stand in two statements, two requests at the
same time do get past the check. A property that said otherwise would be false, and
one that said nothing would not be worth checking. So each of these says what holds
*until* that has happened, and a history variable says when: `serial` (scratchpad),
`spoilt` (exact cache), `crossed` (code index), `bypass` (fleet), `overlapped`
(history), `overlap` (logins), `stacked` (REPL), `disturbed` (MCP), and `Mirrored` of
two conversations. A run that passes shows that the hazard named is the only way to
break the rule: nothing else that was modelled, no expiry, failure, cancellation or
other interleaving, breaks it. It does not show that the hazard itself does no harm.
Where it does, the plain rule is among the refuted statements below, or the overlap
is described under hazards in `PROJECT.json`.

**Sizes.** The largest state graphs, in distinct states: `memory` 1.6 million,
`platform` 1.0 million, `pipeline_two` 763,000, `control` 277,000 (with liveness),
`metering_crowd` 240,000 (with liveness), `penguin` 187,000. The longest run takes
about three and a half minutes with two workers.

**Bounds.**

- *Metering*: with three events in two buckets a flush has two aggregates, so one
  can fail while the other is written, and a retry queue of length one overflows.
- *Limiter*: two of three requests fit each limit, so the third meets it whichever
  dimension binds; three minutes let a reservation expire and a reconcile run in a
  later minute.
- *Breaker*: the real threshold of three and a cooldown of one or two ticks; three
  callers are what a second probe next to a late failure takes.
- *Pipeline*: two requests with one cache key are the smallest crowd in which one
  can read what another left. Three messages, of which the first and the last share
  a placeholder's name and the second does not, are the fewest in which the last
  map fills in its own, fills in another's and leaves one standing.
- *Memory*: two puts, a get and a delete on one key cover every pair of overlapping
  calls, the second key and `MaxKeys` = 1 the limit. Histories of one, two and
  three turns let a request with a shorter one come last. Two runs on one branch
  and one on another are the fewest in which runs of both kinds overlap; a third on
  the same branch can come after two that overlapped.
- *Control*: two requests for one key and one for another, with two sizes of
  which any two exceed the quota unless both are the smaller; one resolution
  against one writer that writes twice (a second resolution adds only another
  late SET); two requests that name one session, each under either policy, for
  the order of sticky commands, and one over all combinations of inputs for the
  decision; two placements and a deletion on two deployments, and a lazy pull, a
  pull and a placement on one.
- *Platform*: two requests per kind of row, since each is one read and one write;
  three calls around a midnight that begins a month; three reports of two users
  where one is allowed; one evaluation against two writes.
- *Penguin*: two messages and two slots, so that a message with two agents waits
  for the other; five messages with a compaction threshold of three exchanges, so
  that a second compaction overlaps the first; three calls on an MCP server.

`MaxFaults`, `MaxRestarts`, `MaxNow`, `MaxWrites`, `MaxPushes`, `MaxCalls`,
`MaxNotices`, `MaxContexts`, `MaxDeltas`, `MaxLogins`, `MaxSecret` and `LastDay` are
bounds of the models, not of the code. Deadlock checking is off where the system
may stop: all requests, events or calls are used up.

**Symmetry** is used for requests, callers and calls, only in runs without
liveness properties and where the constants treat the permuted values alike.

**Fairness.** Weak fairness of every step that the event loop, a thread or the
passing of time takes by itself. *Metering*: ready coroutines and threads run, and
a flush loop wakes up. *Breaker*: the cooldown ends (`Tick`), a
caller whose call has ended records it (`RecorderStep`). *Exact cache*: a request
whose command was answered goes on (`Serve`). *Configuration*: every copy has a TTL,
which elapses (`Expire`), and a resolution that has begun goes on (`Resolve`).
*Fleet*: a pull has an HTTP timeout of an hour (`Pull`). *Bedrock*: botocore has a
read timeout, so the thread gets to its end (`Drain`); the loop runs what is ready
(`Consume`). *Foreman*: the semaphore wakes the next in line (`Grant`), agents and
models have timeouts (`Advance`). None is assumed of requests arriving, `start()` or
`stop()` being called, failures, or cancellation. That a failing write does not fail
for ever is the bound `MaxFaults`.

**Refuted configurations.** Besides the three violation runs, the `*Refuted.cfg` files
hold statements of docstrings, comments and tests that TLC refutes; one is checked at
a time, the others stand next to it in comments.

| Config (module) | Property | What the trace shows |
|---|---|---|
| `MeteringRefuted` (`MCMetering`) | `SettledIsCounted` | two workers' read-modify-write of one row loses usage whose write returned |
| | `StopLosesNothing` | against "ensure no usage is lost": what is recorded while `stop()` awaits its last flush stays in the buffer; and when `stop()` times out and cancels a flush, the aggregates that it had swapped out are gone |
| `LimiterRefuted` (`MCTokenLimiter`) | `MonthlyBudgetHeld` | with `ShortLife`: month keys live 30 days, a month may have 31; with `NewMonthEachMinute` and `LongLife`: a refund lands in the next month's counter |
| | `RejectionChargesNothing` | with `MCLimit`: a request rejected by a later check stays charged by an earlier one |
| `BreakerRefuted` (`MCCircuitBreaker`) | `ReservedProbeIsHeld` | a half-open provider listed and not used keeps its reservation |
| | `SingleProbe` | a late failure clears the flag of a probe in flight |
| | `ClientErrorSurfaces` | a client error is followed by the next provider |
| `PipelineRefuted` (`MCProxyPipeline`) | `ServedIsRestored` | only the last map is applied, also to another message's placeholder of the same name; a map expires while the provider answers; a hit serves what its writer was served |
| | `RestoredInTime` | the same with no map expired |
| | `CacheApproved` | when the output filter fails open the unfiltered text is cached |
| | `ReservationSettled` | a request blocked after `token_budget` never reconciles |
| | `MapsEndWithRequest` | a provider error leaves the pseudonym map in Valkey |
| `MemoryRefuted` (`MCMemory`) | `RepeatReuses` | the INSERT swaps organisation and conversation, so that a repeat finds no summary and asks the model again |
| | `BranchesApart` | a run's checkout changes the branch another run is reading, whose chunks are stored under the wrong branch |
| | `StoredOnce` | two runs insert the same chunk: there is no upsert |
| | `DuplicatesRepaired` | nor does a later run remove the second row: it compares sets of hashes |
| | `OwnTurns` | with the ids exchanged, a request finds the summary of another organisation's conversation and sends it in place of its own turns |
| `ControlRefuted` (`MCControl`) | `StreamEnds` | the closing item is put between the two steps of `get()`; the caller waits for ever |
| | `SerialQuota` | an eviction of the entry being overwritten subtracts its size twice; the quota is exceeded by serial puts |
| | `FallbackServes` | the policy's chain is not matched against the capabilities the request needs |
| | `NeverStaysEscalated` | the key of a session under "never" is cleared by a request of another organisation, under idle_reset, that names the same session; and its TTL runs out, since nothing but an escalation renews it |
| `PlatformRefuted` (`MCPlatform`) | `OneRowPerScope` | two upserts of the global hook configuration insert a row each: the unique constraint ignores a NULL `scope_ref` |
| `PenguinRefuted` (`MCPenguin`) | `SupervisionEnds` | every replan sets the round back to 1 |
| | `PlanIsExecuted` | `run()` writes "## Steps", the parser looks for "STEPS:": a plan is executed only if its analysis happens to contain that heading |
| | `ContextPreserved` | an exchange added while a summary is awaited is overwritten by `to_keep` |
| | `ReplyBelongsToCall` | replies are taken by position; after a cancelled call, or a line over 64 KiB whose rest stays in the pipe, everybody gets a line that is not the answer |
| | `ShutdownStops` | a process whose handshake failed is not in `_clients` and is never stopped |
| | `ModelRestored` | a second skill saves the first one's model as the original |
| | `PromptTemporary` | documentation stays in the system prompt, once per message |

After a Valkey restart the limiter's cached SHA is unknown to Valkey, every call
fails open until the process restarts; `MonthlyBudgetHeld` and
`FailsOpenOnlyOnError` are therefore stated for runs without one.

## 4. What is proved

All proofs are for arbitrary constants that satisfy the named assumption of the
module (`MeteringAssumption`, `LimiterAssumption`, ...), which types the
parameters and says, where a sum or a cap needs it, that a set is finite
(`ExactCacheAssumption`: the keys of an organisation). `ConfigCache`,
`ChatHistory` and `BedrockStream` need none, and the theorems about `TokenQuota`
assume that there is a last day and that every day has a month (`Calendar`).
They are invariance proofs: an inductive invariant, one lemma per action or
group of actions, and a temporal step.

| Module | Theorem | States | Hypotheses |
|---|---|---|---|
| `MeteringBufferProofs` | `TypeCorrect` | `TypeOK` | |
| | `UsageConserved` | `Accounted` | |
| | `NeverBilledTwice` | `BilledAtMostOnce` | |
| | `OnlyOverflowDrops` | `DropsOnlyOnOverflow`, an action property | |
| | `OneWorkerKeepsLedger` | `ImplementsLedger`, the refinement of `UsageLedger` | one worker, no lost acknowledgement, no cancelled flush (`Alone`) |
| | `SettledStays` | `SettledIsCounted` | `Alone` |
| | `StopKeepsPromise` | `StopCountsTheRest` | `Alone` |
| `TokenLimiterProofs` | `TypeCorrect` | `TypeOK` | |
| | `LimitEnforced` | `NeverAboveLimit` | |
| | `ReservationsCreditedOnce` | `ReconcileAfterAdmission` | |
| | `MonthlyTokensKept` | `MonthlyBudgetHeld` | one month, whose counter outlives it |
| | `MonthlyMoneyKept` | the same for the limit in money | as above |
| | `OpenOnlyOnError` | `FailsOpenOnlyOnError` | |
| `CircuitBreakerProofs` | `HealthyAlwaysOffered` | `HealthyIsOffered` | |
| `ProxyPipelineProofs` | `ServedSettled` | `ServedIsSettled` | |
| | `CacheHoldsVetted` | `CacheVetted` | |
| | `BlockedWritesNothing` | `BlockedLeavesNothing` | |
| | `MapsFollowPlaceholders` | `MapsMatchPlaceholders` | |
| | `LastMessageRestored` | `OnlyLastIsRestored` | |
| | `SingleMessagesRestored` | `RestoredInTime` | at most one pseudonymized message in a request |
| | `PipelineTyped` | `TypeOK` | |
| `MemoryProofs` | `TypeCorrect` | `TypeOK` of `Scratchpad` | |
| | `QuarantineHolds` | `NeverServesQuarantined` | |
| | `TiersHold` | `TiersAgree` | |
| | `KeysLimited` | `KeyLimitHeld` | the keys are finitely many |
| | `SummariesGrow` | `CoverageGrows` | |
| | `NoTurnElided` | `NothingElided` | |
| | `SuccessorsAreLater` | `SummariesTypeOK` | |
| | `AloneRepairs` | `IndexRepairs` | |
| `ControlProofs` | `OnlyKnownStaleness` | `StaleIsExcused` | |
| | `EvictionFindsAll` | `StoredIsIndexed` | |
| | `QuotaKept` | `QuotaHeld` | one entry fits into the quota |
| | `ClampedStaysLocal` | `ClampHeld` | |
| | `FreshNotInherited` | `FreshStartsClean` | |
| | `FreeModelsCapped` | `ModelCapHeld` | |
| | `ModelsHaveADeployment` | `NoOrphans` | |
| | `PullingHasAPull` | `PullingIsUnderway` | |
| | `FleetTyped` | `FleetTypeOK` | |
| | `StreamsAreWhole` | `DeliveredWhole` | |
| | `OnlyLostWakeupsStick` | `StuckOnlyIfLost` | |
| | `StreamsTyped` | `StreamTypeOK` | |
| `PlatformProofs` | `NeverChargedTwice` | `ChargedOnce` | `Calendar` |
| | `CacheNeverAhead` | `CacheFollows` | `Calendar` |
| | `FreeTierKept` | `FreeTierHeld` | |
| | `PremiumNeedsLicence` | `PremiumIsEarned` | |
| | `QuotaNotOvershot` | `QuotaOvershoot`, an action property | |
| | `ReportsTyped` | `UsageTypeOK` | |
| | `RevokedStaysOut` | `RevokedIsRefused` | |
| | `NobodyOverreaches` | `ReachHeld`, an action property | |
| | `UpdatesKeepOthers` | `NoLostUpdate` | |
| | `FloorNeverLowered` | `FloorHeld` | |
| | `OrganisationsHaveOneRow` | `OneRowPerOrganisation` | |
| `PenguinProofs` | `NothingElseLost` | `LostOnlyToCompaction` | |
| | `MessagesOnce` | `HistoryTypeOK` | |
| | `RepliesMatch` | `OwnReply` | |
| | `IdsGivenOut` | `McpTypeOK` | |
| | `RestoredModel` | `RestoredUnlessStacked` | |
| | `ModelsTyped` | `ReplTypeOK` | |

The hypotheses are those without which the statement is false of the code.
`MonthlyBudgetHeld` is
refuted with keys that expire within the month and across a month's end (the two
variants of `LimiterRefuted`). Without `MaxEntry <= Quota` a single entry larger
than the quota empties the index and is stored all the same: the eviction loop
leaves when there is nothing left to evict. The ledger is not implemented by
several workers, whose read-modify-writes of one row lose counts
(`SettledIsCounted`, refuted), and a flush that `stop()` cancels takes the aggregates
it had swapped out with it. `RestoredInTime` is refuted with two pseudonymized
messages in one request; `LastMessageRestored` says exactly what is then left.

- *Metering*. `Accounted` is not inductive by itself: it also needs that the
  thread a flush awaits writes the head of `todo`, so that removing the head when
  the write ends moves exactly the thread's aggregate to `settled` or `failed`,
  and that `todo` and `failed` are empty when no flush is in progress, which in
  turn rests on where the loop and `stop()` can be (`Control`). The swap
  step rests on a lemma that an enumeration of the aggregates of a buffer holds
  exactly the buffer's events.
  For `NeverBilledTwice` an event is *at* a row when the row counts it or a thread
  that has selected the row carries it and will write it back. `BInv` says that an
  event is at no two rows, that no row counts it twice, that what has come to a
  row is nowhere a flush could send it from again (`WrittenIsGone`), and that the
  places an event can be in, buffer, retry queue, flush and orphaned thread,
  exclude one another (`OnePlace`).
  The refinement adds `Undisturbed`: with one worker and no orphan, what a thread
  selected is what the row still holds, so an update takes nothing back. Every
  action then is a record, a billing, a loss or a stutter of the ledger. For the
  promise of `stop()`, `Wound` adds that once its last flush has begun the buffer
  holds just what was recorded since (`late`), because nothing swaps it any more, and
  that without a failed write nothing is queued again or given up: what was recorded
  before can then only be settled, and what is settled is counted by a row that no
  later write takes back.
- *Limiter*. `NeverAboveLimit` follows because the script checks and increments
  in one step, so a counter moves above the limit only by a reconcile's positive
  delta, which `overrun` records. `ReservationsCreditedOnce` needs the extra
  conjunct `ReconciledIsDone`: a reconciled request is over, so no later
  reservation can be its own.
  That a counter is bounded bounds what is spent only if the counter covers it:
  `Covered(d)` says that the charges of the admitted requests of a key sum to no
  more than the month's counter, and that this counter does not expire. The reserve
  script adds to both sides the estimate of a request that was not admitted before;
  the reconcile script moves both by the same difference, since its request is
  admitted and not yet reconciled; a request that lost its reservation or its
  answer leaves both alone. Sums are cardinalities of sets of units, so the lemmas
  `SpentAdd` and `SpentChange` rest on the library's facts about finite sets.
  `OpenOnlyOnError` counts in `Lost` also the requests that are bound to find no
  script, because the error that let them through came when the scripts were
  loaded; every step that makes `Lost` larger raises `faults` by one.
- *Breaker*. A provider outside `faulted` has no failures and no cooldown; then
  it is offered whatever its probe flag is. The lemmas show that client errors,
  dispatches, cancellations and reservations touch neither.
- *Pipeline*. The invariant `Accounts` follows a request's accounts by stage: a
  request with usage has a provider, a reservation or a metering record belongs
  to a virtual-key request, a reservation is known to its request or has slipped
  from it, and from `respond` on an unblocked request with usage is metered and
  reconciled, or its reconcile has failed. Write-backs are pending only for requests
  that were served. For `CacheHoldsVetted` the invariant `Screened` adds that after
  `security_out` no unblocked response is raw. `Rest` follows the placeholders: up
  to the dispatch each message scanned has its map in Valkey or had it expire, and
  the last is the one that is remembered; afterwards an answer has those that
  `Left` computes from the messages and from what has expired, and a map that is
  still there is one of theirs. A text in the cache, and one that was a hit, has the
  placeholders of a request that was served (`FromWriter`).
- *Scratchpad*. The invariant follows a value from its verdict to a reader: rows
  carry the verdict of their value, a value on its way from `get()`'s select to
  its re-warm was judged active, and a verdict is not changed once its value can
  be in a row. For `TiersHold`, `Settled` says what each kind of call, when it has
  the tiers to itself, has already changed and has yet to change. `KeysLimited` rests
  on `HasRoom`, which the count of `put()` establishes and only an overlap can undo:
  the row it will write replaces an active one, or there is room for one more.
- *Summaries*. `SInv` says of every conversation that no other mirrors that its
  versions are unique and without a gap (`Complete`) and that only the latest is
  active. A request knows a row it found too long ago to be the latest; it may
  build on it, but the unique index refuses its INSERT, so what is inserted is one
  version beyond all others and covers more. `Reaches` says that the view a request
  injects covers the turns it replaces, and is of its own conversation unless that
  one mirrors another. `CoverageGrows` excepts conversations that
  another organisation's mirrors, with the two ids exchanged: the INSERT's swapped
  parameters file the rows of each under the other. `NameInv` is about every
  conversation: a request that is about to mark a row found it before it inserted
  its own, so that a superseded row names a later one however late the mark is.
- *Code index*. Two runs in one clone can read anything, so `JInv` is about a run
  that overlaps no other (`OnlyOne`: it is the only one under way). While it reads,
  the clone is at its branch and at what it pulled, and what it has read agrees;
  while it writes, a file that is neither on its list nor being inserted is stored
  as it was read, and one being inserted lacks just the chunks still to come. The
  diff establishes this whatever is in the table. `Single` is about all files but
  those in `crossed`: no chunk of theirs is stored twice.
- *Cached configuration*. A stale copy may be in the making long before it is
  written: a resolution holds what it read. `ReadsAgree` says that each value held
  is still what the database gives, or that its key is marked as changed since.
  A commit preserves it because only keys in `DependsOn` see the changed row
  (`CommitLocal`), and a SET turns it into freshness or an excuse. A copy made
  stale by a commit is in the writer's `Clears`, hence about to be deleted, or
  excused; when the deletion succeeds it is gone, when it fails excused.
- *Exact cache*. `XInv`: while write-backs neither overlap nor break off there is
  at most one (`OnePut`), every stored entry is in the index but the one it is
  storing or evicting (`IndexedBut`), and a victim that has been deleted stays gone.
  `QInv` follows the one put by its step and its local variables (`PutOK`): the
  counter it has read covers the other entries and the old size of its own, less
  the victim in hand; after the loop they leave room for the new entry. Entries
  that expire only make the sum smaller (`BytesMonotone`).
- *Routing*. `ClampedStaysLocal` is a fact about each decision, by cases of
  where the first choice came from; the chain is intersected with the local
  models before the choice is taken from it. `FreshOK` keeps, from the GET of a
  request that opens a conversation to its decision, why it escalates: its own
  signals, and not the key that another request of the session may have set
  since.
- *Fleet*. `CapInv`: until the cap has been passed by, at most one placement is
  between its check and its row (`OnePlacing`), and what it places has room
  (`PlacingHasRoom`); models can only be removed meanwhile, and that leaves room
  (`Shrink`). `PullingIsUnderway` is inductive once each action is sorted by whether it
  sets a status to "pulling", ends a pull, or neither (`PullsGoOn`): of two pulls of
  a deployment the one that ends settles the status, and the other may still settle
  it again.
- *Bedrock stream*. `ClosingIsLast`: the closing item is the last in the queue, and
  stays there until the coroutine takes it. `ReaderStands`: a coroutine that waits
  has a getter registered or has been resumed, and the loop sleeps only over one that
  has nothing to do. What is left, once the thread is over, is the wakeup that
  falls between the two steps of `get()`. That the stream ends otherwise is the
  liveness property `EndsUnlessLost`, which TLC checks.
- *Token manager*. A call is *at* a row when the row counts it or when a worker
  that has selected the row carries it and is about to write it back. `OneRow`
  (a call is at no two rows of a table) and `OnlyPast` (only at tables it has
  reached) are inductive where `ChargedOnce` is not, because an update writes back
  what it read. Every write is summarised by one predicate, `Effect`, so that the
  argument is made once for updates and inserts. `CacheFollows` is proved from
  `Followed`, per table: as long as no two workers were between select and write of
  it (`Sole`), what a worker carries is what the row counts (`Fresh`), so nothing
  is lost by writing it back.
- *Usage tracker*. `Checked`: until a licence, a failed check or an overlap, a report
  between its query and its insert is alone there and has room under the cap.
  `WithinQuota` is the same for a premium report and its user's tokens.
- *Accounts*. `Known` says at each database access what has been established of the
  caller: the key and the owner in the claims were good while the request was
  handled. `Reached`: once a handler has read its target, the row is in its
  caller's reach, because the columns that decide reach do not change. For
  `UpdatesKeepOthers` each write is shown to change, in the row it targets, just the
  columns it was asked for, whatever its handler has read before. The login
  columns are the exception, since they are computed from a row read earlier: a
  login about to write holds a row whose count is not too high (`Holds`), and whose
  count and current login are the right ones unless two logins of the user have
  overlapped, as it is otherwise the only one about to write (`Only`). Other
  requests that come between the read and the write do no harm, because none of them
  touches these columns.
- *Agent hooks*. `Stands`: a row that stood all along is in its table, so the query
  of its scope returns it. `EvalOK` follows an evaluation scope by scope: what it has
  passed is among its matches, and it comes to the rules only if no denylist entry
  that stood matches. `OneConfig` rests on the unique constraint, which an INSERT for
  a tenant or an organisation meets however old the SELECT before it is.
- *Conversation history*. A compaction replaces the history by what it kept and
  folds the rest into the summary. `Covered(c)` says of each compacting call that
  every message is in `keep`, in `cut`, in the summary, or was added since the call
  began and is in `overlapped`. For `MessagesOnce`, what a call keeps has no
  repetitions either, and holds nothing of a call that has yet to answer: a stale
  `keep` that is put back can take messages away but cannot double one.
- *MCP client and REPL*. `Orderly`: as long as nothing disturbs the calls there
  is one at a time, and the two pipes hold the request or the line that answers
  it, which may be too long to be read, and nothing else. `IdsGivenOut` needs
  none of that order, only that ids are counted up and lines are answers to what
  was asked. For the REPL, the configured model is the saved one while a skill
  with a model is on and the one in use otherwise.

Every safety property that a passing run checks is thus also a theorem. Only
model-checked:

- all liveness (`EventuallyCounted`, `StopTerminates`, `PutEnds`,
  `EventuallyFresh`, `PullSettles`, `EndsUnlessLost`, `BreakerRecovers`,
  `EndsUnlessReplanned`), which is out of TLAPS's reach here;
- the type invariants of `CircuitBreaker` and `Foreman`, which compute with
  `SelectSeq` and with folds, of which the provers see no definition they could use;
- the type invariants of `Accounts`, `AgentHooks`, `TokenQuota` (whose months are
  bounded only by the instance), `CodeIndex` (which counts chunks by run, a sum),
  `ExactCache`, `ConfigCache` and `Routing` as such. Their proofs rest on weaker ones
  (`AType`, `RType`, ...), which type what the argument needs and no more;
- what each operator computes by recursion or by a fold for every input.

## 5. What is not modelled

Message and response texts, pattern matching of the filters, prices, token
estimates, embeddings, logging and metrics are abstracted away everywhere. The map
covers about nine per cent of the repository's implementation lines, since most of
them are of this kind or belong to clients:

- *Adapters* (mem0, Chroma, embedding and MCP clients, the proxy's gRPC and mem0
  endpoints, knowledge retrieval, all connectors but Bedrock's stream): one call
  becomes one request to a service; what comes back is text or an error, which the
  models that use it take as a choice.
- *Content filters and guardrails*: patterns over one text, without state. Their
  verdict, and their failure, is a choice in `ProxyPipeline`, `Scratchpad` and
  `AgentHooks`.
- *The rest of the management API*: reads, and writes of a single row that nothing
  else caches or counts. Of Ollama's endpoints, health, update and export are left
  out; node caps, VRAM, EXO and cloud backends of the fleet are arithmetic on one
  request's inputs.
- *The semantic cache tier, prompt-cache affinity, dedup and embedding caches*:
  similarity scores, or addressed by content, so that no order of writes shows.
- *Bypass grants, model access, feature flags*: a read of one row and a decision.
- *Management workers*: `provider_sync` runs from first row to last when an
  endpoint calls it and has no loop; manifests are text.
- *Penguincode's tools, plan files and server*: file access and CRUD. Two things met
  in reading: `request_tool_execution` has no caller, and `seed_defaults` of the
  configuration store overwrites edits at every start (INSERT OR REPLACE), although
  its docstring says it seeds tables "if they are empty".
- *Web UI, CLI, editor extension, Helm charts, generated code*: no protocol state.

Next in line, should the project grow: the retry and refund paths of `TokenLimiter`
across a month's end, an abstract specification of the scratchpad as one register
per key, and a composition of `ProxyPipeline` with `TokenLimiter` and
`MeteringBuffer` in place of their atomic interfaces.

# A TLA+ model of solar-llm-serving

The repository serves large language models behind a small gateway and measures
how well. This directory models the gateway, the streams between engine, gateway and
client, and the benchmark from its dataset to its report; checks the models with TLC on
small instances; and proves the safety of all of them for every instance with TLAPS: every
invariant that a run checks.

    tlc -config TokenBucket.cfg TokenBucket.tla     # any run: see "Runs"
    tlapm TokenBucketProofs.tla                     # the proofs, also of RateLimitFleet,
                                                    # Router, Gateway, LoadRun, ChatStream
                                                    # and Bench, and Sums

## 1. The system

### Parts, state and interaction

| part | state | operations | talks to |
|---|---|---|---|
| rate limiter, `gateway/ratelimit.py` | tokens and a clock mark per API key | `take` | called by `authenticate` in `app.py` |
| configuration, `gateway/config.py` | ordered upstreams, routes, default, keys, fallback model | `from_env`, once | read by all of the gateway |
| router, `gateway/router.py` | `Health` per upstream | `poll`, `poll_forever`, `candidates`, `pick` | probes engines through the gateway's HTTP client; `pick` called by `chat` |
| application, `gateway/app.py` | counters, the HTTP client and its connection pool | `authenticate`, `models`, `chat`, `relay`, the lifespan | clients, engines, the router, Bedrock |
| fallback, `gateway/bedrock.py` | a stream being read | `stream_via_bedrock` | boto3, in a thread for the call, on the event loop for the events |
| deployment, `charts/gateway` | pods | starts, restarts | one Service over all pods |
| harness, `solarbench` | requests in flight, samples, artifacts | `run`, `closed_loop`, `open_loop`, `Sampler`, `chat_stream` | an engine or the gateway |
| mock server, `solarbench/mock_server.py` | `running`, a generator per answer | `chat`, `gen`, `metrics` | the client, directly or through the gateway |
| workload, `solarbench/workload` | counters of ids, a log's counts | `generate`, the tasks, the schemas | the dataset, written by `gen` |
| scores and figures, `quality.py`, `metrics.py`, `budget.py` | none | `score`, `aggregate`, `summarize`, `budget` | results, ground truths |
| command line, `cli.py`, `report.py` | files: dataset, runs, document | `gen`, `run`, `quality`, `report`, `budget` | each other, through their files |
| engines, stacks, infrastructure | declarative | | |

One gateway process is one asyncio event loop. Every coroutine of it, each
request, the poller and the Bedrock stream, runs from one `await` to the next
undisturbed. They share `Router.health`, the buckets, the counters and one pool of
connections. Several processes share nothing.

### What is hard, and what makes each part correct

* **Rate limiter.** The refill is lazy and happens on refused calls as well. Right
  means: over *any* window a key gets at most the burst and what accrued in it;
  exactly the requests that fit are admitted; refused calls cost nothing. Over
  several pods, and over restarts, a weaker bound is left.
* **Router.** `pick` decides on a number that is up to a round old, that misses the
  requests on their way, and that a failed probe leaves standing. Right means: a
  bounded backlog and a bounded number of lost requests all the same; each engine's
  state is noticed in the end; every upstream is considered once, whatever the
  configuration says.
* **Application and fallback.** Connections are opened and closed by hand on half a
  dozen ways out; the event loop is held by blocking reads; probes and requests
  compete for connections. Right means: nothing leaks, everything ends, the
  counters tell the truth, and the gateway recovers from what it did to itself.
* **Harness.** Requests, the sampler and the run itself share an event loop and a pool;
  requests fail, the sampler is cancelled, the process is interrupted between two
  files. Right means: the load alone is measured, nothing outlives the run, it ends,
  and a report never reads an incomplete run as a complete one.
* **Streams.** An answer passes three processes line by line; any of them may stop, break
  off, time out or be closed at any line, and the client times it from the outside. Right
  means: what was heard is a prefix, the clock never says less than was served, tokens that
  were told of are counted, the verdict does not contradict the result, and the server
  forgets a request however it ended.
* **Benchmark.** Commands meet only in files, which an interrupted or repeated command
  leaves as they are. Right means: ids tell requests apart, the ground truth is what
  the text says, a score of one means an answer that matches it in all that is compared,
  the figures account for each result, a stale document is called stale, and the memory budget's
  bounds are tight.

`PROJECT.json` lists every hazard at its line with the properties that cover it.

## 2. Modules

| module | models | extends, instances |
|---|---|---|
| `RateContract` | abstract: what a limiter promises, with no bucket | |
| `TokenBucket` | `ratelimit.py` | instances `RateContract` |
| `TokenBucketProofs` | theorems | extends `TokenBucket` |
| `RateLimitFleet` | a key at several pods, each with a bucket | instances `TokenBucket` per pod, `RateContract` |
| `RateLimitFleetProofs` | theorem | extends `RateLimitFleet`, `Sums` |
| `Routing` | `Health`, the effect of a probe, `candidates` and `pick`, as operators | |
| `GatewayConfig` | `from_env`, `candidates` and `pick` as the loops they are | instances `Routing` |
| `Router`, `MCRouter` | the poller, the load and the engines | extends `Routing` |
| `RouterProofs` | theorems, also of `GatewayConfig` | extends `Router`, `GatewayConfig`, `Sums` |
| `Gateway`, `MCGateway` | one process: requests, poller, fallback, pool, event loop | extends `Routing` |
| `GatewayProofs` | theorems | extends `Gateway`, `Sums` |
| `LoadRun` | one benchmark run, from the warm-up to its artifacts and their reader | |
| `LoadRunProofs` | theorems | extends `LoadRun` |
| `StreamContract` | abstract: what one streamed answer promises whoever measures it | |
| `ChatStream`, `MCChatStream` | `chat_stream` of `client.py`, `relay` of `app.py`, `gen` of `mock_server.py` | instances `StreamContract` per request |
| `ChatStreamProofs` | theorems | extends `ChatStream`, `Sums` |
| `Workload` | `world.py`, the ground truths of `generator.py`, `schemas.py` | |
| `Scoring` | `quality.py` | extends `Workload` |
| `Figures` | `metrics.py`'s `summarize`, `budget.py` | |
| `Bench`, `MCBench` | the commands of `cli.py` and `report.py` over their files | extends `Scoring`, `Figures` |
| `BenchProofs` | theorems | extends `Bench`, `Sums` |
| `Sums` | theorems on sums of a function over a finite set, on induction and on numbering | |

**TokenBucket.** `tokens` and `last` are the fields, `Refilled` is line 17, `Admit`
and `Refuse` are the two ways out of `take()`; both assign `last`. Time is in ticks,
tokens in units of 1/`Minute`, so the code's division is exact here. The rounding of
floats is left out. `log` and `verdict` are what clients saw.

**RateLimitFleet.** `Bucket(r)` is a `TokenBucket` on pod `r`'s slice of the state. A
request goes to any pod; a restart makes the pod's buckets anew.

**Routing.** `Answered` and `Unanswered` are the two branches of `poll()`'s `try`,
`Rank` the order `candidates()` puts the upstreams in, `Pick` the first of them that
is up and not saturated. Failures are counted up to 2, since the code only asks
whether there were fewer. `max_queue` is one constant: `from_env` leaves every
upstream with the default 16. `GatewayConfig` reads a configuration item by item
and checks that going through the list, as the code does, agrees with `Rank`. A list
comprehension is `At`: the members of a list at the places its condition holds at, in
their order. An upstream with an empty name (`=url=model`) is left out (`NamesAssumption`):
`GATEWAY_DEFAULT=""` would name it.

**Router.** A probe is two steps: the engine answers (`reply` is the number on the
page at that moment), then the answer arrives. In between, and between rounds,
`Dispatch` routes requests; they travel (`sent`), arrive (`queue`), are served. Engines
crash and restart at any time. `wasted` counts what is sent to an engine that is
down, `recent` how the last two probes ended. Two assumptions are named in the
module: `Burst` requests arrive per round (the code limits nothing), and a request
reaches its engine before the round after the next probe starts (the sleep is 2 s).
A request that waits in the gateway's own pool breaks the second; see the hazards.

**Gateway.** Each action is what one coroutine does up to its next `await`. `phase` is
the line at which a request waits: its body (84), a connection and the answer (102,
112), the body of a refusal (115), the relayed stream (121), the Bedrock call
(bedrock.py:33), a Bedrock event (37) or the `sleep(0)` after one (58). While a line that
carries usage is on its way to the client the request is `"handing"` (app.py:129), with the
last chunk of a Bedrock stream `"telling"` (bedrock.py:61). `loop` names the
request that blocks the event loop in a read; then no other coroutine moves, and a
probe may run late. `conns` says who holds a pooled connection, the poller included.
`count` is the counters; `usage` stands for the two token counters and counts reports.
`status`, `answer`, `counted` say what became of each request, `told` how many reports its
client was given: `relay` adds every line with a usage object (`RelayUsage`), and an engine
may send none or several. A status is any number in `Statuses`. The exceptions that leave
`chat()` are ways out of their own: a body that is not JSON (`"unreadable"`), a body
`_infer_task_class` cannot read, after `requests` was counted (`RouteRaises`), and an answer
that is no JSON object, after an error was counted (`AnswerUnreadable`).

**LoadRun.** `stage` is where `run()` awaits or writes; `task` where each request is (the
semaphore of the closed loop, the pool, in flight, back); `sampler` its task. `Finish`
is all of `chat_stream` after it has a connection: it returns a result for any HTTP
error and raises for the rest, and `gather` then raises at once while the others go on
(`LoadRaises`, `WarmupRaises`). `Leave` is the start of the sampler's `__aexit__`, which
cancels it; `SamplerStops` is the cancellation reaching it; `SamplerWrites` the rest.
`Killed` interrupts the process anywhere, in the middle of a file too. `LoadRuns` is what
`load_runs` makes of what is there. The open loop's schedule is any schedule.

**ChatStream.** A connection is the sequence of the lines sent into it (`sent` by the server,
`relayed` by the gateway) and how many its reader has taken out (`Len(relayed[r])`, `read`); a
line is its number: the words, then the chunk with the `finish_reason`, the usage and
`[DONE]`. `end` and `relay` say how each stream ended: cleanly, in the middle of a line,
or broken. Server: `Accept` and `Yield` are `gen()` up to each of its sleeps and yields;
`Leave` is the cancellation of a response whose reader went, `Collect` the `finally` of a
generator that was left (it runs when the generator is closed, not when the reader goes).
`Break` is for a lost connection and for engines that end early. Gateway: `Pass` counts the
usage and yields the line, in that order; `Close` and `Drop` are its ways out. Client: `res`
is the `RequestResult`, `ReadLine` the body of the loop, `ReadEnd` its end without `[DONE]`,
`Fail` the `HTTPError` and the `JSONDecodeError`, `Refused` a status other than 200. The
`Tokens` a usage line reports need not be as many as the words. What is
in a delta is left out but for its being there. `Gateway` models the same relay
with its pool and its event loop; here it has its lines.

**Workload, Scoring, Figures, Bench.** `gen` is modelled draw by draw: `GenRequest` writes a
request of a task without a log, `GenLog`, `GenLine` and `GenLogWritten` a fault log line by
line, with the dictionary of counts that becomes its ground truth (`Counted`); any draw may
follow any draw, so a seed is one of the behaviours. `GenKilled` leaves some of the file. `Run`
makes a directory with the results of requests taken round the dataset, any answers in
them, and `Summarize` of them; `Quality` scores a run against the dataset that is there
*now*, or raises and leaves the file; `Report` and `ReportCheck` render the directories in the
order `load_runs` sorts them into, from any listing; `BudgetAsked` is `budget`. A text is what
it mentions, a JSON object the fields it has: `Says` and `ListIn` are `.get` and `.get(...)
or []`, for which a missing field is `None` or no list, and `Objects` are the events that
are dicts (quality.py:53), the others (`Stray`) being passed over. Only an answer that makes
`score` raise is `"odd"`. Times of events are in the truths and the answers and are compared
with nothing, as in the code. Scores are whole numbers of 1/240 (rounded down where
this does not divide, which leaves full what is full and nothing else) and times,
means and rates are what they are divided from, in place of the code's floats.

## 3. Runs

| run | question | bounds |
|---|---|---|
| `token_bucket` | does the bucket implement the contract, for any pattern of calls? | 3 requests per minute of 4 ticks, 2¼ minutes: the rate does not divide the ticks, and a window's edge is crossed twice |
| `fleet` | what is a key given by several pods? | 2 pods, 2 per minute of 3 ticks, 1 restart |
| `fleet_rate` | is it its rate? **no** | the same, no restart |
| `config` | are all upstreams tried once, in `pick`'s order? | up to 3 items over 3 names (so repeated names occur), 2 task classes, every route table and default |
| `router` | do the bounds hold while engines fail, and is everything noticed? | 2 upstreams, 1 metered, 2 requests per round, queue limit 1, 1 failed probe of a live engine, any number of crashes |
| `gateway` | do all requests end, with nothing leaked and all counted? | 2 requests, statuses 200, 302 and 500, up to 2 usage lines per stream, 1 upstream, pool of 1, 1 Bedrock event, 1 crash |
| `gateway_format` | is a request answered in the form it asked for? **no** | the same |
| `gateway_fallback` | is Bedrock used only when no upstream is healthy? **no** | the same, no crash |
| `load_run` | what is measured, left behind and reported? | 2 warm-up requests, up to 3 measured, 2 permits, 2 connections (so that the third party waits), 2 samples; closed and open, own and given client |
| `chat_stream` | what does the client hear, measure and conclude, whatever breaks where? | 1 answer of 2 words, 3 tokens reported, direct or relayed, sleeps of 1 tick, 4 ticks |
| `bench` | do the files of the commands agree with each other and with the truth? | datasets of 2 requests, logs of 2 lines, 2 runs of 2 results, 2 codes, 2 inverters, answers right, in another order, right but for times, wrong in one thing, incomplete or raising, commands that cost 5 in all; 432 budgets |
| `quality_structured` | are only structured outputs scored? **no** | the same |

The bounds are small and reach the cases: with 2 requests a round the backlog of
`BacklogBound` and the waste of `FailoverBound` do get to `3 * Burst` over their base
(lowering either constant by one makes the run fail), with two upstreams routed and
default orders differ and one engine has no metrics page, with a pool of one both a
request and a probe can be shut out by the other. `MaxGlitches` bounds failed probes
of live engines in the run; the proofs do not depend on it.
In `chat_stream`, two words are what it takes for an inter-token latency and for a break
between words; four ticks leave a tick of delay beside the three that are slept. Two
answers of one word were tried as well (2 million states, no error): requests meet
only in `running`. In `bench` two results let one be wrong beside a right one, two runs
differ in order, and two lines repeat a pair or come in the wrong order; a total cost of 6
was tried as well (2.7 million states).
`CHECK_DEADLOCK FALSE` is in `GatewayConfig.cfg`, `LoadRun.cfg`, `MCChatStream.cfg`,
`MCBench.cfg` and `MCBenchQuality.cfg`: loading, a run and an answer end, and the commands'
cost runs out. The other systems
never stop: ticks run out in `TokenBucket` and `RateLimitFleet`, but `take` is always
possible.

### What the violations show

* `KeyGetsItsRate`: "`rate` requests per minute, burst = rate" (ratelimit.py:7) holds in
  one process; the chart runs two (values.yaml:2), each with its own buckets. `FleetBound`
  is what does hold.
* `AnsweredAsAsked`: bedrock.py:1-3 says the client "cannot tell the difference"; one that
  did not ask for a stream gets one (app.py:92-98).
* `NoFallbackWhileHealthy`: config.py:25 says the fallback is for "when all local upstreams
  are unhealthy or saturated"; probes wait for connections of the requests' pool, and a
  probe that waits 3 seconds counts as failed. `RecoversFromOwnStalls` is what does hold.

* `QualityIsStructured`: "Score the structured outputs of a run" (cli.py:125), "Quality
  (structured tasks)" (report.py:111); alert narrations are scored too (quality.py:30),
  and daily summaries are listed with a score of zero. `QualityIsExact` is what does hold.

Met on the way, and about text only:

* `stacks/vllm/replicas_tp1.yml:2` says the gateway "round-robins" its upstreams; `pick`
  always takes the first available one.
* router.py:7 says an upstream is down "when its last probe failed"; the code waits for
  two in a row (line 55). `DownAfterTwoFailures` is what does hold.
* client.py:37 calls `tpot_s` the "mean inter-token latency"; lines 38-41 divide all the time
  after the first word, what comes after the last word included, by the tokens reported less
  one. `TimesAddUp` is what does hold: with a token to a word, the two are the same exactly
  if nothing was waited for after the last word.
* quality.py:1 says outputs are scored "against the ground truth embedded in the dataset"
  (and readers of a log's score may take it for all of it); `first_seen`, which the ground
  truth has (generator.py:175), the prompt asks for (185-186) and the schema requires
  (schemas.py:33-35), is compared with nothing (quality.py:52-64). An answer with every time
  wrong has the full score; `QualityIsExact` says what does hold, and `MCBench` has the answer.
* app.py:2 promises "token accounting"; lines 121-126 add every line with usage, so an engine
  that reports running totals is counted more than once. `UsageBooked` is what does hold: the
  sum of the reports that clients were given.
* app.py:113 counts every status of a stream but 200 as an upstream's error, redirects
  included, and line 103 every whole answer's from 500; `CountersTell` says so.
* mock_server.py:3-5 says a guided answer is made from the ground truth; it is canned
  (`MockAnswer`), so a mock run's quality says little.

### Fairness

Safety runs use `Spec`. `FairSpec` of `Router` assumes that the poller's sleep ends, that a
probe ends (the code gives it 3 seconds) and that a request reaches its engine; nothing
of engines or load. Its liveness properties say `<>[]` of an engine before they promise
anything. `FairSpec` of `Gateway` assumes that a request that can move does: httpx puts
`request_timeout_s` on each of its waits, botocore its own timeouts on the call and the
reads, and a client sends its body and reads its answer or disconnects, which cancels
the generator. Weak fairness of each request and of the poller is asyncio's: a ready
coroutine is run. A `Free` guard is false only while a read holds the loop, and that
read's own step is one of those that are fair. The poller's fairness needs no
assumption on the pool: waiting for a connection ends after 3 seconds either way. The
requests of a run are finitely many: `RecoversFromOwnStalls` says that the gateway
recovers once its load lets it, not that it does under a load that never ceases.
`FairSpec` of `LoadRun` is the same: a request's and a sample's waits have timeouts, and
what can run does. No fairness is assumed of failures and interruptions.
`FairSpec` of `ChatStream` has each request's server, relay and client go on when they can.
`Fail` is among the client's steps since httpx puts a timeout on each wait; a server that
sleeps is not asked to wake (time may stop), and one that has nothing to say need not
accept. `ServerForgets` is what follows all the same: a reader goes, is noticed, and
the generator that was left is closed (CPython and asyncio close it).
`Bench` has no liveness: a command is given or not.

## 4. Proofs

`TokenBucketProofs` proves, for every `Rate`, `Minute` and clock:

* `TypeCorrect`, `WindowBounded` (`WindowBound`), `Balanced` (`Balance`),
  `PacedServed` (`PacedClientServed`) and `ImplementsContract` (`Spec => ContractSpec`).

`WindowBound` is not inductive: that the next admission fits depends on what is left in
the bucket. `Balance` ties the two together: the bucket is full, or some admission
accounts for exactly what is missing (`LeftExactly`), and none accounts for more
(`LeftAtMost`). From it follows `AnswerMatchesContract`: there is a whole token after the
refill exactly when one more admission still fits every window. That is the step of
both the invariant and the refinement. `IInv` is `TypeOK /\ WindowBound /\ Balance`.

`RateLimitFleetProofs` proves, for every set of pods, rate and clock:

* `FleetIsBounded` (`FleetBound`): over any window, a key gets the rate times the pods and
  one burst more for each restart.

`FleetBound` does not say which pod admitted what, and so no step preserves it alone. The
inductive invariant, `Attributed`, gives each admission and each restart back to a pod:
counted from any admission, what a pod has let through and what its bucket holds are within
what accrued there. Summing this over the pods is `Shared`, by induction over sets of pods.

`RouterProofs` proves, for every set of upstreams, routes, default, `MaxQueue`, `Burst`
and `MaxGlitches`:

* `PickFindsAvailable` (a lemma): `pick` returns the available upstream that comes first,
  or none because none is available;
* `TypeCorrect`, `DownOnlyAfterTwo`, `BacklogIsBounded`, `FailoverIsBounded`;

and, for any names, items, route tables and defaults of a configuration,

* `UpstreamsAreTriedOnce` (`EveryUpstreamTriedOnce`) and `ListIsRouting`
  (`ListAgreesWithRank`).

`IInv` says what the gateway may miss of an engine: a round's arrivals if its last probe
failed, another round's if this round's probe is still to come, and this round's. While
the engine is picked its backlog is within `MaxQueue` and that (`BacklogInv`); once it is
not, the backlog only shrinks. The two bounds follow by arithmetic. `WasteInv` is the
same argument for a crashed engine.
For the list: `from_env` lists no name twice (`ConfigInv`), so an upstream's place is a rank
along which the dict's order rises; `At` keeps what rises rising and loses nothing it is asked
for (`AtRises`); the names in front rank below the rest (`NamedRise`, `BothRise`). A list
along which something rises repeats nothing, and its first available member ranks least.

`GatewayProofs` proves, for any upstreams, requests, statuses, `PoolCap`, usage reports, events
and crashes:

* `TypeCorrect`, `ConnectionsDoNotLeak` (`NoConnectionLeaks`), `CountersAreTrue`
  (`CountersTell`), `UsageIsBooked` (`UsageBooked`) and `OneReaderHoldsLoop`: the
  request that blocks the event loop is the only one inside a blocking read.

`CountersTell` compares numbers of requests, and a step is about one request: `Account` turns
the change of its request into the change of each number. It is not inductive, since a
request could come to the step that counts it already picked or answered (`Fresh`); `EachTold`
and `Excused` are what the two properties say of each request alone. The pool's
limit (in `TypeOK`) and who holds what
(`NoConnectionLeaks`) need each other: a step gives back what its request held.

`LoadRunProofs` proves, for any warm-up, load, concurrency, pool and schedule:

* `TypeCorrect`, `LoadIsMeasuredApart` (`MeasuredApart`), `RunLeavesNothing`
  (`NothingOutlivesRun`) and `ReportedRunsComplete` (`ReportedIsComplete`).

What the end of a run finds was settled stages before, so each part of `IInv` speaks of a
stage: the load is idle in the warm-up (`Idle`) and was waited for at the end (`Back`), a run
that reaches its files has not failed (`Unfailed`) and has a request (`LoadSent`), the sampler
is over by then and its rows are written (`Watched`, `Sampled`), and the files come in their
order (`Written`), so that an interrupted run lacks the last of them.

`ChatStreamProofs` proves, for any requests, lengths of answers, tokens reported and sleeps:

* `TypeCorrect`, `PrefixHeard` (`TextIsPrefix`), `CountedFirst` (`CountedBeforeTold`),
  `ServedFirst` (`NotFasterThanServed`), `TimesAreExact` (`TimesAddUp`) and
  `ImplementsContract` (`Spec => ContractSpec`).

The invariant, `Here(r)` for each request, says that everything is settled by how far the
lines have come. `Channel`: the lines are in order, and the gateway has counted exactly if
the usage has been relayed. `Heard`: the words, the `finish_reason`, the tokens and the TTFT
are those of the lines read. `Timing`: the k-th line was not sent before the sleeps
ahead of it were over, and the one that is still slept for will not be (`Served`); this
is what `NotFasterThanServed` lacks to be inductive. `Begun`: no verdict before the return,
which with `Heard` gives the refinement: a step reads a line, returns, or leaves the
contract's state alone (`StepKinds`), and each is a step of the contract (`ContractStep`).
`Added` is for what has been added up so far: the TTFT and the latencies are the
time of the last word. What the TPOT is follows by arithmetic.

`BenchProofs` proves, for any codes, inverters, times, bounds and budgets asked for:

* `TypeCorrect`, `UniqueIds` (`IdsUnique`), `LogTruth` (`TruthIsLog`), `BudgetCorrect`
  (`BudgetFits`), `CheckIsHonest` (`ReportCheckHonest`); for answers whose token counts
  are numbers (`AnswersTyped`), `SummaryIsComplete` (`SummaryAccounts`); and for answers
  that have lists, if anything, where lists are asked for (`AnswersShaped`),
  `QualityTellsRight` (`QualityIsExact`).

That ids are unique needs what `gen` has counted to be what it has written (`Tells`), and that
a prefix of what it has written keeps counting up (`PrefixCountsUp`), for a `gen` that is killed.
`LogTruth` is by cases of a line: none of the alarms, a new pair, a known one with a
later time or with an earlier one. `BudgetCorrect` is division with a remainder.

`SummaryAccounts` is about sums over tasks of sums over results: every result is of one task,
so the one is the other (`SumOverKinds`). `ReportCheckHonest` needs to know what the document was
made of: `DocInv` says it is `Render(shown)`. Two renderings that are equal have as many runs and
the same qualities whatever order the directory listed them in, since `LoadRuns` sorts them,
and sorted lists of one set are one list (`RunsListed`).

`QualityIsExact` relates a score, which is a mean of quotients of counts, to whether the answers
match the truth where the two are compared (`Matches`). Sums and
quotients of bounded numbers are full only if each number is (`FullSum`,
`FullQuotient`), so a score is full exactly if each field is (`FullMean`), and each field
exactly if it matches: the sorted list of a ticket is the truth if it has the truth's members,
each once (`SortedIsTruth`, by pigeonholes and by the first place where two lists differ), and
the pairs and counts of a log are the truth's if the precision, the recall and the share of
right counts are one, of which the F1 follows (`LogIsExact`). This is so only for truths that
`gen` writes: a ticket's list is in order without repetition, a log has an alarm. `Scorable` is the
inductive invariant: the dataset's truths are such (`AllFit`), a run's results have the task in their
ids, and what `quality.json` says is right about the dataset it was made with, which
is not the dataset that is there (`RunsExact`). That a result is scored against a request of its
own task is due to the ids.

`Sums` proves what the above needs of a fold over a set: that the order in which it takes
the members is of no consequence (`SumOverSet`), from which a sum may be split by any
classification (`SumOverKinds`), and counting is summing ones. The library's induction
theorems are about operators, which no installed prover can instantiate. `NumberInduction`
and `SubsetInduction` are about sets instead: a set of numbers that is not empty has a
least one. A function defined by recursion or a fold is then followed along its own values.

All start from the assumptions on the constants (`BucketAssumption`, `FleetAssumption`,
`RouterAssumption`, `GatewayAssumption`, `LoadRunAssumption`, `ChatStreamAssumption`,
`BenchAssumption`, `AsksAssumption`; `NamesAssumption` for `ListIsRouting`), which TLC evaluates
in the runs. `SummaryIsComplete` and `QualityTellsRight` have a hypothesis each, `AnswersTyped`
and `AnswersShaped`: `Answers` is whatever an engine may answer, and `client.py` takes a count as
it comes. Fields may be missing, and lists hold what they like; answers for which `score`
raises are `"odd"` and of the shape. The answers of `MCBench` keep to both.

Only model-checked: liveness (`DeadIsNoticed`, `AliveIsNoticed`, `ReliefIsNoticed`,
`EveryRequestEnds`, `RecoversFromOwnStalls`, `RunEnds`, `ServerForgets`), which is out of this
prover's reach.

## 5. What is left out

* Floats: tokens and times are exact. `NaN` on a metrics page (saturated until the next).
* `running`, `checked_at`, `healthz`, `metrics`, `snapshot`: they decide nothing.
* OpenTelemetry, logging, headers, the conversion of bodies and events.
* In `ChatStream`, more than one usage line: its server is the mock, which sends one. `Gateway`
  has engines that send none or several.
* A response whose relay never starts: Starlette is taken to iterate it.
* An exception other than `httpx.HTTPError` in `poll` would end the poller for good;
  `parse_prometheus` skips what it cannot read, and a malformed URL already fails the
  first round, before the gateway serves.
* Kubernetes' probes of the pods, the load balancer, TLS.
* `run_id`s that collide: one run per directory.
* Of the figures: percentiles, prices and the cost per token, plots, the KV profile of
  `profile.py`, goodput's limits as options. `gen --check` (a comparison of two hashes).
* Of the workload: the words of a prompt, the seed, the distribution of tasks and the
  daily report's numbers. A dataset made again from another seed has the same ids, and
  `quality` (cli.py:126) scores an old run against it without noticing: the model has
  this (`scored` is the dataset that was there), so `QualityIsExact` is relative to it.
* A run that is killed between `summary.json` and `config.json` is read with an empty
  configuration (`load_runs`): modelled, and `ReportedIsComplete` does not speak of it.
* `run` with nothing ok raises where it prints (cli.py:114), after the directory is
  written: modelled (`raised`), and no property speaks of it.
* The chart of the engine, the stacks, Terraform and the dashboards are declarations;
  their rollouts are Kubernetes' work.

### Hazards without a property

A request that waits for a pooled connection goes to the engine that was picked before
the wait (app.py:112): this needs `Router` and `Gateway` in one module, with a backlog per
engine beside a pool, and is in the plan. The readiness of a
pod whose event loop is blocked, two names of one gauge on a page, an open loop past its
connections, run directories of one second, and two pods on one volume are properties of
what is left out above.

## 6. Plan

Done: limiter and contract; fleet; routing and configuration; router; gateway process;
benchmark run; streams and their contract; dataset, scores, figures, commands; proofs of
all of them.

1. `Router` and `Gateway` composed: requests that wait for a connection after they were
   picked. What is left of `BacklogBound` then.
2. `Rollout`: the engine chart's rolling update, its claim and its disruption budget.

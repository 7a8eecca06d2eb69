# Verification of the intent triage service

This directory holds TLA+ models of the triage service in `src/`, the TLC
configurations that check them on small instances, and TLAPS proofs of theorems
about them for every value of their constants. Paths below are relative to the
root of the repository; the Python package is `src/intent_service`.

    tlc -config MCRateLimiter.cfg MCRateLimiter.tla     # a run
    tlc -config MCGatewayKey.cfg MCGateway.tla          # a refuted claim
    tlapm RateLimiterProofs.tla                         # the proofs of a module

## 1. Inventory

| Component | Code | State | Operations | Talks to |
|---|---|---|---|---|
| Rate limiter | `api/security.py` 55-109 | `_hits` (caller -> deque of times), `_last_sweep` | `check`, which sweeps and prunes | called by the middleware on the event loop |
| In-memory cache | `adapters/redis_cache.py` 87-110 | `_store`, an insertion-ordered dict | `get`, `set` with eviction | called by `triage` in worker threads, no lock |
| Redis cache | `adapters/redis_cache.py` 28-84 | none of its own; a Redis shared by all instances | `get`, `set` (SETEX with TTL), `healthy`, `close` | Redis, under a socket timeout; errors are swallowed |
| Triage service | `service/triage.py` | none | `cache_key`, `triage` | cache, model, policy |
| Policy | `domain/policy.py` | none (constants, thresholds) | `normalise`, `detect_urgency`, `decide` | pure |
| Model adapter | `adapters/sklearn_model.py` | a fitted pipeline | `load`, `predict` | joblib artifact |
| Instance lifespan | `api/main.py` 89-243 | `AppState.ready`, `service` | `load_app_state`, `warm_up`, `shut_down` | triage, cache |
| HTTP pipeline | `api/main.py` 264-490 | `request.state.trace_id` | `harden`, handlers, routes | limiter, authentication, triage, metrics |
| Metrics | `api/metrics.py` | four counters, one lock | `record_decision`, `record_error`, `snapshot` | routes, handlers |
| Authentication, identity | `api/security.py` 22-52, 112-134 | none | `is_authorised`, `require_api_key`, `caller_identity` | middleware, routes |
| Configuration | `config.py` | frozen settings | validators at start-up | everything |
| Training | `train/` | three CSV files, the artifact | generate, split, write, fit | the artifact |
| Golden file | `scripts/regenerate_golden.py` | one JSON file | compute, diff, ask, write | model, policy, the behavioural suite |
| Delivery | `.github/`, `Dockerfile`, `docker-compose.yml` | none | CI jobs, restart policy, grace period | the process |
| Logging | `api/logging_config.py` | none | formatting | everything logs |

What is hard here, and what each component has to get right:

* **Limiter.** Three mechanisms act on one table: lazy pruning of the caller that
  calls, an amortised sweep of everybody else, and the count. Correct means that
  no caller gets more than its budget in any window, that a client which obeys
  Retry-After is let through, and that the table forgets silent callers.
* **In-memory cache.** Worker threads share a dict without a lock; test, eviction
  and insertion are separate steps. Correct means bounded, evicting in insertion
  order, and never failing a request.
* **Triage over Redis.** Instances of different builds share keys during a rolling
  restart; Redis may hang, restart empty, evict, or apply a command late;
  instances crash. Correct means that no caller can tell the cache is there.
* **Lifespan.** `ready` must mean something; a failed warm-up must not lead to a ready
  instance, although one that succeeds may owe it to the cache; the probe reads `ready`
  twice, in a worker thread, while the instance drains. A missing artifact is to be
  survived, a bad one is not, and docker restarts what dies.
* **Policy.** The order of normalisation steps and of the branches of `decide` is
  the safety property of the product: no spelling should hide an urgency term (one
  does, see `MCPolicyBlocked` below), and an urgency term always escalates.
* **HTTP pipeline.** A request passes the event loop, up to three turns in a bounded
  worker pool and an exception handler. The order of the reasons to refuse it, and
  whether a counter moves before or after something raises, decide what clients and
  operators see. Correct means one answer, the right one, counted once or not at all.
* **Metrics.** Four counters under a lock, updated by threads. Correct means no lost
  update and snapshots that add up.
* **Golden file.** The script waits for a human between reading and writing, unless
  `--yes` was given, and the suite skips what it has no file or no model for. Correct
  means that a suite that did compare never certifies a decision that was not printed
  for somebody to see.
* **Training.** Randomness, an unordered set, truncated shares, three files. Correct
  means the same files from every run and a split that is a partition.

## 2. Modules

| Module | Models | Composed with |
|---|---|---|
| `SlidingBudget` | the promise of the limiter: a budget decided from the complete log of grants | implemented by `RateLimiter` |
| `RateLimiter` | `SlidingWindowRateLimiter` | |
| `RateLimiterProofs` | proofs about it | |
| `InMemoryCache` | `InMemoryDecisionCache` under threads | |
| `InMemoryCacheProofs` | proofs about it | |
| `PureTriage` | the promise of `triage`: model and policy, no cache | implemented by `Triage` |
| `Triage` | `TriageService`, `RedisDecisionCache`, lifespan, Redis | |
| `TriageProofs` | proofs about it | |
| `Policy` | `normalise`, `detect_urgency`, `decide` as operators | used by `PolicyEdits` |
| `PolicyEdits` | a message under the edits of the behavioural tests | |
| `PolicyProofs` | proofs about `PolicyEdits` | |
| `HttpContract` | the promise of the HTTP interface: answers and counters | implemented by `Gateway` |
| `Gateway` | middleware, router, authentication, routes, worker pool, handlers | |
| `GatewayProofs` | proofs about it | |
| `Counters` | the promise of the metrics: calls that take effect in one step | implemented by `Metrics` |
| `Metrics` | `MetricsRegistry` under threads | |
| `MetricsProofs` | proofs about it | |
| `Lifecycle` | one container from start to stop: settings, artifact, warm-up, probe, drain | |
| `LifecycleProofs` | proofs about it | |
| `Golden` | the regeneration script, its file and the suite that reads it | |
| `Training` | the generator, the split, the files, the fit | |
| `ToolingProofs` | proofs about `Golden` and `Training` | |
| `MC...` | constants and symmetry for TLC | |

Operators whose comment begins with `Mutant:` are plausible wrong versions of the
definition that follows them. Nothing uses them; replacing the definition by its
mutant must make the property it is paired with in `PROJECT.json` fail, which
shows that the property depends on what the code does.

### 2.1 `RateLimiter`

`check` runs on the event loop and awaits nothing, so `Check(c)` is one step: it
sweeps if a sweep is due (`Swept`), creates the deque a `defaultdict` creates
(`WindowOf`, `Store`), pops exactly what the `while` loop pops (`PopsExactly`, the
number of pops is the only solution of its two conditions) and then grants or
denies. The clock is an integer in ticks, `TicksPerSecond` of them to the second,
so that `int()` in Retry-After really truncates. `granted`, `answer` and
`comeBack` are history variables. The table `hits` is a function whose domain is
the set of tracked callers, so that deleting a caller, and re-creating it empty by
looking at it, are visible.

`SlidingBudget` has no table: a request is granted iff fewer than `MaxRequests` of
the caller's logged grants lie less than `Window` back. `ImplementsBudget` says
that every behaviour of the limiter is one of the budget (same `now`, `granted`,
`answer`).

### 2.2 `InMemoryCache`

The Docker image runs CPython 3.12, where a thread can lose the interpreter lock
after a call into C. Each action of a thread therefore ends after one of the calls
`len()`, `iter()`, `next()`, and the code between two of them is one step:
`Lookup` (`get`), `ReadLen` (the membership test and `len`), `Insert` or
`MakeIterator` (comparison, then the store, or `iter`), `TakeOldest`
(`next`), `Evict` (`del` and the store). `ChangedSize` and `AlreadyEvicted` are
the exceptions these calls raise. Whether the interpreter really switches at each
of these points is up to the build; the model lets it. That a specialised `len()`
leaves no switch point in some builds makes the model's overrun an upper bound,
which is what `BoundedOverrun` claims; the exceptions of `cache_raises` occur in
practice. Values are left out, since a process stores under a key a function of
the key.

### 2.3 `Triage`

The state is the phase, the build, and `ready` of every instance, the place of
every thread in `triage`, and what Redis holds. A *build* is what distinguishes
two deployments: version, floors, logic (weights, urgency terms, department map),
the fields its `TriageDecision` requires and the texts on which it raises. A
payload carries the decision and its fields; `Parses` is `model_validate_json`
(extra fields are ignored, a missing one is an error). The hash in `cache_key` is
taken to be injective on what it hashes, and `Decide`, the decision itself, is opaque
here: a value of what it depends on (`Policy` has its branches). Two builds may make
the same keys and yet differ in the texts on which they raise, as after an artifact
was replaced by a broken one under the constant `MODEL_VERSION`. Two history variables
say which instance has predicted (`warm`) and which builds have decided the warm-up
message (`decided`).

`Ask` is a request reaching `predict`; `Hit`, `Miss`, `Predict`, `Set` and `Reply`
are `triage` cut at its calls to Redis and the model. `Miss` covers an absent key,
a payload that does not parse, and every `RedisError`, a timeout on a Redis that
is merely slow included, so it is always enabled. `Set` never fails the request;
the command may have been applied, lost, or be still on its way (`late`), the
latter also after it has been applied once, as when the client retried. `Start`,
`WarmedUp`, `WarmupRaised`, `Stop`, `ShutDown`, `Crash` are the lifespan; an
instance restarts with any of the builds, so upgrades and rollbacks are both
there. The last section of actions is the environment: a Redis that loses
everything, hangs, recovers, evicts any key and expires entries.

`PureTriage` is the same service without cache: the answer to a request is one of
`Ruling[request]`. That is a single answer, the decision of the request's build,
unless its model raises on the text: then there is the error and, if some build that
makes the same key can decide the text, that decision, which a hit may give instead.
`CacheIsTransparent` maps a thread's request and reply to it.

### 2.4 `Policy` and `PolicyEdits`

Text is a sequence of characters by class (letters, presentation forms, combining
marks, tatweel, Arabic punctuation, separators). `Composed` is NFKC as far as it
matters to the scan. A presentation form becomes its letter, and a letter is decomposed
and composed again (`Compose`) with the marks that reach it: those of the run after it
that no earlier mark of the same combining class blocks (`MarksOn`), a mark of the
letter's own included (`Unblocked`). Of these the first in canonical order that has a
composed letter is taken; so an alef followed by a hamza below (class 220) and one above
(230), in either order, becomes the alef with the hamza below. Composed letters do not
compose further, as in Unicode's Arabic block. Five of the nineteen urgency terms contain
a composed letter, e.g. ya with hamza. `Stripped` then goes through the text and leaves
out marks and tatweel, one character after the other, and `Normalise` is the one after
the other. `Words` is the split at what `_NON_WORD` turned into spaces, and `Signals` is
`detect_urgency`. `Decide` has the branches of `decide` in their order.

`PolicyEdits` starts from the empty text and edits it again and again the way the
behavioural tests edit theirs once; after an edit the model may say anything,
since it reads the raw text. `Diacritic` puts a diacritic anywhere. `Decorate` is what
is harmless: a diacritic that is of another class than every mark which composes, and any
diacritic or tatweel where no mark follows (the tests put theirs after a letter
of an undecomposed text, which is such a place).

### 2.5 `Gateway` and `HttpContract`

A slot holds one request. `RefuseLength`, `RefuseRate` and `Admit` are `harden` up to
`call_next`, which runs on the event loop without an await and so is one step. `Route` is
the router, on the loop as well; `Authenticate` (the dependency, then the validation of
the body), the endpoint and `Serialize` (the validation of the result against the response
model) each need a thread. `Join` and `Leave` are the pool: a fixed number of tokens and a
queue, a token being handed to the first in the queue when it is given back. An exception
(`Raise`) gives the thread back and takes effect in `Handle`, which is one of the three
exception handlers; the only one that counts is `on_unhandled_error`. The window of the
limiter is kept as the list of the clients whose requests are in it, the oldest of which
may expire at any time (`Expire`); the exact times are the business of `RateLimiter`.
`request[s].client` is the true sender, which the code does not see; what it sees is the
key (its first eight characters and the rest), the address of the connection and the
forwarded one. `Alike` says when two requests look like those of one caller. `triage`
either answers or raises, and so does whatever a valid body stands for: that is what
`Triage` promises of it.

`HttpContract` has no stages, threads or windows: `Verdict` lists the reasons in order,
a request is answered in one step, and the counters move in that step.
`ImplementsContract` maps the answer of a slot to what can no longer change
(`Observed`): a 500 becomes visible when its handler counts it, any other answer as
soon as it is decided, because that is when the endpoint has counted it. An answer
refused for its length or for its caller is given on arrival.

### 2.6 `Metrics` and `Counters`

Every `with self._lock` block is `Acquire`, then for each field it concerns a `Load`
and, in the recording calls, a `Store`, then `Release`. `Rank` is the order of the
statements; the copy of the dict in `snapshot` is one load, since `dict(d)` is one
call. A missing action counts as 0. In `Counters` a call takes effect in a single step
between its begin and its end; the mapping subtracts what the holder of the lock has
already stored (`Committed`).

### 2.7 `Lifecycle`

`Launch` is `create_app`, where the settings are validated; `Load` is `load_app_state`
with its three ends (the artifact loaded; absent, so the process runs without a service;
anything else, so it dies); `WarmUp` and `WarmUpRaises` are `warm_up`, after which uvicorn
listens. `ProbeReadsStatus` and `ProbeReadsBody` are the two reads of `state.ready` in the
readiness endpoint. A warm-up passes if the model has a class that is an intent, or if a
cache that is up may hold the decision. `SigTerm` stops the listening; `ShutDown` is the
other half of the lifespan, which uvicorn runs when what is in flight has ended or its 15
seconds are over (`DrainTimesOut`). `Kill`, `Want` and `Outside` are a crash, an operator,
and the volume and the cache that change by themselves. An artifact is its classes and the
labels stored beside them.

### 2.8 `Golden`

`Start` is the script up to the prompt. Two steps lead on: `Accept`, the answer `yes` of
a reviewer, and `Proceed`, with `--yes`, where nobody is asked; both end in `Truncate`, the
first half of `write_text`. `Write` is its other half, `Abort` everything else that ends
the script, in the middle of the write as well. Meanwhile `Edit`, `Discard`, `Commit` and
`Checkout` change the sources and the file, and the artifact may be missing; git is
external, and the rule that a torn file is not committed is an assumption about people and
CI, since no code in the repository checks it. `Green` is the behavioural suite as CI sees
it: no test of it fails. A test that is skipped does not fail: all are without the
file, the comparison is without the artifact (`Skipped`). A file that is no JSON fails
them all. `CoversCases`, `RecordsApproval` and `MatchesReference` are its three tests; a
reviewer's name or a reason may be empty, since the script only demands the arguments.
`shown` is a history variable: the decisions that were in a diff which was printed and then
led to a write.

### 2.9 `Training`

`Try` is a turn of the `while` loop of `generate_examples`, `List` its `sorted` (a pair
stands behind those that come before it), `SplitLabel` a turn of the loop in `split` for
the rows that `RowsOf` has gathered under the label, `OpenFile` and `WriteFile` the two
halves of `write_csv`. Texts are numbers below the size of their label's pool. The
generator of random numbers is a `tape`: what it says is arbitrary, but every run reads
the same. Of the orders a shuffle may leave the model takes the rotations. `Crash` ends a
run anywhere; the files stay as they are. `Fit` is `train_model`, a process of its own
that reads the files; of the artifact it keeps the classes. `outputs` is a history
variable: what the full runs have left on disk. The names of the specification differ from
those of `Golden` (`TrainInit`, `TrainNext`, ...), so that one module can hold the proofs
about both.

## 3. Runs

| Run | Instance | Shows |
|---|---|---|
| `limiter` | 2 callers, budget 2, window 3 ticks, 2 ticks a second, 7 ticks | type, budget in every window, bounded table, honest Retry-After, refinement |
| `cache_threads` | 3 threads, 4 keys, 2 places | type, bounded overrun and bounded shrinking under races |
| `cache_one_thread` | 1 thread, 4 keys, 3 places | the docstring's promises hold without concurrency |
| `cache_raises` | 2 threads, 3 keys, 2 places | **violation**: `set` raises |
| `triage` | 2 instances of 1 thread, 3 builds, 2 texts, TTL 1, 1 late command | type; transparency, no malformed decision, ready rests on a decision |
| `triage_live` | 1 instance, 2 builds, TTL 2, fair | requests end; superseded decisions die out |
| `policy` | texts of up to 3 characters, 12 kinds of character, 2 composing marks, floors on a scale of 0..2 | type; spelling and punctuation invariance, escalation, monotonicity |
| `gateway` | 2 slots, 17 requests, budget 1, 1 thread, counters up to 1 before only probes come, fair | type; one answer by the order of reasons, counted once or not at all; no budget shared by callers that look different; every admitted request is answered |
| `metrics` | 3 threads, 2 actions, 2 records begun before only snapshots begin | type; snapshots add up; linearizable |
| `lifecycle` | 6 artifacts, 3 settings, 1 prediction in flight, 1 kill, fair | type; consistent readiness that does not flap; no crash loop |
| `golden` | 2 texts, 2 models or none, 2 pairs of thresholds, 2 decisions, with and without a reason, with and without `--yes` | type; green means shown |
| `training` | 2 labels with 3 and 2 texts, 3 wanted, 3 attempts, shares 50 and 34, 2 runs | type; reproducible files, partition, no lost label, termination |

Further configurations each check one claim that the documentation makes and the code
does not keep; TLC answers each with a counterexample. They are kept beside the runs
as a record of what to reconsider, and are not part of `PROJECT.json`.

| Configuration | Module | Claim | What TLC finds |
|---|---|---|---|
| `MCCacheOverrun.cfg` | `MCInMemoryCache` | `BoundedByMaxEntries`, two threads | more than `max_entries` entries |
| `MCTriageStale.cfg` | `MCTriage` | `DecisionsAreOwn` | superseded decisions are served for a while |
| `MCTriageReady.cfg` | `MCTriage` | `ReadyMeansWarm` | ready before the model has predicted |
| `MCTriageBroken.cfg` | `MCTriage` | `ReadyInstanceDecides` | ready with a broken model |
| `MCPolicyArabic.cfg` | `MCPolicy` | `ArabicPunctuationInvariance` | an Arabic comma hides a term |
| `MCPolicyBlocked.cfg` | `MCPolicy` | `DiacriticsAreTransparent` | a diacritic before the hamza hides a term |
| `MCGatewayPrefix.cfg` | `MCGateway` | `PerCallerBudget`, keys with one prefix | callers share a budget |
| `MCGatewayKey.cfg` | `MCGateway` | `UnknownKeyIs401` | 500 instead of 401 |
| `MCGatewayHealth.cfg` | `MCGateway` | `HealthNeverWaits` | the liveness probe queues |
| `MCGatewayRedirect.cfg` | `MCGateway` | `EnvelopeEverywhere` | an answer without the envelope |
| `MCLifecycleLabels.cfg` | `MCLifecycle` | `LoadedSpeaksDomain` | labels outside the domain are loaded |
| `MCLifecycleHealth.cfg` | `MCLifecycle` | `HealthAnswersWhileLoading` | nobody listens while the model loads |
| `MCGoldenYes.cfg` | `MCGolden` | `WritesAreConfirmed` | a write that nobody confirmed |
| `MCGoldenSkips.cfg` | `MCGolden` | `GreenMeansCompared` | green with nothing compared |
| `MCGoldenThresholds.cfg` | `MCGolden` | `GreenPinsThresholds` | green under thresholds the script no longer has |

Why the bounds are enough. *limiter*: a window that is one and a half seconds makes
Retry-After round both ways; seven ticks are more than two windows, so a caller can be
granted, fall silent, survive one sweep and be found by the next; two callers are needed
for one to sweep the other. The proofs lift the properties to all constants. *cache*:
three threads are needed for one to evict between the `next` and the `del` of another
while a third inserts; four keys let every thread work on a key of its own while the dict
is full. *triage*: two instances are needed to share; of the three builds one differs from
the first in its fields and in a model that raises on the warm-up message, under equal
keys, and one has such a model under floors, and so keys, of its own; one late command
suffices to overwrite a newer entry. One thread per instance, because threads of an
instance share nothing but the cache, which instances share as well. *gateway*: two slots
make one request queue behind, or take the thread of, another; there is one request for
each branch and for each pair of reasons whose order matters, and the callers share a
prefix, differ in it, or share a proxy; the bound on the counters ends the arrival of
requests that count, not of those already admitted. Two slots are also enough for
liveness: a slot that has answered takes the next request, which could overtake the one
that waits. The proof lifts the refinement to all constants. *metrics*: two threads lose
an update, the third reads meanwhile. *lifecycle*: the artifacts are one for each end of
`Load` and of the warm-up; one prediction in flight is enough to make the drain wait;
there is no bound on restarts. *golden*: two models that agree on a text under some
thresholds and differ on it under others, or none; a reason that is empty and one that is
not; runs, edits and checkouts are unbounded. *training*: a pool of three and one of two,
so that one label can be exhausted; two runs are compared, the first of which may die
anywhere. Shares of 50 and 34 per cent of three rows are one, one and one, and of two rows
one, none and one. *policy*: three characters hold the term of two letters with one
character more, or the term of one letter decomposed and decorated; two marks compose with
one letter, and of the marks that do not, one is of the class of one of these and one is
of a class of its own.

### What the violations and refuted claims say

* `cache_raises`: thread 1 reads the oldest key of a full dict, thread 2 evicts that
  entry, and thread 1's `del` raises `KeyError` out of `set`, so out of `triage`,
  as a 500 for a decision that had been computed. The port promises that `set`
  "swallows backend errors by contract" (`service/interfaces.py:45`).
* `MCCacheOverrun`: two threads that read the same length below the limit both insert,
  against "Bounded by `max_entries`" (`adapters/redis_cache.py:90`); `BoundedOverrun` says
  how far this can go.
* `MCTriageStale`: `cache_key` covers version and floors. A change of
  `URGENCY_TERMS`, of the department map, or a retrain that leaves the constant
  `MODEL_VERSION` alone keeps the keys, against `service/triage.py:50-53`.
  `CacheIsTransparent` therefore holds under the hypothesis `HonestVersions`
  (builds with equal keys rule alike where they do not raise), which the builds of the run
  `triage` satisfy and the theorem assumes, and
  `SupersededDecisionsDieOut` bounds the damage by the TTL.
* `MCTriageReady`: the warm-up message goes through the shared cache like any other,
  so an instance started within the TTL of another's warm-up is ready without
  having predicted, against `api/main.py:99-101`.
* `MCTriageBroken`: for the same reason an instance whose artifact cannot decide the
  warm-up message is ready, if a sound artifact of the same version and floors has left the
  decision in the cache, against `README.md:304-305`. The version is a constant of
  `train_model.py`, so a bad artifact has the version of the good one. What remains is
  `ReadyRestsOnADecision`: some model of that version and those floors did decide.
* `MCPolicyArabic`: `_NON_WORD` keeps the whole block U+0600-U+06FF, in which the Arabic
  comma, semicolon and question mark are; a term followed by one is not seen,
  against `README.md:281-283`.
* `MCPolicyBlocked`: canonical composition does not go past a mark of the same combining
  class, so a sign above (U+0610, U+06D6, ... of class 230) between a ya and its
  U+0654 keeps the hamza from the letter, and `_DIACRITICS` then strips both. The term is
  missed, although diacritics are "presentational" (`domain/policy.py:93-97`).
  `OrthographyInvariance` is about every other place and every other diacritic.
* `MCGatewayPrefix`: `caller_identity` keeps eight characters of the key, which its
  comment calls "enough to separate callers" (`api/security.py:123-124`). Keys issued
  with a common prefix share a budget, and one noisy caller consumes another's.
  `OnlyAlikeShareBudget` (the run `gateway`, in which two keys begin alike) says that the
  sharing goes no further.
* `MCGatewayKey`: `secrets.compare_digest` raises `TypeError` on a `str` with characters
  outside ASCII, which a header can hold, so such a request is answered 500 and counted
  as an error of the service, where `README.md:323` says 401. The refinement is proved
  under the hypothesis `KeysAreAscii`.
* `MCGatewayHealth`: the liveness endpoint is a plain `def` and its response is
  validated in the worker pool too, so it waits while every thread predicts, against
  "answers instantly" (`api/main.py:379-382`). `EveryRequestAnswered` is what remains.
* `MCGatewayRedirect`: a path with a final slash too many gets Starlette's 307, which
  passes no handler and has no envelope, against `README.md:291`.
* `MCLifecycleLabels`: `load` compares the classes of the pipeline with the labels
  stored beside them, not with the domain's, against
  `adapters/sklearn_model.py:44-45`. Such an instance can pass its warm-up and fail later.
* `MCLifecycleHealth`: loading and warm-up happen in the lifespan, before uvicorn
  listens, so no probe is answered "while the model is loading" (`README.md:302-303`).
* `MCGoldenYes`: the script "requires interactive confirmation"
  (`scripts/regenerate_golden.py:10-11`), but not with `--yes`; the reviewer's name in the file
  then says who is said to have looked, not that anybody was asked. `GreenMeansShown`
  therefore speaks of what was printed.
* `MCGoldenSkips`: the suite is meant not to "pass by testing less"
  (`tests/behavioural/test_golden.py:65-66`), but without the golden file every test skips,
  and without the artifact the comparison does (lines 45-46, 52-53), and CI is green.
* `MCGoldenThresholds`: the suite takes the thresholds from the golden file and nothing
  compares them with the script's, which are "asserted by the test suite" according to
  `scripts/regenerate_golden.py:32`.

## 4. Fairness

Three runs assume some. *`triage_live`.* Weak fairness of `Work(p)`: a thread inside
`triage` is scheduled again and again, and its calls return because the client is
built with both socket timeouts (`redis_cache.py:45-50`). Weak fairness of `Tick`:
the clock of Redis advances. Weak fairness of each late command: it is applied or
lost in the end. Nothing forces Redis to recover, a request to arrive or an
instance to start; that is why `SupersededDecisionsDieOut` is conditional on every
instance keeping one build for good.

*`gateway`.* Weak fairness, for each slot, of `Route`, of the part that runs in a
thread, and of `Handle`: the event loop runs every callback that is ready, and what
runs in a thread returns (inference is finite, Redis is behind timeouts). A waiting
request gets no fairness of its own: that it gets a thread follows from the queue
being served in order. Clients need not read their answers.

*`lifecycle`.* Weak fairness of starting (`restart: unless-stopped`,
`docker-compose.yml:61`, and the lifespan going on by itself), of the graceful timeout
(`--timeout-graceful-shutdown 15` in the `Dockerfile`) and of the shutdown. Nobody is
assumed to start or repair a container; `NoCrashLoop` is conditional on the container
being wanted, its settings legal and its artifact absent or sound from some time on.

## 5. Proofs

**`RateLimiterProofs`** (from `LimiterAssumption`: budget and window are positive,
as `Settings` demands). The invariants of the runs are not inductive; the
invariant behind them says that each tracked deque is a suffix of the caller's
log of grants, that everything the log has beyond it is at least one window old,
that the log is sorted and not in the future, and that the deque is never longer
than the budget. From it follow `TypeCorrect`, `BudgetHolds`, `TableStaysSmall`
and, since the deque after pruning then holds exactly the grants that still
count, `LimiterImplementsBudget`. `RetryAfterIsKept` needs one invariant more
(`Promises`): the moment that a refused caller was told lies a whole window after
all but the newest `MaxRequests - 1` of its grants, because the truncated seconds plus
one are never too few (`RoundsUp`), whatever the tick.

**`InMemoryCacheProofs`** (any finite set of threads, any keys, any number of
places). With one thread nothing changes between the read of the oldest key and its
eviction (`Undisturbed`), whence `OneThreadNeverRaises` and `OneThreadIsBounded`; the
run `cache_raises` shows that two threads break the first, `MCCacheOverrun.cfg` that they
break the second. Under the same hypothesis a thread that has read
a full dict finds it full when it evicts (`Full`), so what it takes out is the head of
the dict, which the others follow in their order: `OneThreadEvictsInOrder`.
`OverrunIsBounded` counts the threads that have decided to insert without
evicting: each step that grows the dict takes one of them out of the count.
`ShrinkIsBounded` counts those that have decided to evict, in the same way.

**`TriageProofs`** (any instances, threads, texts, builds and TTL). Most of it needs no
hypothesis about the builds. `Shape` has the types, idle threads on an instance that is
down (so a restart changes the build of nobody's request), replies only at the end
of `triage`, and `NeverMalformed`; it gives `TypeCorrect` and `AnswersAreWellFormed`.
`Honesty` says that every entry, every command in flight and every reply was computed by
some build that makes the thread's key and did not raise on the text, that threads of a
warming instance carry the warm-up text, and that for this text such a build is in
`decided`. `ReadyIsGrounded` follows, for builds of any kind, broken artifacts under
a key they share with sound ones included. `HonestVersions` enters only
in `HonestRules`, where equal keys come to mean equal decisions, and so in
`TriageIsPure` (the refinement of `PureTriage`: a hit,
a failed prediction and `Set` answer, `Ask` and `Start` ask, the ends of requests
and processes clear, everything else stutters). `MCTriageStale.cfg` shows that
the hypothesis cannot be dropped.

**`PolicyProofs`** (any alphabet, terms and scale of confidences; from
`ClassesAssumption`, that a character is of one class, as in Unicode). `TypeCorrect`, and
`ConfidencePays` from the monotonicity of the branches of `decide`. The other three are
about texts of any length, and rest on the scan being made part by part. Composing `s \o
t` is composing `t` after composing `s` with those of the marks that `t` begins with which
nothing in `s` blocks (`Passing`, `ComposedConcat`), stripping two parts is stripping each
(`StrippedConcat`), and the words of two parts with a separator between them are the words
of each (`WordsSeparated`). An edit exchanges one part for another, so it remains to
compare the parts: a decoration is stripped and, of another class than the marks that
compose, blocks none of them; a letter and its presentation form or decomposition
normalise alike, since the letter's own mark blocks the same marks as the one that is
written out (`ComposePair`, `SpellingHidesNothing`); a separator beside a separator, or at
an end, makes no word and breaks none (`PunctuationHidesNothing`); a term between
separators is a word, and a signal takes every rule of `decide` to the urgent branch
(`UrgencyEscalates`).

**`MetricsProofs`** (any threads and actions; from `MetricsAssumption`, which keeps the
lock's free value apart from the threads and the names of the fields apart from those
of the actions). The invariant says that only the holder of the lock is inside a
block (`Exclusion`), where each thread is in its call (`Progress`), and that what a
thread has read is still what is stored (`Fresh`). `RegistryIsLinearizable` takes
`Release` as the moment at which a call takes effect, `Begin` and `End` as themselves,
and everything else as stuttering (`Invisible`). `SnapshotsAddUp` follows from the
counters adding up whenever the lock is free, and under the lock once the fields still to
be stored are allowed for (`Sound`); that the sum over the actions moves with each of
them is proved for finite `Actions`, as the code's are.

**`GatewayProofs`** (any requests, slots, budget, keys and pool; from
`GatewayAssumption`, in which the configured keys are ASCII). The invariant
says of every slot which of the contract's reasons its request has already got past
(`PlacedAt`): a request at its endpoint has a length, a route and a key, so only the
model and the body are left to decide. With the bound on the pool it gives
`TypeCorrect`; under `KeysAreAscii` it gives `GatewayImplementsContract`, one lemma for
each action, the answer being given in `RefuseLength`, `RefuseRate`, in the endpoint, in
`Raise` for what is not a 500, and in `Handle` for what is. `MCGatewayKey.cfg` shows that
the hypothesis cannot be dropped. `StrangersNeverShare` has no hypothesis: the hits in a
window are requests that look alike to `caller_identity` (`AlikeHits`), whether they
are of one caller or of several with a common prefix or address; what
`caller_identity` maps to one string is `Alike` (`IdentityIsAlike`). So a caller whose
prefix or address is its own is refused only for its own requests, whatever the others
share, and `MCGatewayPrefix.cfg` shows what happens to those that share.

**`LifecycleProofs`** (any domain, artifacts, settings and bounds). The invariant says
that `ready` says whether there is a service from the warm-up to the exit of the
process, that a probe has read nothing else, and that no other verdict was delivered:
hence `ProbesAgree` and `ReadinessIsSteady`. `FloorsAreCaughtEarly` follows from the
settings being fixed, and accepted, from `Launch` on; no run checks it, since the proof
holds for all settings.

**`ToolingProofs`, about `Golden`** (any texts, models, thresholds, rulings and headers). A
decision in the golden file, in the committed file, or unchanged by the run at the prompt
or in the write was shown before; a decision that is changed becomes shown in `Truncate`,
before it is written. `GreenWasShown` follows, because a green suite that skipped nothing
equates today's decisions with those of the file.

**`ToolingProofs`, about `Training`** (any labels, pools, seeds and number of runs; from
`TrainingAssumption`: labels are distinct, pools are not empty, at least half of the rows
are for training and the shares are not more than all). Four lemmas say what the steps do
to a list of the elements of a set without repetition: `sorted` makes one
(`SortedIsList`, by counting who comes before whom), `by_label` takes one of a label's
rows (`RowsOfIsList`), a rotation leaves one (`RotateKeeps`), and the two cuts make three
that partition it (`SliceParts`). The invariant `RunInv` then says what of the examples
each phase has listed, split and written, and how many draws it has made; it gives
`TrainTypeCorrect`, `SplitLosesNothing`, `EveryLabelIsTrained` (half of two rows or more
is at least one) and `EveryRunIsBounded`.

`SeedFixesFiles` compares runs. `After(L, t)` is what a run with the memory `L` does
next if it draws from the tape `t`, and `Reached(t, L)` says that the run from the
beginning comes to `L` without going beyond the tape. Two such runs are the same as far
as both go (`ReplaysAgree`), none writes a file twice (`ReplayKeeps`), and a longer tape
changes nothing (`ReachedStays`); so on one tape every file has one possible content
(`OneOutput`). The invariant `Replayed` says that the run at work, each file that is
whole, and everything a full run has left are reached on the tape. A step of the run is
a step of the replay only because `sorted` makes the list a function of the set: with
the order of the set itself (`ListUnsorted`) there is none.

The recursive functions of `Policy` and `Training` are unfolded one step at a time from
their definitions, and facts about every length are proved by a least counterexample
(`NatInd`, from the well-foundedness of `<`), as the library's induction theorems take an
operator as a parameter, which the provers cannot instantiate.

## 6. What only TLC checks

The liveness properties `EveryRequestEnds`, `SupersededDecisionsDieOut`,
`EveryRequestAnswered` and `NoCrashLoop`: they hold under fairness, which is defined by
ENABLED, and both are out of the provers' reach. That the bounds of the runs leave every
action a chance, and that the mutants are caught, is checked by running them. Every safety
property and every refinement that a passing run checks has a theorem; the claims that TLC
refutes (section 3) are listed there because they do not hold.

## 7. Not modelled

* Logging is formatting. CI is a graph of jobs without state at run time; what its
  parts promise or do to the process is in the modules above.
* CORS, the optional documentation pages and the constant headers: configuration of
  the framework, with no state of this program behind it.
* Bodies that are not even text, for which FastAPI answers 400; methods other than GET
  and POST, which take the same branches.
* Settings without a validator of their own (only the floors, the keys and the two
  validators are in `Lifecycle`); the bounds of the others are the assumptions of the
  modules that use them.
* A SIGTERM during start-up, which uvicorn handles at its first occasion; a `Kill`
  covers its effect. `healthy` and `close` of the caches change no state a request
  sees; whether the cache is up is a variable of `Lifecycle`, so that readiness can be
  shown not to depend on it.
* Floating point: the floors are on a small scale, and a share of n rows is an exact
  quotient, whereas `int(n * 0.7)` may fall one short. Ligatures that NFKC folds to several letters:
a term written with one is folded to the same letters as its plain spelling, which is the
case of presentation forms over again. The weights of the classifier
  and the phrases of the data set are data. Shuffles that are not rotations.
* The composition of `Gateway` with `RateLimiter`, `Triage` and `Metrics` by modules: the
  gateway uses what each of them is shown to promise (a window per caller, an
  answer or an exception, counters that act in one step).

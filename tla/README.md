# Verification of AstroCrawl

AstroCrawl (`src/astrocrawl`) is an asyncio web crawler on Playwright with a
SQLite frontier, a command line and a Qt window; it stands on a plugin base
(`src/astroframe`) and a small common library (`src/astrobasis`). This directory
holds TLA+ models of its parts, the TLC configurations that check them on small
instances, and theorems about them that TLAPS proves.

Paths below are relative to `src/astrocrawl/astrocrawl/` unless they say
otherwise.

## 1. Inventory

| Component | State it keeps | Operations | What makes it correct | Model |
|---|---|---|---|---|
| Crawl database, `storage/db.py` | tables queue, in_flight, urls, failures, boundary_links, content_hashes, meta | push, pop, requeue, complete, fail, reclaim, recover, purge, promote | a URL is in one place at a time; completion is final; nothing is dropped silently | `CrawlState`, `UrlLedger` |
| Engine, `crawler/engine.py`, `crawler/_url_gate.py` | stop and pause events, worker tasks, the URL in each worker's hands, resources, counts | start-up and resume, processor chain, termination check, drain, cancel, force-fail, report, exit stack | one worker per URL; stop ends; a crawl ends; a clean end leaves nothing in flight; all that was opened is closed; counts agree with the tables | `CrawlEngine`, `CrawlRun`, `CrawlTally` |
| Throttling, `network/throttling.py` | per domain: semaphore, active count, next reservation, custom delay | try_acquire, release, acquire (rate), cleanup | at most N workers per domain; fetches spaced; no permit lost | `DomainThrottle` |
| Supervision, `crawler/supervisors.py`, `resilience.py`, `crawler/liveness.py` | worker tasks, death times, heartbeats | replace, blow, heartbeat, stale checks | a dead pool is noticed; a healthy or paused one is not given up | `WorkerWatch` |
| Page output, `storage/writer.py` and the dedup processor | buffer, file, content hashes | hash, buffer, flush, close, resume | every completed page has its record, once | `PageOutput` |
| robots.txt, `network/robots.py` | cache and running fetch per origin; groups of rules | shared fetch, expiry, eviction; parse, verdict | one fetch per origin, all who wait get it; the verdict of RFC 9309 | `RobotsCache`, `RobotsRules` |
| Sitemaps, `network/sitemap.py` | origins to read, counters, `discovery_done` | discover, recurse, report | cap respected, done means done | `SitemapDiscovery` |
| Browser pool, `browser/browser_pool.py` | mailbox, permits, slots, tasks | send, handle, drain, shut down | permits and slots add up, senders are answered, no browser is closed under a task | `BrowserPool` |
| Fetch in a slot, `browser/` and `_path_strategy.py` | context and path of the slot, page and page pool in hand, tries left | retry, rotate, replace, change the path and back, restart of the browser | a slot comes back to its path, errors are classified by the path taken, fetches end | `PageFetch` |
| Proxies, `proxy/` | three-state breaker per proxy, scores, recovery event | choose, report, probe, wait | trials only of proxies that were reached, recovery in time | `ProxyBreaker` |
| Plain HTTP fetches, `network/_fetch.py` | the call's own | retry loop for robots.txt and sitemaps | ends; both paths tried before it gives up | `PlainFetch` |
| Rules, `rules/` | rule files, switches, snapshot, index and cache, sources and their cache | load, match, reload, fetch, switch, edit, extract, make | a page gets the rule that fits best; no update lost; a made rule works | `RuleBook`, `RuleSources`, `RuleDesk`, `FieldExtraction`, `RuleMaking` |
| AI client, `ai/` | token bucket, permits, table of tool calls | acquire, call, retry, probe, stream | limits respected across threads; a stream tells its own calls | `AiCalls`, `AiStreams`, `RuleMaking` |
| Preferences and configuration, `utils/preferences.py`, `config.py` | preferences file, layers of settings | load, save, profiles, routes, merge, validate | references intact; the uppermost layer holds; what runs is valid and is what is shown | `Profiles`, `CrawlSettings` |
| Window, `gui/` | crawl thread, dialogs and their threads, preview browser | start, pause, stop, close; generate, test, update; open pages | the window knows what its threads do; nothing is left behind a closed dialog | `GuiCrawl`, `DialogWorkers`, `PagePreview`, `RuleDesk`, `Profiles`, `CrawlSettings` |
| Command line, `cli/` | a process, its copies of files | crawl, rules, sources, ai, proxy | as the window, next to it | `CrawlSettings`, `RuleDesk`, `RuleSources`, `Profiles` |
| Plugin processes, `src/astroframe/astroframe/_lifecycle.py` | process, pipe, locks, restart budget | call, time out, crash, restart, close | a reply answers its own call; the process limit holds; every use ends | `PluginProcess` |
| Plugin host, `_host.py`, `_sandbox.py` | the child's loop, layers of the sandbox | setup, call, answer, end | life in order, one answer per request | `PluginHost` |
| Plugin registry, loader, admission, `_registry.py`, `_loader.py`, `_scanner.py` | registered capabilities, status and permissions of packages, scan caches | register, order a chain, discover, scan, admit | tables agree; constraints respected; no plugin with more than its dependencies allow | `PluginRegistry`, `PluginDiscovery`, `PluginAdmission` |
| Plugin trust, `_state.py`, `_signature.py` | state file with copy and lock; wheel cache, installed tree | grant, revoke, find zombies; verify | no update lost, also over damage; the verdict is one of the files that are there | `PluginState`, `SignedPackage` |
| Navigation, diagnostics, HTML and URL helpers, proxy session, base library, scripts, placeholder packages | counters, constants | | | section 8 |

How they interact. A worker pops a URL from the database and passes it down a
chain of eight processors: domain permit, robots.txt, rate limit, fetch through
the browser pool's mailbox, parse, content hash and output, completion, links.
The chain and the worker's exception handlers decide a *disposition* -
completed, requeued or failed - and only a failed URL is settled afterwards.
Links go through `UrlGate.admit` to the queue or, beyond the depth limit, to
`boundary_links`. Sitemap discovery, the retry monitor and the start-up feed
the same queue. The main loop polls the tables until nothing is left, or a
limit, a stuck timer or the user stops it; then it drains, cancels the workers
and fails whatever is still in flight. A supervisor replaces workers that die.
All of a crawl runs on one event loop: a step is what happens between two awaits
that can really suspend, and `task.cancel()` makes any of them raise. The window
runs that loop in a thread of its own and is reached by queued signals; its
dialogs run further threads. Window, commands and crawls meet in files: the
preferences, the rule files and their switches, the list of sources, the trust
state of plugins.

What is hard here, and listed under `hazards` in `PROJECT.json` with its line:
the URL that moves between tables while another task reads them; cancellation
and chain timeouts that arrive after the awaited transaction has committed;
redirects that complete a URL someone else holds; the shutdown that races all
of this; the crash between a completion and what should follow it; a resume
with other limits; counts that must survive both; permits given back by those
who never had them; clocks that run on during a pause; pipes whose replies carry
no number; pages and pools that went with the context they came from; shared
fetches, caches and streams whose first user leaves; stop and close pressed while
a thread is not yet, or no longer, there; and files that two processes read and
write whole.

## 2. Plan, and what became of it

1. `CrawlState` with `UrlLedger`, `CrawlEngine`, and their proofs.
2. `DomainThrottle`, `WorkerWatch`, `PluginProcess`: what the engine leaves to
   chance, and the processes of plugins.
3. `PageFetch`, `BrowserPool`, `ProxyBreaker`: what lies behind the fetch step.
4. `PageOutput`, `RobotsCache`, `RobotsRules`, `SitemapDiscovery`, `PlainFetch`,
   `CrawlRun`, `CrawlTally`: the rest of a crawl.
5. `PluginRegistry`, `PluginState`, `PluginDiscovery`, `PluginAdmission`,
   `PluginHost`, `SignedPackage`: the plugin base.
6. `RuleBook`, `RuleSources`, `RuleDesk`, `FieldExtraction`, `RuleMaking`,
   `AiCalls`, `AiStreams`, `Profiles`, `CrawlSettings`: what outlives a crawl.
7. `GuiCrawl`, `DialogWorkers`, `PagePreview`: the window and its threads.

All of these are written and checked. What would come next: `SharedConnection`
(statements outside the write lock that join another coroutine's transaction),
`ProxyChoice` (tiers, weights, the pause of `proxy_only`), the second sink for
extracted items; and proofs of the parts that are model-checked only, which
section 7 lists.

Parts that share no state are explored in one run, each by itself: `MCParts`
those with safety properties, `MCTasks` those whose tasks have to come to an end
or whose sessions start over. The engine has runs of its own.

## 3. The modules

**`UrlLedger`** is what the store promises about each URL: unseen, pending,
completed or failed, completion for ever, and a pending URL forgotten only in
the step that completes the page it was an alias of.

**`CrawlState`** has one function or set per table, and one action per method
of class `CrawlState` that moves a URL. A method is one `BEGIN IMMEDIATE`
transaction under `_write_lock`, hence one step. Methods that may answer "no"
have a `Can...` predicate that holds exactly when they commit. `Next` lets
anybody call anything, so what is proved about it does not depend on the
engine. `LedgerStatus` reads the tables as a ledger.

**`CrawlEngine`** extends it. `main` is the position of `AsyncCrawler.run` and
`_run_worker_loop`, `pc[i]` that of worker `i`, `job[i]` its
`ProcessingContext`. The values of `pc` from `acquire` to `return` are the
processors. An action goes from one real suspension point to the next; where
the code awaits a transaction, the transaction is the action. `cancelled` holds
the workers whose task was cancelled: such a worker takes only `Cancelled`
steps, and a cancelled pop or requeue may or may not have committed, which is
what `aiosqlite` does with a cancelled caller. `Fault` steps - an exception in a
processor, the chain timeout, a database error while settling - are bounded by
`MaxFaults`. `Crash` may strike in any session but the last and forgets all but
the tables. What page contents and permits decide is a free choice: a fetch may
fail, end at any URL in `Redirects`, and yield its links or none.

**`DomainThrottle`** is one domain's state in `DomainTracker`, with the visitors
as they pass through the permit and rate-limit processors. Clocks are times
left or gone by, capped where no test can tell them apart, so the state space is
finite without a horizon.

**`WorkerWatch`** is the supervisor, fuse, heartbeats and the stuck checks of the
main loop, on the same kind of clocks. `silence` is a history variable: unpaused
time since any worker sent a heartbeat.

**`PluginProcess`** is class `SubprocessPlugin` with the tasks that create, call
and close plugins, the semaphore they share, and the two pipes of each child.
`stage[t]` is the await a task is in; the steps between `kill` and `greet` are
`_handle_crash`. Replies carry no number in the code; in the model they carry
whether the call they answer is still there, which is all `OwnReply` needs. The
child answers, hangs or dies as it likes and, as `_host.py` does, forgets what it
read after the first newline. `CutOff` is a `CancelledError` at any await: the
code catches `Exception`, so what was taken stays taken. Cancellations and
replies over the reader's limit are *mishaps*, bounded by `MaxMishaps`, and the
properties say which of them they survive.

**`BrowserPool`** is class `BrowserPool` as an actor. `reply[r]` is the future of
request `r`, `place[r]` where the request is: in the mailbox, in the hands of
`run`, or in a `_handle` task at one of its awaits. `cut` holds the cancelled
tasks, which take only `CutShort` or, before their first step, `NeverBegins`: a
task that never begins never reaches the `finally` that gives back its permit.
`drain` gathers the tasks it knows at its start; `late` remembers those started
meanwhile. What happens between `Opened` and `Answer` is `PageFetch`.

**`PageFetch`** is one slot and the fetches that follow one another in it:
`_do_fetch` with its sections (the path remembered for the domain, the main
path, the fallback), the retry loop, the retry strategies, `scoped_path` and
`SlotPool.replace`. `via` is the path of the slot's context, `flag` what the
retry loop takes it to be; `page` and `pool` are what the fetch holds, dead when
they went with their context. Which error occurs, hence which strategy is taken,
is a free choice. The health check may restart the browser between any two
steps, and the pool may stop accepting.

**`ProxyBreaker`** is the entry of one proxy in `ProxyHealthTracker`. Reports of
failure (weight 1, or 3 for a time-out) and success come in every state. Time is
counted in rounds of the probe loop. `streak` and `overdue` are histories: the
rounds in a row that found the open proxy reachable, and those of them since its
cooldown ended.

### The rest of a crawl

**`CrawlRun`** is `AsyncCrawler.run` around the crawl: the resources it opens, in
order (`opens`), what Phase B reports and saves (`told`, `kept`), and the
callbacks left on the `AsyncExitStack`, which the code registers in one fixed
order (`Registered`) and of which the last one goes first (`Top`). Opening may fail, the crawl may raise,
a callback may raise, time out or be cancelled; these are the `upsets`.

**`CrawlTally`** extends `CrawlState` with what is counted of it: outcomes and
redirects, the plan and the processed URLs of one layer, and the part of both
that the meta table keeps. A settlement is counted after its transaction has
committed, so a crash or a cancellation may come between.

**`PageOutput`** is the hash in the table, the record in the buffer, the batch in
a thread of the executor and the completion of the page, each a step of its own.
`mutex` is the writer's lock and `flusher` its periodic task. A cancelled flush
leaves its write to the thread, as `run_in_executor` does.

**`RobotsCache`** is the cache, the shared task and the fetch permits per origin,
with the callers that await a task directly; cancelling one of them cancels the
task. **`RobotsRules`** is `AsyncRobotsParser` line by line, with the
verdict on a path; beside the parser's state it keeps the lines, of which
`VerdictOfRFC` states the groups and the longest match of RFC 9309.

**`SitemapDiscovery`** is class `SitemapDiscovery`: a task per origin, a task per
sitemap, the marks of what was seen, the recursion limit and the cap, and
`discovery_done`. **`PlainFetch`** is `aiohttp_retry_fetch`: one loop over tries,
proxies and the two paths of `PathSwitch`.

### The plugin base

**`PluginRegistry`** is the three tables of class `PluginRegistry` and the
topological sort of `chain_order` as a recursive function.
**`PluginState`** is `plugin-state.json` with its `.bak` and its lock file under
processes that load, grant, revoke and mark zombies, crash, fail to write, or
find the file damaged; a file's content is the set of changes it holds.
**`PluginDiscovery`** is the passes of `discover_plugins`: a status per package,
turning down those whose needs are not loaded until nothing changes, adding up
power in topological order, judging once more. **`PluginAdmission`** is the scan
of what code imports, with the caches all scans share, and the gates before a
plugin gets a process or its `on_load`. The scan starts with the `__init__` files
above the factory, goes on to the plugin's files they import, and traces every
import of these; it passes over a plugin it does not find (`located`), a file it
cannot read or parse (`legible`) and the imports its visitors do not report
(form `"hidden"`). What pip knows of a plugin may change under the process
(`FilesMove`). The history `blind` has the gates that let a plugin pass unscanned. **`PluginHost`** is the child: the layers
of its sandbox, the import, and the loop over stdin; its parent is free, and
`hasty` tells whether it ever wrote without waiting. It extends the modules a plugin
passes before, to state `PluginsSound` of all. **`SignedPackage`** is the
check of an installed package against a signature or a pinned hash while trees
and caches change.

### Rules and AI

**`RuleBook`** builds a snapshot of rule files of three sources and the switches,
refuses one in conflict, and answers pages through the index by domain and the
cache by host. Files and switches change at any time; a reload replaces the
snapshot, a crawl keeps its own. **`RuleSources`** is `sources.json` under two
managers with the `flock` of its lock file: manifest, hash, rules, in the order
in which an update commits them. **`RuleDesk`** is the rules dialog and the
commands over the same directories; `shown` is the window's snapshot,
`readOff` what a process holds of the state file between reading and writing it. It
extends `PagePreview`, below, to state `WindowsSound` of both.

**`FieldExtraction`** is the pool of threads of `_extractor.py` and the time
limit of who waits for it. **`RuleMaking`** extends it, and `RuleBook` to state
`RulesSound` of all three, with the making of a rule by a model: probe, attempt,
judgement, feedback, cancellation, and how the errors of three providers are
classified. **`AiCalls`** is the semaphore and the
token bucket shared by threads and tasks; **`AiStreams`** the assembly of tool
calls from the pieces of a stream. The table belongs to the client and has its
indexes in the order in which they came, as the code's `dict` does; each stream is at
a chunk of what its model says (`call`, `nth`), and `Due` is the chunk that its
service sends next.

### Settings and the window

**`Profiles`** is the preferences under the window and the commands, each with a
copy of its own. A run is about AI profiles, proxy profiles or visited
directories (`topic`), which never touch each other. It extends `AiCalls` and
`AiStreams` to state `ProfilesAndCalls` of all three. **`CrawlSettings`** is the
layers of the command line and the main window's two halves of a configuration;
one or two settings of each kind stand for the others.

**`GuiCrawl`** is the main window, the crawl thread, the event loop in it and the
signals under way. **`DialogWorkers`** is the threads of the pages of a dialog;
`told` are those that were cut off and cancelled, `loose` those a page forgot
while they ran. **`PagePreview`** is the panel, its session thread and the pages
of the browser, with calls that outlive the panel's patience.

`MCParts`, `MCTasks`, `MCCrawlEngine` and `MCHealing` give the instances for TLC;
the `...Proofs` modules hold the theorems. Operators
named `Mut...` are plausible bugs of the definition they precede; no
specification uses them, and each property is checked to fail when one takes its
definition's place.

## 4. The runs

| Run | Instance | Shows |
|---|---|---|
| `pool` | 3 pages on 2 hosts with a redirect and a cycle, 2 workers, queue of 2, no faults | `EngineTypeOK`, `OneOwner`, `NoneStranded`, `CrawlEnds` |
| `faults` | 2 pages that redirect and link to each other, 2 workers, queue of 1, 1 fault | `ClosedClean`, `StopEnds` |
| `sessions` | the same 2 pages, 1 worker, 2 sessions with depths 1-2 and retry limits 0-1, a sitemap, a crash, 1 fault | `StoreSpec`: the engine only takes steps the store allows |
| `parts` | 24 parts, each by itself, safety only | the table below |
| `tasks` | 9 parts, each by itself, under fairness | the table below |
| `shallower`, `healing`, `permits`, `spacing`, `pause`, `limbo`, `fallback` | | the disagreements of section 6 |

Properties that several parts need in one run are conjunctions; each conjunct is
stated, with its comment, in the module it is about.

| Run | Property | Conjuncts | Instance |
|---|---|---|---|
| both | `PartsTypeOK`, `TasksTypeOK` | the type invariant of each part | |
| `parts` | `QueueInFlightDisjoint`, `CompletedStaysDone`, `LedgerSpec` | | 2 URLs of one domain, queue of 1, any callers |
| `parts` | `PermitsSafe` | `PermitsAccounted`, `NoPermitLost` | 3 visitors, 2 permits |
| `parts` | `BreakerSound` | `ClosedHasRoom`, `ProbedTwice`, `RecoversSoon` | threshold 3, cooldown and trial of 2 rounds |
| `parts` | `CapacityKept`, `SenderServed`, `NothingRunsOn` | the first: `PermitsKept`, `SlotsKept` | 2 requests, 1 permit, 2 slots |
| `parts` | `RobotsSound` | `FetchSharedByAll`, `VerdictOfRFC` | 3 origins, 3 callers, 1 fetch permit, cache of 2, 1 cancellation; files of up to 4 lines with 3 agents and 3 rules |
| `parts` | `RegistrySound` | `TablesAgree`, `ChainRespectsConstraints` | 3 plugins with 7 sets of capabilities, cyclic constraints among them |
| `parts` | `PluginsSound` | `ReturnedIsSeen`, `LoadingSound`, `SignatureSound`, `HostSound` | 2 processes, 2 changes, 2 mishaps; 3 packages in 2 graphs; 3 wheels and 2 changes; 4 messages |
| `parts` | `AdmissionSound` | `CachesExact`, `CoveredOnly`, `NoReprieve` | 2 plugins, 4 import graphs (a circle in the library, one through a plugin, an import not reported), 2 files that cannot be read, plugins found or not, 5 versions |
| `parts` | `OutputKept` | `RecordOnce`, `CompletedIsOut` | 2 workers, 3 pages (two with one text, one blank), buffer of 2, 1 trouble, 2 sessions |
| `parts` | `RunClosesUp` | `ClosesUp`, `TellsItsEnd` | 3 upsets |
| `parts` | `RulesSound` | `RulesAnswer`, `ExtractionSound`, `MakingSound` | 7 rules on 6 shelves, 3 pages of 2 hosts, 4 answers or changes; 2 jobs for 1 thread; 3 attempts with 3 providers |
| `parts` | `WindowsSound` | `DeskSound`, `PreviewSound` | 3 operations on 5 rules; 2 pages, 2 panels, 2 calls |
| `parts` | `SourcesKept` | `EditsKept`, `HashTruthful` | 2 sources, 2 managers, 2 editions, 3 events |
| `parts` | `ProfilesAndCalls` | `SettingsSound`, `CallsBounded`, `StreamsSound` | 2 names, 2 consumers, 2 edits, 1 command; 1 thread and 1 task on 1 permit and 1 token; 2 streams |
| `parts` | `LayersSound` | `WindowValid`, `ModeShown`, `LoadGivesBack`, `UppermostHolds` | 3 steps over files, variables and flags of which some are invalid |
| `tasks` | `FuseBound` | | 2 workers, 1 restart |
| `tasks` | `SlotsHeld`, `OwnReply`, `NothingLeft`, `EveryUseEnds` | the first: `SlotsAccounted`, `ChildHasSlot` | 2 plugins, 2 tasks, 1 slot, 1 restart, 1 mishap |
| `tasks` | `PathKept` | `PathRestored`, `FlagFresh` | 4 proxy modes, 2 retries |
| `tasks` | `BothPathsTried` | | 2 proxies, 2 retries |
| `tasks` | `DiscoverySound` | `DoneWhenDone`, `LimitNearlyKept` | 2 sites whose indexes lead to each other and back, recursion 1, cap 1 |
| `tasks` | `GuiKnows` | `WindowKnows`, `LabelTells` | 2 crawls, 3 clicks |
| `tasks` | `TalliesMatch` | `CompletedCounted`, `PlanCovers`, `CumulativeCounts` | 2 URLs, 2 sessions, retry limits 0 and 1 |
| `tasks` | `DialogSound` | `NoneOutlives`, `OneGeneration`, `PulseTrue` | 2 pages, 2 workers each, 2 openings |
| `tasks` | `NothingHangs` | one leads-to for the parts: `EveryFetchEnds`, `EveryPlainFetchEnds`, `DiscoveryEnds`, `BufferDrains`, `StopIsAnswered`, `WatchEnds`, `DialogsEnd` | |

In both runs `part` is chosen at the start and only that part moves, so the state
space is the sum of those of the parts.

Why the bounds are enough. Queue bounds of 1 and 2 make `QUEUE_FULL` happen
while requeues, retries and links compete. Two workers are what it takes to pop,
complete by redirect, and requeue the same URL. Three pages give a redirect whose
target is queued, in other hands, or done. One fault at any point covers each
handler; two independent ones are not explored. Two sessions cover every pair of
configurations a database can meet. Three visitors with two permits are needed
for a refused worker to give back the permit of one of two holders. One slot for
two plugins makes a restart lose its slot to a create; with one restart a plugin
is exhausted after two crashes, and one mishap already breaks what mishaps can
break. A cooldown of two rounds is the shortest of more than one, as 30 s are
with a probe every 5 s; a failure of weight 3 opens the breaker at once, failures
of weight 1 one by one. Two requests for one permit leave one in a task while the
other waits for it. Two retries let a path be tried, left and tried again.
Three origins overfill a cache of two while a third caller joins a fetch. Four
lines of robots.txt are two groups with a rule each, in any order. Three packages
in a chain and in a cycle make the passes of the discovery turn one down after
another. Two changes of the trust file by two processes are what a lost update
takes; two mishaps damage the file and then its copy. A buffer of two is full
with two of three pages, and one trouble may fall before, in or after a flush.
Two managers of one list of sources, two editions of a manifest and three events
let an update be overtaken by a change of the entry and by a second update.

`CHECK_DEADLOCK FALSE` is set where the system really stops: sessions run out
(`MaxSessions`), the main loop has ended, a dialog or window is closed, or a
bound on edits, clicks, commands or events is reached.

## 5. Fairness

`FairEngineSpec` gives every worker weak fairness on its chain (each await is
under a timeout: `PROCESS_URL_TIMEOUT`, the fetch budget, database calls that
return), the main coroutine weak fairness on start-up, polling and shutdown
steps, and the retry monitor and sitemap discovery weak fairness as periodic
and finite tasks. Nothing is owed by the user, by faults, by crashes, by
`Abandon` or by the stuck timer, so `CrawlEnds` does not lean on them; it
excludes crawls that are paused again and again.

`FairTasksSpec` of run `tasks` owes to each part what the part's own fair
specification does. `WorkerWatch` asks only that time passes and that the main
loop comes round. `PluginProcess` gives each task strong fairness: all its waits
are under timeouts, but for the lock and the semaphore, and asyncio serves the
waiters of these in their order. Nothing is owed by a child. `EveryUseEnds`
supposes that nobody waits for a slot for ever, as one may do when all are taken
by plugins that nobody closes. `PageFetch` and `PlainFetch` have weak fairness on
the steps of the fetch, whose awaits are all under timeouts; the first claims
that a fetch ends or rotates its proxy once more, since rotations are no retries
and nothing in the code bounds them while probes revive proxies. Sitemap
discovery has it on the steps of its tasks, whose fetches end for the same
reason. The writer has it on its own steps: the flusher sleeps for a fixed time
and a write in a thread returns or fails; `BufferDrains` excepts a writer whose
flusher has died of a failed write. In the window, queued signals are handled
(`Slot`) and the thread's loop goes on (`ThreadStep`), for neither waits for a
person; the crawl returns once a stop was asked, which is what `StopEnds` shows
of the engine; nothing is owed by clicks. The same holds of a dialog: its events are
handled, its cleaning goes on after the limits of `wait()`, and a worker's
request ends by its time limit.

## 6. Where code and documents disagree

* `shallower`: on a resume with a smaller depth only failure rows are purged.
  Queue rows beyond the new depth are handed to workers, which the comment in
  `run()` says must not happen; the method written for it,
  `purge_queue_depth_ge`, is never called.
* `healing`: the self-healing looks for lost children in `boundary_links`, where
  links within the depth limit never are. Children of a page completed just
  before a crash are not found again.
* `permits`: every chain ends in `domain_concurrency.release`, also one that was
  refused. The refusal therefore frees a permit another worker still uses, and
  `domain_max_concurrency` is exceeded with three workers on one domain.
* `spacing`: the rate limiter reserves `now + interval` instead of adding to the
  reservation ahead, so workers that wait together fetch together.
* `pause`: heartbeats age during a pause. A crawl resumed after more than
  `WORKER_STUCK_TIMEOUT` is aborted as stuck at once.
* `limbo`: when the restart after a crash fails, `_handle_crash` returns without
  trying again. Later calls are refused before they could reach it, so the
  plugin never uses the restarts it has left and is never marked FAILED.
* `fallback`: when the main path has failed, `scoped_path` gives the slot a
  context of the other path, but the retry loop goes on with the page and the
  `PagePool` of the old one. A closed pool yields no page, so the tries run out
  and the fallback fails untried.
More was met and is not claimed by a run.

*Crawl.*

* The termination check is three reads of the queue and one each of in_flight
  and failures; a URL requeued between them is missed, the crawl ends with it in
  the queue, and the next session takes it up.
* The chain timeout can strike after a free requeue has committed: the URL is
  then charged a retry although another worker may already have it, so
  `OneOwner` is claimed without faults only.
* Boundary links are deleted before they are queued on a deeper resume; a stop,
  a crash or a full queue in between loses them.
* An exception before Phase A leaves what was opened so far open; a
  `CancelledError` in Phase A skips Phase B and the exit stack (`ClosesUp` is
  about crawls that ended by themselves or in an error). The Playwright context
  ends before `pool.shutdown`, the database is closed before the last steps of
  the retry monitor, the connector before `sitemap.aclose`.
* With `resume_if_exists=False` over a database that is not empty, outcomes and
  snapshot are read before `reset_all`, so the report of the fresh crawl has
  those of the old one. Failures of earlier sessions are not in
  `initial_outcomes` although a comment calls the counts those of all time. The
  retry monitor counts a fetch error for each URL it reclaims and does not raise
  the plan, so processed may exceed planned.
* The content hash is committed before the record is written: a worker cut off
  in between leaves a page whose retry is `DUPLICATE` and has no record. Records
  in the buffer are lost in a crash although their pages are completed. A last
  line written in part is joined by the first record of the next session. A disk
  error in a periodic flush ends the flusher; a record written after `aclose` is
  dropped in silence. `RecordOnce` counts these as `missed`.

*Network.*

* The chain timeout of one waiter cancels the shared fetch of robots.txt and may
  leave the dead task in `_tasks`; others that wait, or ask later, for that
  origin get its `CancelledError`. Workers that return that way are not replaced
  (`supervisors.py:62`).
* Consecutive user-agent lines give their rules to the last agent only,
  `Sitemap` lines before the first agent are not read, and rules are not
  percent-decoded while paths are; `src/astrocrawl/README.md:65` speaks of a
  complete RFC 9309. `VerdictOfRFC` excepts the first.
* A sitemap first met beyond the recursion limit is marked as seen and not read
  when it is met again within it. The cap may be exceeded by one URL for each
  sitemap being read (`LimitNearlyKept`).
* `drain` ends in `_handle_tasks.clear()`, which also forgets the tasks that
  were started while it waited; `shutdown` closes the browsers under them.
  `NothingRunsOn` excepts them.
* A `_handle` task that is cancelled answers nobody, and an actor cancelled at
  `_slot_sem.acquire` loses the request in its hands. In the engine the workers
  that wait are cancelled before, so nobody hangs. `SenderServed` excepts both.
* `_handle` closes the page it opened; pages opened by retries are closed only
  with their context, although `page_pool.py` says that pages are destroyed
  after use.
* A slot whose way back fails stays on the other path for the fetches to come
  (`PathRestored` excepts it).
* The cooldown of a proxy that fails its trial is always 1.5 times the first,
  never more; `src/astrocrawl/README.md:385` and `_constants.py:97` let it grow
  up to 120 s.
* `get_proxy` adds to the counters of all proxies but subtracts from the chosen
  one only, and chooses among the best tier: the counters of the others grow
  without bound, unlike the smooth round-robin of `src/astrocrawl/README.md:384`.
* `all_proxies_dead` looks only at proxies that have statistics: with those open,
  `proxy_only` pauses although there are proxies it never used.

*Plugins.*

* Version tuples of unequal length compare otherwise than PEP 440 has it; the
  first capability that is trusted decides for all of a package; a package
  without capabilities stays LOADED with the power it borrows
  (`NoBorrowedPower` excepts it).
* `chain_order` puts members without constraints where the default order has
  them, not after all others as its docstring says. `on_unload` may be called
  once per capability although `on_load` is called once.
* The grace time of a trust record is counted from its granting, not from the
  detection of the zombie. Reinstalling does not clear `_zombie_detected_at`. A
  reader without the lock may put an older state back (`astray`).
* The scan of imports lets pass what it does not see, so `CoveredOnly` is about
  plugins that are found when the gate asks (`blind`) and that keep nothing from
  the scanner (`Plain`):
  - A plugin whose distribution, root directory or factory file is not found gets
    an empty, clean result that is not cached (`_scanner.py:161-180`); both gates
    pass it unscanned, and the next one scans it if it is found by then.
  - A file that cannot be read or parsed, and a module without Python source,
    counts as one without imports.
  - `from package import submodule` follows the package and not the submodule, and
    the `__init__` files above an imported module are not looked at; those above
    the factory are (`Starts`).
  - A relative import is traced under its bare name, so a plugin may be blamed for
    an outer module of that name; its file is scanned all the same. An import that
    is none of the plugin's may be taken for a file of the same last name.
  - Where imports run in circles a cache keeps incomplete entries
    (`CachesExact` says they never have a root too many). It is not renewed when a
    package is replaced in the same process.
* `is_hard_block` is not consulted. `orchestrate_plugin_global` runs `on_load` in
  the parent and does not look at deprecation.
* The hash of an installed package covers everything beneath the directory it is
  installed in, so the installation of another changes it. What is verified is a
  cached wheel of the package's name, whatever version is installed.
* The host drops bytes behind the newline of one read; JSON that is no object,
  and `sys.exit` of a plugin, end its loop without an answer. A failed setup
  keeps the instance. The end of input ends the child without `aclose`. A layer
  of the sandbox whose `setup` or `apply` raises is logged only.

*Rules and AI.*

* `_match_cache` is keyed by host but asked before path patterns: after a page of
  a host got the default or a rule without a pattern, later pages of that host do
  not get their pattern rule (`_matcher.py:119`, `_types.py:192` say otherwise;
  `AnswersFit` says what does hold).
* `src/astrocrawl/README.md:67` and `:441` give user rules the highest
  precedence; `SOURCE_PRIORITY` in `_constants.py:15` gives it to those of pip.
* A reload replaces the snapshot, but workers keep the one of `engine.py:1332`,
  and the conflict gate is not asked again. Overlapping sets of domains are not
  seen as conflicts. Disabled rules count toward `MAX_RULES_TOTAL`. The first
  switch creates the state file, and with it rules whose own file says
  `enabled: false` are on; a damaged state file is deleted.
* `rules edit` ends in an `UnboundLocalError`: `safe_write_rule_file` is
  imported only in the branch of `generate`, so it is local to the function
  (`cli/main.py:1116`), and the edit is not saved. The command finds a rule by
  its file's name, the snapshot by the name in it. Generated, pasted and
  imported rules replace one of that name without asking, while the command asks
  for `--overwrite`. Deleting leaves the switch behind, so a later rule of the
  name starts switched off.
* The hash of a manifest is kept before its rules are fetched, so a failed
  download is not tried again until the manifest changes (`HashTruthful` excepts
  sources whose update failed). Failures and the daily limit are counted per
  manager, and a manager lives for one operation. The first manifest with
  `emergency_disable` still brings its rules. The dialog's switch of a source
  writes a key that `SourceState` does not have; the source is then not loaded.
  Removing a source by window or command leaves its rules in the cache.
* The limiter takes tokens away where they do not suffice and does not keep the
  sleeper's for it, so the rate reaches about twice the limit that
  `_rate_limiter.py:147` states (`RateNearlyKept` is the bound that holds). A
  task cancelled while it waits for the semaphore leaves a thread that takes a
  permit for good (`lost`). Probes are not in the usage tracker.
* OpenAI and Anthropic clients keep the table of tool calls on the client, so
  streams that overlap mix their calls (`StreamsSound` is about a stream alone).
  With `include_usage` the chunk with the usage has no choices and is skipped.
* Anthropic and Google time-outs are mapped to plain `AIError`, which the probe
  does not retry; cancelling is looked at only before an attempt.

*Settings and window.*

* Each edit of a proxy profile gives it a new uuid, so its consumers lose their
  route; "Set as Default" stores no node, which means direct. Ticking "Enabled"
  is never pending, so Apply does not write it. Renaming an AI profile makes a
  second one. Window and commands write whole copies, so one may undo the other;
  an `OSError` on reading deletes the file.
* The command line reads a few fields only of the file the window saves, and not
  `concurrency`, `use_sitemap` or the proxies (`cli/main.py:360` says they are
  shared). Layers in between must be valid even where a higher one overrides
  them. After a load or a reset the mode that runs may not be the mode shown
  (`ModeShown` excepts these by `leftMode`).
* A stop before the thread's loop runs is lost while the button is disabled
  (`StopIsAnswered` excepts it by `lost`). A second close while closing leaves
  the crawl behind. `request_stop` ends a pause without a signal.
* `QThread.terminate` after 30, 15, 10 or 5 s leaves the permit of rule
  generation, or the lock of `sources.json`, taken until the program is
  restarted. The proxy page asks only `isRunning()`, so a test begun between a
  thread's end and its `finished` signal is forgotten (`loose`).
* In the preview, a page that opens after the panel's 30 s stays without a row;
  when the user closes the browser the panel keeps a session that is over, and
  Go stays disabled until the panel is closed.

## 7. What is proved

`CrawlEngineProofs`, the database, the engine and the counts of a crawl. Of the
database, for any sets of URLs and depths, any assignment of domains,
any queue bound and any retry limits, from `DepthAssumption`,
`RetryLimitAssumption` and `NoneAssumption`:

* `TypeCorrect`: `Spec => []TypeOK`.
* `Disjointness`: `Spec => []QueueInFlightDisjoint`. Inductive together with the
  types, because each method that writes one table clears or checks the other.
* `CompletionPermanent`: the action property `CompletedStaysDone`, from the types
  alone: every place that queues a row asks the urls table, crash recovery
  included, for a redirect may have completed a URL that is in flight.
* `ImplementsLedger`: `Spec => LedgerSpec`, the refinement of `UrlLedger` under
  `LedgerStatus`; each method is an admission, a completion, a giving up, a
  forgetting, a fresh start, or a stutter.

Of the engine, from the assumptions of `CrawlState` and
`EngineAssumption`, for any number of workers, sessions and faults. The
invariant is `IInv`: the types of the tables, that a worker has a job exactly
while it is in its chain and that its depth is one the store knows, and what the
session's position implies for them.

* `EngineTypeCorrect`: `EngineSpec => []EngineTypeOK`.
* `EngineUsesStore`: `EngineSpec => StoreSpec`, every engine step is a step of
  `CrawlState` or leaves the tables alone.
* `EngineKeepsLedger`: hence the ledger, `CompletedStaysDone` and
  `QueueInFlightDisjoint` hold of every crawl, across crashes, restarts and
  changes of limits.

And of who holds which URL. Neither property is inductive: a URL in
a worker's hands stays its own because no pop, link or reclaim can hand it out,
and that is so because it is in flight or completed and not queued.

* `SingleOwner` and `NoUrlStranded`, `EngineSpec /\ MaxFaults = 0 => []OneOwner`
  and `[]NoneStranded`, from `OwnInv`: every URL held is kept and held once
  (`Apart`), every URL in flight is held (`Held`), links are followed only of
  completed pages, and nobody is cancelled before the shutdown. The condition is
  needed: with one fault the first fails, see section 6.
* `ClosedSessionClean`: `EngineSpec => []ClosedClean` with any faults, from
  `CleanInv`.

Of the counts:

* `CountsMatchTables`: `TallySpec => []TalliesMatch`, for any URLs. The invariant
  adds that the tables are finite, that no page is counted more often than it was
  fetched, and what the meta table holds between sessions.

`PluginProofs`, what surrounds the plugins. Of their processes, from
`PluginAssumption`, for any plugins and tasks, any
process limit and any number of restarts and mishaps. The invariant is
`PluginInv`: whoever is past the lock holds it or is creating the plugin
(`Placed`), so nobody else is at work on it (`Alone`); the slot is free when it
is asked for (`Slotted`), and the pipes hold at most the one message whose call
is under way (`OneMessage`).

* `PluginTypesHold`, `PluginTypeOK`; its bound on the count of crashes needs
  that whoever may still count one has found lives left (`LivesLeft`).
* `SlotsAlwaysHeld`, `FailedCreateClean` and `OwnReplies`: `SlotsHeld`,
  `NothingLeft` and `OwnReply` of run `tasks`.

Of the state file, from `StateAssumption`, for any processes, changes and mishaps:

* `ChangesAreSeen`: `StateSpec => []ReturnedIsSeen`, the first conjunct of
  `PluginsSound`. It needs that whoever has the file lock and has read writes what
  is in the file and its own change (`WriterKnows`), unless someone without the
  lock, or the damage of both files, has come in between.

Of discovery, from `DiscoveryAssumption`, for any finite set of packages, whatever
they need, and any policy:

* `LoadedIsSound`: `DiscoverySpec => []LoadingSound`, from `LoadInv`. What is on no
  cycle is reached level by level (`ReachedByLevel`), so among the packages that are
  left one needs none of the others (`OneIsFirst`), and none needs itself through
  any chain (`NotBelowItself`). Below a package is what is in every set that has its
  needs and is closed under them (`BelowIsWithin`): at the end the loaded packages
  are such a set, and so are those of them with no more power than it has, as each
  was closed after what it needs (`OrderInv`, `PowerInv`). The second judgement
  loads nobody new (`GainedIsLoaded`).

Of the check of a signature, from `SignatureAssumption`, for any wheels, signatures
and changes:

* `AnswersAttested`: `SignedSpec => []SignatureSound`, from `SignedInv`: a check
  under way holds the hash it began with, and as long as nothing changed and
  nothing failed (`calm`) the wheel and the signature it looks at are those that
  are there (`CheckKnows`).

Of the child process, for any number of messages, written at any time:

* `ChildInOrder`: `HostSpec => []HostSound`, from `HostInv`: what may come next in a
  plugin's life keeps it in order (`LifeGoesOn`), as `setup_done` stands for a
  setup that succeeded and an instance for one that was made (`LifeInv`); what was
  written is read, lost or waiting, at most one line with a patient parent
  (`PipeInv`).

* `WayIsSound`: all four, so `PluginsSound`.

Of the registry, from `RegistryAssumption`, for any capabilities, plugins and
constraints:

* `TablesTellOneStory`: `RegistrySpec => []TablesAgree`; inductive but for the
  owners. What is registered and what is left after an unregistration is computed
  by recursive functions (`Accepted`, `Dropping`), whose values are found by
  `Iterated` of `ProofBasics` (below).
* `ChainsInOrder`: `RegistrySpec => []ChainRespectsConstraints`. `NextGiven`: the
  queue of the sort never has a member twice, and has before each member all that
  must go first. `QueueRunsDry`: it stops when no member is ready. `BehindCycle`:
  a member that never gets ready is behind a cycle, for otherwise the one of them
  with the fewest before it would have before it another with fewer.
* `RegistryStaysSound`: both, which are `RegistrySound`.

`FetchProofs`, how pages are fetched and found. Of the two ways a page is
fetched, for any number of retries and, from `PlainAssumption`, any set of
proxies:

* `SlotKeepsPath`: `FetchSpec => []PathKept`, from `PathInv`: in the retry loop the
  flag is the path of the slot's context (`FlagFollows`), a rotation presumes a
  proxy (`RotatesProxy`), and a slot off the main path is going to be led back,
  could not be, or the pool is shut (`OwedBack`), where `scoped_path` is entered
  once at a time and never for the main path (`ScopeKnown`).
* `NeitherPathSkipped`: `PlainSpec => []BothPathsTried`, from `SwitchInv`: before the
  switch the preferred path is in use (`Preferred`), after it the request to come
  is over the path that is missing (`SwitchCompletes`), and another proxy is
  turned to only after a request over one (`TurnsAfterRequest`). The promise of
  the pool that corresponds to it is false: see `fallback`.

Of the breaker of a proxy, from `BreakerAssumption`: any threshold, weights, and
any cooldown of more than one round. The invariant says how the count of the probe
loop, the streak and the time left belong together: the count that an earlier
opening left behind is used up before the cooldown ends.

* `BreakerAlwaysSound`: `BreakerSpec => []BreakerSound`, by way of a theorem for each
  of `ClosedHasRoom`, `ProbedTwice` and `RecoversSoon`.

Of sitemaps, from `SitemapAssumption`, for any origins and sitemaps, whatever
refers to what, and any limits:

* `DiscoveryCounts`: `SitemapSpec => []DiscoverySound`, from `SitemapInv`: a sitemap
  has one reader, the first that met it (`ReadersKnow`), so readers that hand out
  URLs are no more than the lists of URLs that were met, and each of them takes
  the count past the cap by one URL at most.

Of robots.txt, from `RobotsAssumption` and `RulesAssumption`, for any origins,
callers, limits and agents, and lines in any order:

* `OneFetchForAll`: `RobotsSpec => []FetchSharedByAll`, inductive with the types: an
  origin that is being fetched is one with a live task, so the permits that are
  out are as many as these origins.
* `VerdictIsRFC`: `RulesSpec => []VerdictOfRFC`. The invariant `RulesInv` says of each
  agent that the tables of the parser have the rules that stand under it in the
  file so far (`Under`), where a rule stands under the last agent line before it
  (`OneHead`); `VerdictFollows` then compares the code's choice by length, the
  disallowing rule giving way where both are as long, with the choice of the RFC.
* `RobotsAnswer`: both together are `RobotsSound`.

`SessionProofs`, what surrounds the pages of a crawl.

* `OutputInvariant` and `ContentKeptOnce`, `OutputSpec => []OutputInv` and
  `[]OutputKept`, from `OutputAssumption`, for any pages, workers and sizes of the
  buffer, over failed writes, crashes and resumption. `RecordOnce` is not
  inductive: it has to be known that a text in the hands of a worker, in the
  buffer, in a batch or in the file is nowhere else (`OnePlace`, `HandAlone`),
  that only hashed texts are anywhere (`HashKnows`), and that the lock keeps
  whoever waits for a write with the batch it waits for (`Waited`, `ClosesLast`).
* `FuseHoldsBound`: `WatchSpec => []FuseBound`. The fuse counts the deaths it has
  not dropped; deaths are in order of age (`InOrder`), hence those that are
  dropped are the oldest, and none of them is within the window.
* `EveryRunClosesUp`: `RunSpec => []RunClosesUp`, however the crawl ends,
  unless it is cancelled (section 6), and whatever fails in opening and closing. What is open is on the stack or its callback has failed (`OnStack`),
  and the database lies below the callbacks that write to it.

Of the two semaphores of a fetch. Of a domain, from `ThrottleAssumption`, for any
number of workers:

* `PermitsAlwaysSafe`: `ThrottleSpec => []PermitsSafe`, whose two conjuncts are
  inductive together. Each step moves one visitor, hence changes the
  number of holders by at most one, and `Cleanup` drops a state only when no
  permit is out. The bound one would want, `PermitsRespected`, is false
  (section 6).

And of the browser pool, from `PoolAssumption`, for any requests, permits and
slots. The invariant is `PoolInv`: what the sender of a request waits for by the place
the request is in (`Waiting`), which tasks each stage of the shutdown knows of
(`Covered`), and the two balances (`Counts`). One request moves at a time, so the
sets that are counted change by at most that request (`CountRequest`).

* `PoolTypesHold`, `CapacityStays`, `SendersServed`, `BrowsersOutliveTasks`: the
  types, `CapacityKept`, `SenderServed` and `NothingRunsOn` of run `parts`.

`RuleProofs`, the rules and the two windows about them. Of the rules of a crawl, from
`BookAssumption` (finitely many files and patterns, lengths and orders that are
numbers, names that differ in their order; nothing about which files there are):

* `PagesGetTheirRule`: `BookSpec => []RulesAnswer`, over any changes of files and
  switches, any reloads and any limits. The answer to a page depends on who asked
  before, as the cache goes by host; the invariant `BookInv` says that what the
  cache holds was right for some page of its host and is a rule without a pattern
  (`MemoryRight`). `WinnerIsBest`: the first of the sorted candidates is one that no
  other outranks, which rests on `SortsByFirst` and `SomeFirst`, that keys of five
  numbers are compared by the first difference and that finitely many have a first.
  `AnswerFits` joins both. That the rules of a crawl have different names is
  `SnapshotNames`, and that they are not in conflict is what a load refuses.

Of the extraction of fields, from `ExtractionAssumption`, for any pages, fields and
depth of fallbacks:

* `FieldsAreFound`: `ExtractionSpec => []ExtractionSound`, from `ExtractionInv`: a
  thread at work has passed over no selector that finds a value, in the field it
  is at and in those before it (`JobFits`); what waits in the queue is awaited.

Of a rule made by a model, from `MakingAssumption`, for any answers and attempts:

* `MadeRulesWork`: `MakingSpec => []MakingSound`, from `MakingInv`: feedback and chats
  count the attempts, and a chat after a cancellation is one that was under way.
  `GoodFinds` takes what a judge accepts to the extraction that will use it.
* `RulesAreSound`: the three together, which are `RulesSound`.

Of the preview, from `PreviewAssumption`, for any pages, panels and calls:

* `PreviewShowsPages`: `PreviewSpec => []PreviewSound`, from `PreviewInv`: a
  page that is being opened is known to its call alone, and one that is being closed
  with nobody waiting has lost its row (`PagesHaveOneEnd`); page numbers are given
  once (`NumbersGiven`); at most one call is waited for, the one the panel waits
  for (`OneIsWaited`), whose loop has run (`WaitsForLoop`).

Of the dialog of rules, from `DeskAssumption`, for any rules, names and directories:

* `DeskKeepsRules`: `DeskSpec => []DeskSound`, from `DeskInv`: no sheet edits a file of
  the package or of a source (`PaperIsMine`), and who is about to write the
  switches holds the lock and has read what the file says (`LockReads`).
* `WindowsShowWhatIs`: both, which are `WindowsSound`.

`WindowProofs`, the windows.

* `WindowFollowsCrawl`: `GuiSpec => []GuiKnows`, for any number of crawls, pauses
  and stops, from `GuiInv`: signals come in the order in which the thread is
  through with its crawl (`SignalsTrue`), the last one on its way tells whether
  the crawl is held (`LastTells`), and only a window without a session offers to
  start one (`RunOffers`).
* `DialogLeavesNothing`: `DialogsSpec => []DialogSound`, for any pages, workers and
  openings, from `DialogInv`: a worker at work is known to its page or was
  forgotten for another (`KnownAtWork`), each posts once (`PostedOnce`), and the
  pulse stands for the workers not heard of yet (`PulseBound`).
  `WorkersAssumption` says that a page that shares the permit is one that hears
  an answer, which is so of the one page that does.
* `SourcesKeepWrites`: `SourcesSpec => []SourcesKept`, for any managers and
  sources. What a writer has read of the list is the list as long as it holds the
  lock (`CopyIsList`); an update that is alone is the only one of its source
  (`AloneIs`); between its two writes the list has the hash it noted, and at any
  other time that of the rule in the cache (`HashSteps`).
* `LayersStay`: `SettingsSpec => []LayersSound`, from `SettingsAssumption`: any files
  that can be read, environments and command lines, of which any may be invalid, and
  any profiles. The invariant adds what widgets, drafts and saved files can hold
  (`WindowHolds`) and that what the command line goes on with could be read and is
  valid (`ShellHolds`); `ProxyForKeeps` says what the list of modes does to the
  configuration, `UppermostIs` which layer is heard. A file may name a mode that is
  not on the list, which stays as it is then: `LoadGivesBack` speaks of the others.

`ProfileProofs`, the preferences and the AI client. Of the preferences, from
`ProfilesAssumption`, for any profiles, endpoints, routes, directories, edits and
commands:

* `SettingsStaySound`: `PrefsSpec => []SettingsSound`, from `PrefsInv`: the file, the
  copy in memory and that of a command are each of one piece with ids that were
  given out before (`WholeCopy`), hence whichever write fails, what is left is one
  of them; and what a page shows or edits are such profiles (`PageWhole`). What a
  removal leaves of a list is a pick of it, each member once (`KeptIs`), by
  induction over the values of the recursive function `Kept`.

Of the calls of models, from `CallsAssumption`, for any threads, tasks, permits, size
and pace of the bucket, and any cancellations:

* `CallsStayBounded`: `CallsSpec => []CallsBounded`. That permits add up is inductive
  with the types. The bound on a minute is not: it takes that for each tick of the
  last minute, what was sent since then and what can still be sent until its minute
  is over is below the bound (`RateBounded`). What can still come (`ToCome`) is, for
  each permit, one request in each token's time, one more for who sleeps less
  than what is left over, and what the bucket pays for; and who sleeps found the
  bucket empty, so that what has grown since is less than what it slept
  (`SleepersWait`).

Of streams, from `StreamsAssumption`, for any streams, any speeches and each kind of
service:

* `StreamsTellCalls`: `StreamsSpec => []StreamsSound`, from `StreamsInv`: of a stream
  alone with OpenAI's client the table has just the calls begun, in their order and
  with the pieces that came (`OpenaiAlone`); with Anthropic's the entry of the call
  that is coming, whatever a broken stream left at other indexes (`AnthropicAlone`);
  Google's streams hold their text themselves (`TextsTold`). Whatever is in the
  table is a broken stream's, or one's that has not come to its end (`TableHeld`).
* `ProfilesAndCallsSound`: the three together, which are `ProfilesAndCalls`.

`ProofBasics` is what these proofs share. The induction theorems of the library take
an operator, which the provers cannot instantiate; it says them of sets of natural
numbers (`ByStep`, `UpTo`), from the well-foundedness of `<`. The values of a
recursive function on `0 .. n` are those of the function that `Iterated` says
exists, one step on values after the other, so that what it computes can be shown
by `UpTo`.

Model-checked only: `AdmissionSound`, as the scan of imports is a recursion through
its own cache, which has no proof without induction over data; the
conjuncts of `PartsTypeOK` and `TasksTypeOK`, of which the invariants above have
what they need; and all liveness, which is beyond this prover.

## 8. What is not modelled

Contents: parsing of HTML and XML, CSS selectors, hashes, the wording of records
and reports, wildcards in a path pattern, transforms of a value, the text of
prompts; the models choose freely whatever these could decide, or take them as
constants.

* Crawl engine: a session over a database with rows resumes it. The
  `resume_if_exists=False` that resets it (`engine.py:1432-1437`) is in
  `CrawlTally`, not in `CrawlEngine`. A worker that leaves a pause takes a URL;
  the wait while all proxies are open (`engine.py:936-947`) is left out.
* Crawl database: statements outside the write lock, which join whatever
  transaction another coroutine has open (`save_boundary_links`); methods that
  only display; rows with an empty domain and the `visited` table of old files.
* Browser pool: the back-off of restarts and what a page does. Navigation
  strategies and the memory of domains choose among the outcomes that
  `PageFetch` takes as arbitrary.
* Proxies: scores, the choice among them, and the session with its recovery
  event.
* Throttling: the deprecated blocking `acquire` and the overflow of the table of
  domains.
* Output: the second sink for extracted items. The write and the flush of
  `writer.py:68-69` are one step, which fails or not.
* Plugins: the choice between a child and the in-process sandbox, what its
  layers forbid, `aclose_all`, the schema of a manifest, cryptography. Calls of
  builtins and of `os`, and the second dimension of the scanner. What `PluginHost`
  loses behind a newline are whole messages, where the host may lose a part of one
  (`_host.py:56-64`). A verifier that another package registers under the name of
  a built-in one, and so replaces it (`_signature.py:836-856`).
* Rules: `RuleSources` and `RuleBook` suppose that the lock of the file is got;
  where there is no `flock`, or it fails, the code goes on without
  (`rules/_source.py:47-58`, `rules/_state.py:32-43`), and edits may be lost. An
  answer of the model passes untested when the parser of the page raises
  (`rules/_ai.py:281-285`); `RuleMaking` leaves it out.
* AI: embeddings and the registry of providers.
* Window and command line: layout, themes, translations, progress bars, listings.
* Diagnostics and the health endpoint read state and write dumps; their repairs
  are steps the models of the repaired parts take at any time.
* HTML and URL utilities and the rest of the base library are pure functions;
  the placeholder packages hold a version number each; the scripts are lint
  tools.

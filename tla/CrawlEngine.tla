----------------------------- MODULE CrawlEngine -----------------------------
(***************************************************************************)
(* One database over several sessions of AsyncCrawler.run: the start-up    *)
(* of crawler/engine.py (recover, heal, promote, seed), the worker pool    *)
(* and its processor chain, the main loop that decides when a crawl is     *)
(* over, the shutdown sequence, and a crash of the process at any point.   *)
(*                                                                         *)
(* A step runs from one await on the database, the network or an event to  *)
(* the next.  Page contents are the subject of PageOutput and domain       *)
(* permits of DomainThrottle: what they decide here is a free choice.      *)
(* Time is left out: a timer may expire whenever it is armed.              *)
(***************************************************************************)
EXTENDS CrawlState

CONSTANTS
  Worker,       \* worker indices
  Seeds,        \* start_urls
  SitemapUrls,  \* URLs the sitemaps list
  Links,        \* the links each page holds
  Redirects,    \* the URLs a fetch of each URL may end at
  DepthLimit,   \* the depths a session may be started with
  MaxSessions,  \* bound: sessions run over one database
  MaxFaults     \* bound: infrastructure errors, exceptions and timeouts

Disposition == {"completed", "requeued", "failed"}
Job == [url : Url, depth : Depth, page : Url, links : SUBSET Url, disp : Disposition]

ASSUME EngineAssumption ==
  /\ Seeds \subseteq Url /\ SitemapUrls \subseteq Url
  /\ Links \in [Url -> SUBSET Url]
  /\ Redirects \in [Url -> SUBSET Url]
  /\ DepthLimit \subseteq Nat \ {0}
  /\ \A limit \in DepthLimit : 0 .. limit \subseteq Depth
  /\ MaxSessions \in Nat /\ MaxFaults \in Nat
  /\ None \notin Job

VARIABLES
  main,       \* where run() and _run_worker_loop are
  depthLimit, \* self.depth
  stop,       \* _stop_event
  paused,     \* ~ _pause_event
  todo,       \* links the start-up still has to enqueue
  sitemap,    \* URLs sitemap discovery still has to report
  pc,         \* where each worker is
  job,        \* the ProcessingContext of each worker
  cancelled,  \* workers with a task.cancel() on its way
  sessions,   \* sessions started so far
  faults      \* faults that may still happen

engine == <<main, depthLimit, stop, paused, todo, sitemap, pc, job, cancelled, sessions, faults>>
vars == <<db, engine>>

Looping == {"run", "again", "confirm", "flight", "retry"}
Stopping == {"drain", "join"}
Starting == {"opened", "purged", "heal", "promote", "seed"}
Ended == {"closed", "crashed"}

\* A worker between the pop and the return of the processor chain.
Chain == {"acquire", "robots", "rate", "fetch", "finalize", "links", "return"}
PC == {"off", "idle", "waiting", "popping", "settle", "done"} \cup Chain

Link == [url : Url, depth : Depth]

EngineTypeOK ==
  /\ TypeOK
  /\ main \in Looping \cup Stopping \cup Starting \cup Ended
  /\ depthLimit \in DepthLimit
  /\ stop \in BOOLEAN /\ paused \in BOOLEAN
  /\ todo \subseteq Link
  /\ sitemap \subseteq SitemapUrls
  /\ pc \in [Worker -> PC]
  /\ job \in [Worker -> Job \cup {None}]
  /\ cancelled \subseteq Worker
  /\ sessions \in 0 .. MaxSessions
  /\ faults \in 0 .. MaxFaults

\* A worker acts only while no cancellation is on its way: task.cancel()
\* makes the await it is suspended in raise, whatever the awaited call did.
At(i, where) == pc[i] = where /\ i \notin cancelled
Goto(i, where) == pc' = [pc EXCEPT ![i] = where]
Free(i, where) == /\ pc' = [pc EXCEPT ![i] = where]
                  /\ job' = [job EXCEPT ![i] = None]
End(i, disp, where) == /\ pc' = [pc EXCEPT ![i] = where]
                       /\ job' = [job EXCEPT ![i].disp = disp]

Fault == faults > 0 /\ faults' = faults - 1
NoFault == UNCHANGED faults

session == <<main, depthLimit, stop, paused, todo, sitemap, sessions>>
workers == <<pc, job, cancelled>>
control == <<session, cancelled>>

-----------------------------------------------------------------------------
(* UrlGate.admit                                                             *)

\* QUEUE_FULL and DUPLICATE are counted and otherwise forgotten.
Admit(parent, u, d) ==
  IF d >= depthLimit THEN SaveBoundaryLink(parent, u, d - 1)
  ELSE PushToQueueSingle(u, d) \/ (~CanPushSingle(u) /\ UNCHANGED db)

-----------------------------------------------------------------------------
(* The worker and its processor chain                                        *)

\* while not stop_event.is_set(): await pause_event.wait()
EnterLoop(i) ==
  /\ At(i, "idle") /\ ~stop
  /\ Goto(i, "waiting")
  /\ UNCHANGED <<db, job, control>> /\ NoFault

\* request_stop also sets _pause_event, so the loop may still pop once.
LeavePause(i) ==
  /\ At(i, "waiting") /\ ~paused
  /\ Goto(i, "popping")
  /\ UNCHANGED <<db, job, control>> /\ NoFault

\* Mutant: the depth is read back from the row that was just deleted.
MutNewJob(u) == [url |-> u, depth |-> queue'[u], page |-> u, links |-> {}, disp |-> "completed"]

NewJob(u) == [url |-> u, depth |-> queue[u], page |-> u, links |-> {}, disp |-> "completed"]

Pop(i) ==
  /\ At(i, "popping")
  /\ \E u \in Url :
       /\ PopFromDomain(u)
       /\ job' = [job EXCEPT ![i] = NewJob(u)]
  /\ Goto(i, "acquire")
  /\ UNCHANGED control /\ NoFault

\* No domain has a row: wait_for_queue, then once round the loop.
PopNothing(i) ==
  /\ At(i, "popping") /\ Queued = {}
  /\ Goto(i, "idle")
  /\ UNCHANGED <<db, job, control>> /\ NoFault

\* _free_requeue_or_fail
FreeRequeueOrFail(i) ==
  \/ PushToQueueAsOwner(job[i].url, job[i].depth) /\ End(i, "requeued", "return")
  \/ ~CanPushAsOwner(job[i].url) /\ UNCHANGED db /\ End(i, "failed", "return")

\* _scheduled_requeue_or_fail
ScheduledRequeueOrFail(i, where) ==
  \/ TryScheduleRetry(job[i].url, job[i].depth) /\ End(i, "requeued", where)
  \/ ~CanScheduleRetry(job[i].url) /\ UNCHANGED db /\ End(i, "failed", where)

\* Another worker has a permit for the domain.  A chain that has returned gives
\* its permit back before anything can be popped.
DomainBusy(i) ==
  \E j \in Worker \ {i} :
    pc[j] \in Chain \ {"acquire", "return"} /\ DomainOf[job[j].url] = DomainOf[job[i].url]

Acquire(i) ==
  /\ At(i, "acquire") /\ ~stop
  /\ Goto(i, "robots")
  /\ UNCHANGED <<db, job, control>> /\ NoFault

AcquireRefused(i) ==
  /\ At(i, "acquire")
  /\ stop \/ DomainBusy(i)
  /\ FreeRequeueOrFail(i)
  /\ UNCHANGED control /\ NoFault

RobotsAllow(i) ==
  /\ At(i, "robots")
  /\ Goto(i, "rate")
  /\ UNCHANGED <<db, job, control>> /\ NoFault

RobotsDeny(i) ==
  /\ At(i, "robots")
  /\ MarkCompleted(job[i].url, job[i].url)
  /\ End(i, "completed", "return")
  /\ UNCHANGED control /\ NoFault

RateGrant(i) ==
  /\ At(i, "rate") /\ ~stop
  /\ Goto(i, "fetch")
  /\ UNCHANGED <<db, job, control>> /\ NoFault

RateStopped(i) ==
  /\ At(i, "rate") /\ stop
  /\ FreeRequeueOrFail(i)
  /\ UNCHANGED control /\ NoFault

\* Fetched, parsed, and de-duplicated.  A duplicate or noindex page may have
\* its links skipped; a page may be parsed to fewer links than it holds.
Fetched(i) ==
  /\ At(i, "fetch")
  /\ \E page \in Redirects[job[i].url] : \E links \in {Links[page], {}} :
       job' = [job EXCEPT ![i].page = page, ![i].links = links]
  /\ Goto(i, "finalize")
  /\ UNCHANGED <<db, control>> /\ NoFault

FetchInfraError(i) ==
  /\ At(i, "fetch")
  /\ FreeRequeueOrFail(i)
  /\ UNCHANGED control /\ Fault

\* Charged to the URL: max_requeue bounds how often.
FetchError(i) ==
  /\ At(i, "fetch")
  /\ ScheduledRequeueOrFail(i, "return")
  /\ UNCHANGED control /\ NoFault

\* The force_fail guard: a stopped crawl may have failed the URL meanwhile.
ForceFailed(i) == stop /\ job[i].url \notin InFlight

Finalize(i) ==
  /\ At(i, "finalize") /\ ~ForceFailed(i)
  /\ MarkCompleted(job[i].url, job[i].page)
  /\ End(i, "completed", "links")
  /\ UNCHANGED control /\ NoFault

FinalizeTooLate(i) ==
  /\ At(i, "finalize") /\ ForceFailed(i)
  /\ End(i, "failed", "return")
  /\ UNCHANGED <<db, control>> /\ NoFault

EnqueueLink(i) ==
  /\ At(i, "links") /\ ~stop
  /\ \E u \in job[i].links :
       /\ Admit(job[i].url, u, job[i].depth + 1)
       /\ job' = [job EXCEPT ![i].links = @ \ {u}]
  /\ UNCHANGED <<pc, control>> /\ NoFault

LinksDone(i) ==
  /\ At(i, "links")
  /\ stop \/ job[i].links = {}
  /\ Goto(i, "return")
  /\ UNCHANGED <<db, job, control>> /\ NoFault

ChainReturns(i) ==
  /\ At(i, "return")
  /\ Goto(i, "settle")
  /\ UNCHANGED <<db, job, control>> /\ NoFault

\* Mutant: a failed URL is not logged.
MutSettle(i) ==
  /\ At(i, "settle")
  /\ Free(i, "idle")
  /\ UNCHANGED <<db, control>> /\ NoFault

\* _settle_url: only a failed URL still has something to settle.
Settle(i) ==
  /\ At(i, "settle")
  /\ IF job[i].disp = "failed" THEN LogFailure(job[i].url, job[i].depth) ELSE UNCHANGED db
  /\ Free(i, "idle")
  /\ UNCHANGED control /\ NoFault

ExitLoop(i) ==
  /\ At(i, "idle") /\ stop
  /\ Goto(i, "done")
  /\ UNCHANGED <<db, job, control>> /\ NoFault

-----------------------------------------------------------------------------
(* What can go wrong in a worker                                             *)

\* Pipeline.process catches the exception of any processor.
ProcessorError(i) ==
  /\ pc[i] \in Chain \ {"return"} /\ i \notin cancelled
  /\ ScheduledRequeueOrFail(i, "return")
  /\ UNCHANGED control /\ Fault

\* PROCESS_URL_TIMEOUT cancels the chain, also when the statement it awaits
\* has committed.  _fetch_url takes the cancellation for a shutdown.
ChainTimeout(i) ==
  /\ pc[i] \in Chain /\ i \notin cancelled
  /\ IF pc[i] = "fetch" THEN FreeRequeueOrFail(i) ELSE ScheduledRequeueOrFail(i, "settle")
  /\ UNCHANGED control /\ Fault

\* A database error while settling is only logged, and a worker that dies of
\* one while it handles another error is replaced under the same index.
DatabaseError(i) ==
  /\ pc[i] \in Chain \cup {"settle"} /\ i \notin cancelled
  /\ Free(i, "idle")
  /\ UNCHANGED <<db, control>> /\ Fault

HandleCancel(i) ==
  \/ /\ pc[i] \in {"idle", "waiting", "popping", "settle"}
     /\ Free(i, "done") /\ UNCHANGED db
  \/ /\ pc[i] = "popping"                    \* the pop has committed
     /\ \E u \in Url : PopFromDomain(u)
     /\ Free(i, "done")
  \/ /\ pc[i] = "fetch"
     /\ FreeRequeueOrFail(i)
  \/ /\ pc[i] \in Chain \ {"fetch"}          \* _requeue_owned_url
     /\ \/ PushToQueueAsOwner(job[i].url, job[i].depth)
        \/ ~CanPushAsOwner(job[i].url) /\ UNCHANGED db
     /\ Free(i, "done")

Cancelled(i) ==
  /\ i \in cancelled
  /\ HandleCancel(i)
  /\ cancelled' = cancelled \ {i}
  /\ UNCHANGED session /\ NoFault

-----------------------------------------------------------------------------
(* The main loop of _run_worker_loop                                         *)

MainAt(where) == main = where
MainGoto(where) == /\ main' = where
                   /\ UNCHANGED <<depthLimit, paused, todo, sitemap, sessions, faults>>

\* Three reads of the queue, one of in_flight, one of failures: the crawl is
\* over when each of them in turn finds nothing.
ReadQueue ==
  /\ \/ main = "run" /\ ~stop /\ MainGoto(IF Queued = {} THEN "again" ELSE "run")
     \/ main = "again" /\ MainGoto(IF Queued = {} THEN "confirm" ELSE "run")
     \/ main = "confirm" /\ MainGoto(IF Queued = {} THEN "flight" ELSE "run")
  /\ UNCHANGED <<db, stop, workers>>

ReadInFlight ==
  /\ main = "flight"
  /\ MainGoto(IF InFlight = {} THEN "retry" ELSE "run")
  /\ UNCHANGED <<db, stop, workers>>

NaturalEnd ==
  /\ main = "retry" /\ Retryable = {} /\ sitemap = {}
  /\ MainGoto("drain") /\ stop' = TRUE
  /\ UNCHANGED <<db, workers>>

NotYet ==
  /\ main = "retry" /\ ~(Retryable = {} /\ sitemap = {})
  /\ MainGoto("run")
  /\ UNCHANGED <<db, stop, workers>>

\* max_runtime_seconds, max_total_pages, all workers stale
Abandon ==
  /\ main = "run" /\ ~stop
  /\ MainGoto("drain") /\ stop' = TRUE
  /\ UNCHANGED <<db, workers>>

\* STUCK_IN_FLIGHT_TIMEOUT over an empty queue
StuckInFlight ==
  /\ main \in {"flight", "retry"} /\ ~paused
  /\ InFlight # {} \/ Retryable # {} \/ sitemap # {}
  /\ MainGoto("drain") /\ stop' = TRUE
  /\ UNCHANGED <<db, workers>>

SeeStop ==
  /\ main = "run" /\ stop
  /\ MainGoto("drain")
  /\ UNCHANGED <<db, stop, workers>>

Live == {i \in Worker : pc[i] # "done"}

\* Mutant: the drain has no deadline.
MutCancelWorkers ==
  /\ main = "drain" /\ InFlight = {}
  /\ MainGoto("join") /\ cancelled' = Live
  /\ UNCHANGED <<db, stop, pc, job>>

\* Nothing in flight, or IN_FLIGHT_DRAIN_TIMEOUT: cancel every worker.
CancelWorkers ==
  /\ main = "drain"
  /\ MainGoto("join") /\ cancelled' = Live
  /\ UNCHANGED <<db, stop, pc, job>>

\* The join waits for every task; after 60 s it cancels those left again.
JoinTimeout ==
  /\ main = "join" /\ cancelled = {} /\ Live # {}
  /\ cancelled' = Live
  /\ UNCHANGED <<db, session, pc, job, faults>>

\* Mutant: what is still in flight is left there.
MutClose ==
  /\ main = "join" /\ Live = {}
  /\ MainGoto("closed")
  /\ UNCHANGED <<db, stop, workers>>

Close ==
  /\ main = "join" /\ Live = {}
  /\ ForceFailAllInFlight
  /\ MainGoto("closed")
  /\ UNCHANGED <<stop, workers>>

-----------------------------------------------------------------------------
(* Starting a session                                                        *)

Up == main \notin Ended

Start ==
  /\ ~Up /\ sessions < MaxSessions
  /\ \E limit \in DepthLimit : depthLimit' = limit
  /\ \E limit \in RetryLimit : OpenAndRecover(limit)
  /\ main' = "opened" /\ sessions' = sessions + 1
  /\ stop' = FALSE /\ paused' = FALSE /\ todo' = {} /\ sitemap' = SitemapUrls
  /\ UNCHANGED <<workers, faults>>

SeedLinks == {[url |-> u, depth |-> 0] : u \in Seeds}

\* Mutant: resume_if_exists is not looked at.
MutStartFresh ==
  /\ main = "opened"
  /\ ResetAll
  /\ main' = "seed" /\ todo' = SeedLinks
  /\ UNCHANGED <<depthLimit, stop, paused, sitemap, sessions, workers, faults>>

\* No page was ever completed: a fresh crawl.
StartFresh ==
  /\ main = "opened" /\ completed = {}
  /\ ResetAll
  /\ main' = "seed" /\ todo' = SeedLinks
  /\ UNCHANGED <<depthLimit, stop, paused, sitemap, sessions, workers, faults>>

Resume ==
  /\ main = "opened" /\ completed # {}
  /\ PurgeFailuresDepthGe(depthLimit)
  /\ MainGoto("purged")
  /\ UNCHANGED <<stop, workers>>

\* The layers whose saved plan exceeds what was processed are not tracked:
\* any of them may have a gap.
Heal ==
  /\ main = "purged"
  /\ \E gaps \in SUBSET (1 .. depthLimit - 1) :
       todo' = UNION {{[url |-> u, depth |-> d] : u \in LostChildren(d - 1)} : d \in gaps}
  /\ main' = "heal"
  /\ UNCHANGED <<db, depthLimit, stop, paused, sitemap, sessions, workers, faults>>

\* MIN(parent_depth + 1) ... GROUP BY child_url
Promoted ==
  LET rows == Promotable(depthLimit) IN
  {[url |-> r.child, depth |-> r.depth + 1] :
     r \in {s \in rows : \A t \in rows : t.child = s.child => s.depth <= t.depth}}

Promote ==
  /\ main = "heal" /\ todo = {}
  /\ PromoteBoundaryLinks(depthLimit)
  /\ main' = "promote" /\ todo' = Promoted
  /\ UNCHANGED <<depthLimit, stop, paused, sitemap, sessions, workers, faults>>

Seed ==
  /\ main = "promote" /\ todo = {}
  /\ main' = "seed" /\ todo' = SeedLinks
  /\ UNCHANGED <<db, depthLimit, stop, paused, sitemap, sessions, workers, faults>>

\* One link of the list at hand; a stop request drops what is left of it.
EnqueueTodo ==
  /\ main \in {"heal", "promote", "seed"} /\ todo # {} /\ ~stop
  /\ \E l \in todo :
       /\ \A k \in todo : l.depth <= k.depth
       /\ Admit(None, l.url, l.depth)
       /\ todo' = todo \ {l}
  /\ UNCHANGED <<main, depthLimit, stop, paused, sitemap, sessions, workers, faults>>

DropTodo ==
  /\ main \in {"heal", "promote", "seed"} /\ todo # {} /\ stop
  /\ todo' = {}
  /\ UNCHANGED <<db, main, depthLimit, stop, paused, sitemap, sessions, workers, faults>>

StartWorkers ==
  /\ main = "seed" /\ todo = {}
  /\ MainGoto("run")
  /\ pc' = [i \in Worker |-> "idle"]
  /\ UNCHANGED <<db, stop, job, cancelled>>

-----------------------------------------------------------------------------
(* The user, the background tasks, and the end of the process                *)

RequestStop ==
  /\ Up /\ ~stop
  /\ stop' = TRUE /\ paused' = FALSE
  /\ UNCHANGED <<db, main, depthLimit, todo, sitemap, sessions, workers, faults>>

RequestPause ==
  /\ main \in Looping /\ ~paused
  /\ paused' = TRUE
  /\ UNCHANGED <<db, main, depthLimit, stop, todo, sitemap, sessions, workers, faults>>

RequestResume ==
  /\ main \in Looping /\ paused
  /\ paused' = FALSE
  /\ UNCHANGED <<db, main, depthLimit, stop, todo, sitemap, sessions, workers, faults>>

\* The retry monitor, one URL at a time.  It looks at _stop_event before each
\* transaction, which may then be a step late.
RetryMonitor ==
  /\ main \in Looping \cup {"drain"}
  /\ \E u \in Url : AtomicRetryReclaim(u)
  /\ UNCHANGED engine

\* Discovery reports a URL beneath the page its origin was met at, or beneath the seeds,
\* whether or not the crawl was stopped.
ReportSitemapUrl ==
  /\ main \in Looping \cup Stopping
  /\ \E u \in sitemap, d \in Depth : Admit(None, u, d + 1) /\ sitemap' = sitemap \ {u}
  /\ UNCHANGED <<main, depthLimit, stop, paused, todo, sessions, workers, faults>>

\* Whatever is not in the database is lost.
Crash ==
  /\ Up /\ sessions < MaxSessions
  /\ main' = "crashed"
  /\ pc' = [i \in Worker |-> "off"] /\ job' = [i \in Worker |-> None] /\ cancelled' = {}
  /\ stop' = FALSE /\ paused' = FALSE /\ todo' = {} /\ sitemap' = {}
  /\ UNCHANGED <<db, depthLimit, sessions, faults>>

-----------------------------------------------------------------------------
EngineInit ==
  /\ Init
  /\ main = "closed" /\ depthLimit \in DepthLimit
  /\ stop = FALSE /\ paused = FALSE
  /\ todo = {} /\ sitemap = {}
  /\ pc = [i \in Worker |-> "off"]
  /\ job = [i \in Worker |-> None]
  /\ cancelled = {}
  /\ sessions = 0 /\ faults = MaxFaults

ChainStep(i) ==
  \/ EnterLoop(i) \/ LeavePause(i) \/ Pop(i) \/ PopNothing(i)
  \/ Acquire(i) \/ AcquireRefused(i) \/ RobotsAllow(i) \/ RobotsDeny(i)
  \/ RateGrant(i) \/ RateStopped(i)
  \/ Fetched(i) \/ FetchInfraError(i) \/ FetchError(i)
  \/ Finalize(i) \/ FinalizeTooLate(i) \/ EnqueueLink(i) \/ LinksDone(i)
  \/ ChainReturns(i) \/ Settle(i) \/ ExitLoop(i)
  \/ Cancelled(i)

FaultStep(i) == ProcessorError(i) \/ ChainTimeout(i) \/ DatabaseError(i)

StartStep ==
  \/ StartFresh \/ Resume \/ Heal \/ Promote \/ Seed
  \/ EnqueueTodo \/ DropTodo \/ StartWorkers

LoopStep == ReadQueue \/ ReadInFlight \/ NaturalEnd \/ NotYet \/ SeeStop

ShutdownStep == CancelWorkers \/ JoinTimeout \/ Close

EngineNext ==
  \/ \E i \in Worker : ChainStep(i) \/ FaultStep(i)
  \/ Start \/ StartStep
  \/ LoopStep \/ Abandon \/ StuckInFlight \/ ShutdownStep
  \/ RequestStop \/ RequestPause \/ RequestResume
  \/ RetryMonitor \/ ReportSitemapUrl
  \/ Crash

EngineSpec == EngineInit /\ [][EngineNext]_vars

\* Every await of a worker or of run() returns: fetches, drains and joins are
\* under timeouts.  The user, faults and the stuck timer owe nothing.
Fairness ==
  /\ \A i \in Worker : WF_vars(ChainStep(i))
  /\ WF_vars(StartStep \/ LoopStep \/ ShutdownStep)
  /\ WF_vars(RetryMonitor)
  /\ WF_vars(ReportSitemapUrl)

FairEngineSpec == EngineSpec /\ Fairness

-----------------------------------------------------------------------------
\* Workers that hold a URL they have neither completed nor handed back
Owners == {i \in Worker : pc[i] \in {"acquire", "robots", "rate", "fetch", "finalize"}}

\* No URL is being fetched by two workers.
OneOwner ==
  main # "join" => \A i, j \in Owners : job[i].url = job[j].url => i = j

\* While the workers run undisturbed, every in-flight URL is in the hands of
\* some worker: none is stranded until the stuck timer gives the crawl up.
NoneStranded ==
  main \in Looping \cup {"drain"} =>
    \A u \in InFlight : \E i \in Worker : job[i] # None /\ job[i].url = u

\* A session that was shut down leaves nothing in flight and no worker alive.
ClosedClean ==
  main = "closed" => InFlight = {} /\ \A i \in Worker : job[i] = None

\* A stop request ends the session, wherever start-up, the workers and the
\* main loop are when it comes.
StopEnds == stop ~> ~Up

\* Left alone, a session that is not kept paused comes to its own end.
CrawlEnds == []<>paused \/ (Up ~> ~Up)

\* Whatever the sessions do to the store, they do by its methods, with depths
\* and in an order it allows: the engine keeps every promise of the ledger.
StoreSpec == Spec

\* No worker is given a URL at or beyond the depth limit of its session.
DepthRespected ==
  main \in Looping =>
    /\ \A u \in Queued : queue[u] < depthLimit
    /\ \A i \in Worker : job[i] # None => job[i].depth < depthLimit

=============================================================================

------------------------------ MODULE CrawlTally ------------------------------
(***************************************************************************)
(* What a crawl counts: CrawlStats of crawler/outcomes.py, the progress    *)
(* layers of crawler/engine.py, and what of both is kept in the meta table *)
(* for the next session.  The counts are made when a URL is settled, after *)
(* its transaction has committed, and are rebuilt from tables and meta     *)
(* when a session begins: the tables and the counts have to agree across   *)
(* redirects, retries, lost settlements, crashes and restarts.             *)
(*                                                                         *)
(* One layer is modelled; a page completed under another depth than it was *)
(* queued with leaves the plan of its layer unfulfilled, as here a page    *)
(* completed under an alias does.  Redirects stand for all the counts that *)
(* stats_snapshot keeps: fetch errors, drops, and those of the rules.      *)
(***************************************************************************)
EXTENDS CrawlState

CONSTANTS
  Layer,    \* the depth whose layer is counted
  Landing,  \* the pages a fetch of each URL may end at
  MaxRuns,  \* bound: sessions
  MaxPlan,  \* bound: URLs admitted to the layer, and failures taken up again
  MaxDone   \* bound: pages fetched

ASSUME TallyAssumption ==
  /\ Layer \in Depth /\ Landing \in [Url -> SUBSET Url]
  /\ MaxRuns \in Nat /\ MaxPlan \in Nat /\ MaxDone \in Nat

VARIABLES
  sessionIs, \* of the session: "off", "opened", "running", "closed" with its report
  inHands,   \* URLs in the hands of workers, not committed yet
  unsettled, \* completions committed and not counted
  stats,     \* CrawlStats: initial_completed, session_completed and redirects
  plan,      \* the progress layer: URLs planned
  proc,      \* and processed
  saved,     \* the meta table: redirects, plan and proc
  runs,
  again,     \* history of the session: pages completed that were complete
  revived,   \* history of the session: failures taken up again
  fetched,   \* history: pages fetched
  met,       \* history: redirects met
  calm       \* history: every session so far was closed and saved

tallies == <<sessionIs, inHands, unsettled, stats, plan, proc, saved, runs, again, revived, fetched, met, calm>>
tally == <<db, tallies>>

Nothing0 == [redirects |-> 0, plan |-> 0, proc |-> 0]

TallyTypeOK ==
  /\ sessionIs \in {"off", "opened", "running", "closed"} /\ inHands \subseteq Url
  /\ unsettled \in 0 .. MaxDone /\ plan \in Nat /\ proc \in Nat
  /\ stats \in [initial : Nat, session : 0 .. MaxDone, redirects : Nat]
  /\ saved \in [redirects : Nat, plan : Nat, proc : Nat]

Greater(m, n) == IF m > n THEN m ELSE n

\* The counts of a new CrawlStats, and of a session that has begun
CountsFrom(initial, redirects) ==
  /\ stats' = [initial |-> initial, session |-> 0, redirects |-> redirects]
  /\ inHands' = {} /\ unsettled' = 0 /\ again' = 0 /\ revived' = 0

-----------------------------------------------------------------------------
(* The beginning of run()                                                    *)

\* set_initial_completed, and restore_snapshot, which adds to what is there
OpenSession ==
  /\ sessionIs \in {"off", "closed"} /\ runs < MaxRuns
  /\ \E limit \in RetryLimit : OpenAndRecover(limit)
  /\ sessionIs' = "opened" /\ runs' = runs + 1
  /\ CountsFrom(Cardinality(completed), saved.redirects)
  /\ plan' = 0 /\ proc' = 0
  /\ UNCHANGED <<saved, fetched, met, calm>>

\* reset_all empties meta too; what restore_snapshot added is kept.
FreshStart ==
  /\ sessionIs = "opened"
  /\ ResetAll
  /\ sessionIs' = "running" /\ saved' = Nothing0
  /\ CountsFrom(0, stats.redirects)
  /\ UNCHANGED <<plan, proc, runs, fetched, met, calm>>

\* Failures that may be retried are not done.
DoneBefore == Cardinality(completed) + Cardinality(Failed \ Retryable)

\* Mutant: the plan is rebuilt without the URLs that wait in the queue.
MutTakeUp ==
  /\ sessionIs = "opened" /\ completed # {}
  /\ sessionIs' = "running"
  /\ proc' = Greater(saved.proc, DoneBefore)
  /\ plan' = Greater(saved.plan, Greater(saved.proc, DoneBefore))
  /\ UNCHANGED <<db, inHands, unsettled, stats, saved, runs, again, revived, fetched, met, calm>>

TakeUp ==
  /\ sessionIs = "opened" /\ completed # {}
  /\ sessionIs' = "running"
  /\ proc' = Greater(saved.proc, DoneBefore)
  /\ plan' = Greater(saved.plan, Greater(saved.proc, DoneBefore) + Cardinality(Queued))
  /\ UNCHANGED <<db, inHands, unsettled, stats, saved, runs, again, revived, fetched, met, calm>>

-----------------------------------------------------------------------------
(* The session                                                               *)

\* A seed, a link or a URL of a sitemap is queued: _increment_progress_plan.
Admitted(u) ==
  /\ sessionIs = "running" /\ plan < MaxPlan
  /\ PushToQueueSingle(u, Layer)
  /\ plan' = plan + 1
  /\ UNCHANGED <<sessionIs, inHands, unsettled, stats, proc, saved, runs, again, revived, fetched, met, calm>>

TakenUp(u) ==
  /\ sessionIs = "running"
  /\ PopFromDomain(u)
  /\ inHands' = inHands \cup {u}
  /\ UNCHANGED <<sessionIs, unsettled, stats, plan, proc, saved, runs, again, revived, fetched, met, calm>>

\* _finalize_processor: record_redirect, then the transaction
Committed(u) ==
  /\ u \in inHands /\ fetched < MaxDone
  /\ \E page \in Landing[u] :
       LET hop == IF page = u THEN 0 ELSE 1 IN
       /\ MarkCompleted(u, page)
       /\ stats' = [stats EXCEPT !.redirects = @ + hop] /\ met' = met + hop
       /\ again' = IF page \in completed THEN again + 1 ELSE again
  /\ inHands' = inHands \ {u} /\ unsettled' = unsettled + 1 /\ fetched' = fetched + 1
  /\ UNCHANGED <<sessionIs, plan, proc, saved, runs, revived, calm>>

\* _settle_url of a completed URL.  A worker cancelled before it never settles.
Counted ==
  /\ sessionIs = "running" /\ unsettled > 0
  /\ proc' = proc + 1 /\ unsettled' = unsettled - 1
  /\ stats' = [stats EXCEPT !.session = @ + 1]
  /\ UNCHANGED <<db, sessionIs, inHands, plan, saved, runs, again, revived, fetched, met, calm>>

\* A requeue, charged or free, is not counted.
PutBack(u) ==
  /\ u \in inHands
  /\ PushToQueueAsOwner(u, Layer) \/ TryScheduleRetry(u, Layer)
  /\ inHands' = inHands \ {u}
  /\ UNCHANGED <<sessionIs, unsettled, stats, plan, proc, saved, runs, again, revived, fetched, met, calm>>

\* _settle_url of a URL whose requeue was refused
GivenUp(u) ==
  /\ u \in inHands /\ ~(CanPushAsOwner(u) /\ CanScheduleRetry(u))
  /\ LogFailure(u, Layer)
  /\ inHands' = inHands \ {u} /\ proc' = proc + 1
  /\ UNCHANGED <<sessionIs, unsettled, stats, plan, saved, runs, again, revived, fetched, met, calm>>

\* A database error while a URL is settled, or a cancelled requeue: the row in
\* in_flight has no owner any more.
Dropped(u) ==
  /\ u \in inHands
  /\ inHands' = inHands \ {u}
  /\ UNCHANGED <<db, sessionIs, unsettled, stats, plan, proc, saved, runs, again, revived, fetched, met, calm>>

\* _check_retryable, which plans nothing
Revived(u) ==
  /\ sessionIs = "running" /\ revived < MaxPlan
  /\ AtomicRetryReclaim(u)
  /\ revived' = revived + 1
  /\ UNCHANGED <<sessionIs, inHands, unsettled, stats, plan, proc, saved, runs, again, fetched, met, calm>>

\* _resource_snapshot
StatsSaved ==
  /\ sessionIs = "running"
  /\ saved' = [saved EXCEPT !.redirects = stats.redirects]
  /\ UNCHANGED <<db, sessionIs, inHands, unsettled, stats, plan, proc, runs, again, revived, fetched, met, calm>>

-----------------------------------------------------------------------------
(* Its end                                                                   *)

\* The workers are gone, what is left in flight is failed, and the clean-up saves the
\* counts: both rows of meta, each unless the database fails.
EndSession ==
  /\ sessionIs = "running" /\ inHands = {}
  /\ ForceFailAllInFlight
  /\ sessionIs' = "closed"
  /\ \E snapshot, layers \in BOOLEAN :
       /\ saved' = [redirects |-> IF snapshot THEN stats.redirects ELSE saved.redirects,
                    plan |-> IF layers THEN plan ELSE saved.plan,
                    proc |-> IF layers THEN proc ELSE saved.proc]
       /\ calm' = (calm /\ snapshot)
  /\ UNCHANGED <<inHands, unsettled, stats, plan, proc, runs, again, revived, fetched, met>>

SessionKilled ==
  /\ sessionIs \in {"opened", "running"}
  /\ sessionIs' = "off" /\ calm' = FALSE
  /\ CountsFrom(0, 0) /\ plan' = 0 /\ proc' = 0
  /\ UNCHANGED <<db, saved, runs, fetched, met>>

TallyInit ==
  /\ Init
  /\ sessionIs = "off" /\ inHands = {} /\ unsettled = 0
  /\ stats = [initial |-> 0, session |-> 0, redirects |-> 0]
  /\ plan = 0 /\ proc = 0 /\ saved = Nothing0 /\ runs = 0
  /\ again = 0 /\ revived = 0 /\ fetched = 0 /\ met = 0 /\ calm = TRUE

TallyNext ==
  \/ OpenSession \/ FreshStart \/ TakeUp
  \/ \E u \in Url : Admitted(u) \/ TakenUp(u) \/ Committed(u) \/ PutBack(u) \/ GivenUp(u) \/ Dropped(u) \/ Revived(u)
  \/ Counted \/ StatsSaved \/ EndSession \/ SessionKilled

TallySpec == TallyInit /\ [][TallyNext]_tally

-----------------------------------------------------------------------------
\* What the report counts as completed is what the tables hold, but for pages fetched
\* twice in the session and for completions that were never settled.
CompletedCounted ==
  sessionIs \in {"running", "closed"} =>
    stats.initial + stats.session + unsettled = Cardinality(completed) + again

\* The plan covers what was processed and what is still to come, also after a crash
\* that lost the counts: a layer does not seem finished while it has URLs in the queue
\* or in a worker's hands, except for failures taken up again.
PlanCovers ==
  sessionIs = "running" => proc + Cardinality(Queued) + Cardinality(inHands) + unsettled <= plan + revived

\* No restart counts anything twice, and none forgets what was saved.
CumulativeCounts ==
  sessionIs \in {"running", "closed"} =>
    /\ stats.redirects <= met
    /\ calm => stats.redirects = met

\* The counts, the plan and what is carried over from session to session agree with the
\* tables they are reports of.
TalliesMatch == CompletedCounted /\ PlanCovers /\ CumulativeCounts
=============================================================================

------------------------------ MODULE CrawlState ------------------------------
(***************************************************************************)
(* The tables of storage/db.py that decide where a URL stands, and the     *)
(* methods of class CrawlState that change them.  Every method is one      *)
(* SQLite transaction under _write_lock and is one action here; what can   *)
(* happen inside a transaction is the subject of SharedConnection.         *)
(*                                                                         *)
(* Two pieces of data are abstracted.  The autoincrement id that orders    *)
(* queue rows of equal depth is a free choice, and the depth recorded with *)
(* a completed URL, which only feeds the progress display, is left out.    *)
(***************************************************************************)
EXTENDS Naturals, FiniteSets

CONSTANTS
  Url,        \* normalised URLs
  DomainOf,   \* the domain parse_domain gives each URL
  QueueMax,   \* cfg.queue_hard_maxsize
  Depth,      \* the link depths callers use
  RetryLimit, \* the values cfg.max_requeue may have in a session
  None        \* the absence of a row

ASSUME DepthAssumption == Depth \subseteq Nat
ASSUME RetryLimitAssumption == RetryLimit \subseteq Nat
ASSUME NoneAssumption == None \notin Nat /\ None \notin [depth : Nat, count : Nat] \cup Url

VARIABLES
  queue,      \* queue table: the depth of each queued URL, or None
  inFlight,   \* in_flight table: the depth of each popped URL, or None
  completed,  \* urls table: URLs whose status is 'completed'
  failures,   \* failures table: depth and requeue_count of a URL, or None
  boundary,   \* boundary_links table: links beyond the depth limit
  maxRequeue  \* cfg.max_requeue of the session that has the file open

db == <<queue, inFlight, completed, failures, boundary, maxRequeue>>

FailureRow == [depth : Depth, count : Nat]
BoundaryRow == [parent : Url \cup {None}, child : Url, depth : Depth]

TypeOK ==
  /\ queue \in [Url -> Depth \cup {None}]
  /\ inFlight \in [Url -> Depth \cup {None}]
  /\ completed \subseteq Url
  /\ failures \in [Url -> FailureRow \cup {None}]
  /\ boundary \subseteq BoundaryRow
  /\ maxRequeue \in Nat

Queued == {u \in Url : queue[u] # None}
InFlight == {u \in Url : inFlight[u] # None}
Failed == {u \in Url : failures[u] # None}
Retryable == {u \in Failed : failures[u].count < maxRequeue}
Known == completed \cup Queued \cup InFlight

QueueFull == Cardinality(Queued) >= QueueMax

-----------------------------------------------------------------------------
(* Queue operations.  A method that answers False or QUEUE_FULL rolls back;  *)
(* its Can... predicate is then false and its action is not taken.           *)

CanPushSingle(u) == ~QueueFull /\ u \notin Known

PushToQueueSingle(u, d) ==
  /\ CanPushSingle(u)
  /\ queue' = [queue EXCEPT ![u] = d]
  /\ inFlight' = [inFlight EXCEPT ![u] = None]
  /\ UNCHANGED <<completed, failures, boundary, maxRequeue>>

CanPushAsOwner(u) == ~QueueFull /\ u \notin completed \cup Queued

\* The free requeue: the owner of an in-flight URL puts it back uncharged.
PushToQueueAsOwner(u, d) ==
  /\ CanPushAsOwner(u)
  /\ queue' = [queue EXCEPT ![u] = d]
  /\ inFlight' = [inFlight EXCEPT ![u] = None]
  /\ UNCHANGED <<completed, failures, boundary, maxRequeue>>

\* Mutant: the row is taken and never registered as in flight.
MutPopFromDomain(u) ==
  /\ u \in Queued
  /\ queue' = [queue EXCEPT ![u] = None]
  /\ UNCHANGED <<inFlight, completed, failures, boundary, maxRequeue>>

\* Mutant: the row is registered and never taken.
MutPeekDomain(u) ==
  /\ u \in Queued
  /\ inFlight' = [inFlight EXCEPT ![u] = IF @ = None THEN queue[u] ELSE @]
  /\ UNCHANGED <<queue, completed, failures, boundary, maxRequeue>>

\* The shallowest row of the domain becomes an in-flight row.
PopFromDomain(u) ==
  /\ u \in Queued
  /\ \A v \in Queued : DomainOf[v] = DomainOf[u] => queue[u] <= queue[v]
  /\ queue' = [queue EXCEPT ![u] = None]
  /\ inFlight' = [inFlight EXCEPT ![u] = IF @ = None THEN queue[u] ELSE @]
  /\ UNCHANGED <<completed, failures, boundary, maxRequeue>>

-----------------------------------------------------------------------------
(* Completion and failure.                                                   *)

\* mark_completed(url = page, original_url = asked)
MarkCompleted(asked, page) ==
  /\ completed' = completed \cup {page}
  /\ failures' = [u \in Url |-> IF u \in {asked, page} THEN None ELSE failures[u]]
  /\ inFlight' = [u \in Url |-> IF u \in {asked, page} THEN None ELSE inFlight[u]]
  /\ UNCHANGED <<queue, boundary, maxRequeue>>

FailureOf(u, d) == IF u \in Failed THEN failures[u] ELSE [depth |-> d, count |-> 0]

CanScheduleRetry(u) ==
  /\ ~QueueFull
  /\ u \notin completed
  /\ (IF u \in Failed THEN failures[u].count ELSE 0) < maxRequeue

\* Mutant: the in_flight row is not deleted.
MutTryScheduleRetry(u, d) ==
  /\ CanScheduleRetry(u)
  /\ queue' = [queue EXCEPT ![u] = IF @ = None THEN d ELSE @]
  /\ failures' = [failures EXCEPT ![u] =
                    [depth |-> FailureOf(u, d).depth, count |-> FailureOf(u, d).count + 1]]
  /\ UNCHANGED <<inFlight, completed, boundary, maxRequeue>>

\* Mutant: the retry is not counted.
MutUncountedRetry(u, d) ==
  /\ CanScheduleRetry(u)
  /\ queue' = [queue EXCEPT ![u] = IF @ = None THEN d ELSE @]
  /\ inFlight' = [inFlight EXCEPT ![u] = None]
  /\ failures' = [failures EXCEPT ![u] = FailureOf(u, d)]
  /\ UNCHANGED <<completed, boundary, maxRequeue>>

\* The charged requeue: queue, in_flight and failures change together.
TryScheduleRetry(u, d) ==
  /\ CanScheduleRetry(u)
  /\ queue' = [queue EXCEPT ![u] = IF @ = None THEN d ELSE @]
  /\ inFlight' = [inFlight EXCEPT ![u] = None]
  /\ failures' = [failures EXCEPT ![u] =
                    [depth |-> FailureOf(u, d).depth, count |-> FailureOf(u, d).count + 1]]
  /\ UNCHANGED <<completed, boundary, maxRequeue>>

\* log_failure(permanent=True), the only form the engine calls
LogFailure(u, d) ==
  /\ failures' = [failures EXCEPT ![u] = [depth |-> d, count |-> maxRequeue]]
  /\ inFlight' = [inFlight EXCEPT ![u] = None]
  /\ UNCHANGED <<queue, completed, boundary, maxRequeue>>

\* One reclaim of the retry monitor
AtomicRetryReclaim(u) ==
  LET idle == Retryable \ Known IN
  /\ ~QueueFull
  /\ u \in idle
  /\ \A v \in idle : failures[u].depth <= failures[v].depth
  /\ queue' = [queue EXCEPT ![u] = failures[u].depth]
  /\ failures' = [failures EXCEPT ![u] = [depth |-> failures[u].depth,
                                          count |-> failures[u].count + 1]]
  /\ UNCHANGED <<inFlight, completed, boundary, maxRequeue>>

\* Mutant: URLs that are not in flight are failed too.
MutForceFailAllInFlight ==
  /\ failures' = [u \in Url |-> [depth |-> inFlight[u], count |-> maxRequeue]]
  /\ inFlight' = [u \in Url |-> None]
  /\ UNCHANGED <<queue, completed, boundary, maxRequeue>>

\* force_fail_all_in_flight(cfg.max_requeue), the last act of a shutdown
ForceFailAllInFlight ==
  /\ failures' = [u \in Url |-> IF u \in InFlight
                                THEN [depth |-> inFlight[u], count |-> maxRequeue]
                                ELSE failures[u]]
  /\ inFlight' = [u \in Url |-> None]
  /\ UNCHANGED <<queue, completed, boundary, maxRequeue>>

-----------------------------------------------------------------------------
(* Opening the file again, and the links beyond the depth limit.             *)

\* Mutant: the urls table is not asked for each recovered row.
MutOpenAndRecover(limit) ==
  /\ queue' = [u \in Url |-> IF queue[u] = None THEN inFlight[u] ELSE queue[u]]
  /\ inFlight' = [u \in Url |-> None]
  /\ maxRequeue' = limit
  /\ UNCHANGED <<completed, failures, boundary>>

\* open() with a possibly different configuration, and _recover_in_flight
OpenAndRecover(limit) ==
  /\ queue' = [u \in Url |-> IF queue[u] = None /\ u \in InFlight \ completed
                             THEN inFlight[u] ELSE queue[u]]
  /\ inFlight' = [u \in Url |-> None]
  /\ maxRequeue' = limit
  /\ UNCHANGED <<completed, failures, boundary>>

ResetAll ==
  /\ queue' = [u \in Url |-> None]
  /\ inFlight' = [u \in Url |-> None]
  /\ completed' = {}
  /\ failures' = [u \in Url |-> None]
  /\ boundary' = {}
  /\ UNCHANGED maxRequeue

PurgeFailuresDepthGe(d) ==
  /\ failures' = [u \in Url |-> IF u \in Failed /\ failures[u].depth >= d
                                THEN None ELSE failures[u]]
  /\ UNCHANGED <<queue, inFlight, completed, boundary, maxRequeue>>

\* INSERT OR IGNORE: (parent, child) is the primary key
SaveBoundaryLink(p, c, d) ==
  /\ boundary' = IF \E r \in boundary : r.parent = p /\ r.child = c
                 THEN boundary
                 ELSE boundary \cup {[parent |-> p, child |-> c, depth |-> d]}
  /\ UNCHANGED <<queue, inFlight, completed, failures, maxRequeue>>

\* The rows promote_boundary_links(d) selects, and the same rows deleted
Promotable(d) == {r \in boundary : r.depth + 1 < d}

PromoteBoundaryLinks(d) ==
  /\ boundary' = boundary \ Promotable(d)
  /\ UNCHANGED <<queue, inFlight, completed, failures, maxRequeue>>

\* get_lost_children(d)
LostChildren(d) == {r.child : r \in {s \in boundary : s.depth = d}} \ Known

-----------------------------------------------------------------------------
Init ==
  /\ queue = [u \in Url |-> None]
  /\ inFlight = [u \in Url |-> None]
  /\ completed = {}
  /\ failures = [u \in Url |-> None]
  /\ boundary = {}
  /\ maxRequeue \in RetryLimit

\* Any caller, any arguments.  The engine starts afresh only on a store that
\* has completed nothing (resume_if_exists, urls_table_empty).
Next ==
  \/ \E u \in Url, d \in Depth :
       \/ PushToQueueSingle(u, d)
       \/ PushToQueueAsOwner(u, d)
       \/ TryScheduleRetry(u, d)
       \/ LogFailure(u, d)
  \/ \E u \in Url : PopFromDomain(u) \/ AtomicRetryReclaim(u)
  \/ \E asked, page \in Url : MarkCompleted(asked, page)
  \/ ForceFailAllInFlight
  \/ \E n \in RetryLimit : OpenAndRecover(n)
  \/ \E d \in Depth : PurgeFailuresDepthGe(d) \/ PromoteBoundaryLinks(d)
  \/ completed = {} /\ ResetAll
  \/ \E p \in Url \cup {None}, c \in Url, d \in Depth : SaveBoundaryLink(p, c, d)

Spec == Init /\ [][Next]_db

-----------------------------------------------------------------------------
\* A URL has a row in the queue or in in_flight, never in both: a worker
\* that owns a URL can not see it handed to a second worker by a pop.
QueueInFlightDisjoint == Queued \cap InFlight = {}

\* No step queues a URL that is already completed, and no step undoes a
\* completion: push, requeue, retry, reclaim and crash recovery all check.
CompletedStaysDone ==
  [][ /\ completed \subseteq completed'
      /\ \A u \in completed : queue[u] = None => queue'[u] = None ]_db

\* The tables read as a ledger.
LedgerStatus ==
  [u \in Url |-> IF u \in completed THEN "completed"
                 ELSE IF u \in Queued \cup InFlight THEN "pending"
                 ELSE IF u \in Failed THEN "failed"
                 ELSE "unseen"]

\* No row is dropped on the floor: the tables implement the ledger.
Ledger == INSTANCE UrlLedger WITH status <- LedgerStatus
LedgerSpec == Ledger!Spec

=============================================================================

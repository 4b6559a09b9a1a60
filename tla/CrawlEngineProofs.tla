-------------------------- MODULE CrawlEngineProofs ---------------------------
(*****************************************************************************)
(* What the crawl database, the engine and the counts of a crawl guarantee   *)
(* for any set of URLs, workers, links, redirects, domains and limits, over  *)
(* any number of sessions, stops, faults and crashes. The database keeps its *)
(* types, queue and in_flight apart and completion for good, and implements  *)
(* the ledger; the engine keeps its types, touches the store only by the     *)
(* methods of the store, and no URL is held by two workers or by none; and   *)
(* the counts agree with the tables.                                         *)
(*****************************************************************************)
EXTENDS CrawlEngine, CrawlTally, FiniteSetTheorems, TLAPS

-----------------------------------------------------------------------------
(* The tables of the database                                                *)

\* Every method keeps the types of the tables.
LEMMA TypeStep == TypeOK /\ [Next]_db => TypeOK'
<1> SUFFICES ASSUME TypeOK, [Next]_db PROVE TypeOK'
  OBVIOUS
<1> USE DepthAssumption, RetryLimitAssumption, NoneAssumption
<1>1. ASSUME NEW u \in Url, NEW d \in Depth, PushToQueueSingle(u, d) PROVE TypeOK'
  BY <1>1 DEF TypeOK, PushToQueueSingle
<1>2. ASSUME NEW u \in Url, NEW d \in Depth, PushToQueueAsOwner(u, d) PROVE TypeOK'
  BY <1>2 DEF TypeOK, PushToQueueAsOwner
<1>3. ASSUME NEW u \in Url, NEW d \in Depth, TryScheduleRetry(u, d) PROVE TypeOK'
  <2>1. FailureOf(u, d) \in FailureRow
    BY DEF FailureOf, Failed, TypeOK, FailureRow
  <2>2. [depth |-> FailureOf(u, d).depth, count |-> FailureOf(u, d).count + 1] \in FailureRow
    BY <2>1 DEF FailureRow
  <2> QED
    BY <1>3, <2>2 DEF TypeOK, TryScheduleRetry
<1>4. ASSUME NEW u \in Url, NEW d \in Depth, LogFailure(u, d) PROVE TypeOK'
  BY <1>4 DEF TypeOK, LogFailure, FailureRow
<1>5. ASSUME NEW u \in Url, PopFromDomain(u) PROVE TypeOK'
  BY <1>5 DEF TypeOK, PopFromDomain
<1>6. ASSUME NEW u \in Url, AtomicRetryReclaim(u) PROVE TypeOK'
  <2>1. failures[u] \in FailureRow
    BY <1>6 DEF AtomicRetryReclaim, Retryable, Failed, TypeOK
  <2> QED
    BY <1>6, <2>1 DEF TypeOK, AtomicRetryReclaim, FailureRow
<1>7. ASSUME NEW asked \in Url, NEW page \in Url, MarkCompleted(asked, page) PROVE TypeOK'
  BY <1>7 DEF TypeOK, MarkCompleted
<1>8. CASE ForceFailAllInFlight
  BY <1>8 DEF TypeOK, ForceFailAllInFlight, InFlight, FailureRow
<1>9. ASSUME NEW n \in RetryLimit, OpenAndRecover(n) PROVE TypeOK'
  BY <1>9 DEF TypeOK, OpenAndRecover
<1>10. ASSUME NEW d \in Depth, PurgeFailuresDepthGe(d) PROVE TypeOK'
  BY <1>10 DEF TypeOK, PurgeFailuresDepthGe
<1>11. ASSUME NEW d \in Depth, PromoteBoundaryLinks(d) PROVE TypeOK'
  BY <1>11 DEF TypeOK, PromoteBoundaryLinks
<1>12. CASE ResetAll
  BY <1>12 DEF TypeOK, ResetAll
<1>13. ASSUME NEW p \in Url \cup {None}, NEW c \in Url, NEW d \in Depth,
              SaveBoundaryLink(p, c, d)
       PROVE TypeOK'
  BY <1>13 DEF TypeOK, SaveBoundaryLink, BoundaryRow
<1>14. CASE UNCHANGED db
  BY <1>14 DEF TypeOK, db
<1> QED
  BY <1>1, <1>2, <1>3, <1>4, <1>5, <1>6, <1>7, <1>8, <1>9, <1>10, <1>11, <1>12, <1>13, <1>14
     DEF Next

\* The tables keep their types whatever is called.
THEOREM TypeCorrect == Spec => []TypeOK
<1>1. Init => TypeOK
  BY RetryLimitAssumption DEF Init, TypeOK
<1> QED
  BY <1>1, TypeStep, PTL DEF Spec

-----------------------------------------------------------------------------
\* A URL never has a row in queue and a row in in_flight: every method that
\* writes one of them deletes from, or has looked into, the other.
THEOREM Disjointness == Spec => []QueueInFlightDisjoint
<1>1. Init => QueueInFlightDisjoint
  BY DEF Init, QueueInFlightDisjoint, Queued, InFlight
<1>2. TypeOK /\ QueueInFlightDisjoint /\ [Next]_db => QueueInFlightDisjoint'
  <2> SUFFICES ASSUME TypeOK, QueueInFlightDisjoint, [Next]_db PROVE QueueInFlightDisjoint'
    OBVIOUS
  <2> USE DEF TypeOK, QueueInFlightDisjoint, Queued, InFlight
  <2>1. ASSUME NEW u \in Url, NEW d \in Depth, PushToQueueSingle(u, d)
        PROVE QueueInFlightDisjoint'
    BY <2>1 DEF PushToQueueSingle
  <2>2. ASSUME NEW u \in Url, NEW d \in Depth, PushToQueueAsOwner(u, d)
        PROVE QueueInFlightDisjoint'
    BY <2>2 DEF PushToQueueAsOwner
  <2>3. ASSUME NEW u \in Url, NEW d \in Depth, TryScheduleRetry(u, d)
        PROVE QueueInFlightDisjoint'
    BY <2>3 DEF TryScheduleRetry
  <2>4. ASSUME NEW u \in Url, NEW d \in Depth, LogFailure(u, d)
        PROVE QueueInFlightDisjoint'
    BY <2>4 DEF LogFailure
  <2>5. ASSUME NEW u \in Url, PopFromDomain(u) PROVE QueueInFlightDisjoint'
    BY <2>5 DEF PopFromDomain
  <2>6. ASSUME NEW u \in Url, AtomicRetryReclaim(u) PROVE QueueInFlightDisjoint'
    BY <2>6 DEF AtomicRetryReclaim, Known
  <2>7. ASSUME NEW asked \in Url, NEW page \in Url, MarkCompleted(asked, page)
        PROVE QueueInFlightDisjoint'
    BY <2>7 DEF MarkCompleted
  <2>8. CASE ForceFailAllInFlight
    BY <2>8 DEF ForceFailAllInFlight
  <2>9. ASSUME NEW n \in RetryLimit, OpenAndRecover(n) PROVE QueueInFlightDisjoint'
    BY <2>9 DEF OpenAndRecover
  <2>10. ASSUME NEW d \in Depth, PurgeFailuresDepthGe(d) PROVE QueueInFlightDisjoint'
    BY <2>10 DEF PurgeFailuresDepthGe
  <2>11. ASSUME NEW d \in Depth, PromoteBoundaryLinks(d) PROVE QueueInFlightDisjoint'
    BY <2>11 DEF PromoteBoundaryLinks
  <2>12. CASE ResetAll
    BY <2>12 DEF ResetAll
  <2>13. ASSUME NEW p \in Url \cup {None}, NEW c \in Url, NEW d \in Depth,
                SaveBoundaryLink(p, c, d)
         PROVE QueueInFlightDisjoint'
    BY <2>13 DEF SaveBoundaryLink
  <2>14. CASE UNCHANGED db
    BY <2>14 DEF db
  <2> QED
    BY <2>1, <2>2, <2>3, <2>4, <2>5, <2>6, <2>7, <2>8, <2>9, <2>10, <2>11, <2>12, <2>13, <2>14
       DEF Next
<1> QED
  BY <1>1, <1>2, TypeCorrect, PTL DEF Spec

-----------------------------------------------------------------------------
\* Completion is for ever, and a completed URL is not queued again, by any
\* method in any order; the urls table is asked wherever a row is queued.
THEOREM CompletionPermanent == Spec => CompletedStaysDone
<1> DEFINE Kept == /\ completed \subseteq completed'
                   /\ \A u \in completed : queue[u] = None => queue'[u] = None
<1>1. TypeOK /\ [Next]_db => [Kept]_db
  <2> SUFFICES ASSUME TypeOK, Next PROVE Kept
    OBVIOUS
  <2> USE DEF TypeOK
  <2>1. ASSUME NEW u \in Url, NEW d \in Depth, PushToQueueSingle(u, d) PROVE Kept
    BY <2>1 DEF PushToQueueSingle, CanPushSingle, Known
  <2>2. ASSUME NEW u \in Url, NEW d \in Depth, PushToQueueAsOwner(u, d) PROVE Kept
    BY <2>2 DEF PushToQueueAsOwner, CanPushAsOwner
  <2>3. ASSUME NEW u \in Url, NEW d \in Depth, TryScheduleRetry(u, d) PROVE Kept
    BY <2>3 DEF TryScheduleRetry, CanScheduleRetry
  <2>4. ASSUME NEW u \in Url, PopFromDomain(u) PROVE Kept
    BY <2>4 DEF PopFromDomain
  <2>5. ASSUME NEW u \in Url, AtomicRetryReclaim(u) PROVE Kept
    BY <2>5 DEF AtomicRetryReclaim, Known
  <2>6. ASSUME NEW asked \in Url, NEW page \in Url, MarkCompleted(asked, page) PROVE Kept
    BY <2>6 DEF MarkCompleted
  <2>7. ASSUME NEW n \in RetryLimit, OpenAndRecover(n) PROVE Kept
    BY <2>7 DEF OpenAndRecover
  <2>8. CASE completed = {} /\ ResetAll
    BY <2>8 DEF ResetAll
  <2>9. ASSUME UNCHANGED <<queue, completed>> PROVE Kept
    BY <2>9
  <2> QED
    BY <2>1, <2>2, <2>3, <2>4, <2>5, <2>6, <2>7, <2>8, <2>9
       DEF Next, LogFailure, ForceFailAllInFlight, PurgeFailuresDepthGe,
           PromoteBoundaryLinks, SaveBoundaryLink
<1> QED
  BY <1>1, TypeCorrect, PTL DEF Spec, CompletedStaysDone

-----------------------------------------------------------------------------
(* The tables implement the ledger.                                          *)

\* Queueing a URL that was not pending admits it; queueing one that was in
\* flight changes nothing the ledger can see.
LEMMA QueueingAdmits ==
  ASSUME TypeOK, NEW u \in Url, NEW d \in Nat,
         u \notin completed, completed' = completed,
         queue' = [queue EXCEPT ![u] = d],
         \A v \in Url \ {u} : inFlight'[v] = inFlight[v] /\ failures'[v] = failures[v]
  PROVE  Ledger!Admit(u) \/ UNCHANGED LedgerStatus
<1> USE NoneAssumption DEF TypeOK, LedgerStatus, Queued, InFlight, Failed
<1>1. u \in Queued'
  OBVIOUS
<1>2. LedgerStatus' = [LedgerStatus EXCEPT ![u] = "pending"]
  BY <1>1
<1>3. LedgerStatus[u] \in {"unseen", "failed", "pending"}
  OBVIOUS
<1>4. CASE LedgerStatus[u] = "pending"
  <2>1. LedgerStatus' = LedgerStatus
    BY <1>2, <1>4
  <2> QED
    BY <2>1
<1>5. CASE LedgerStatus[u] \in {"unseen", "failed"}
  BY <1>2, <1>5 DEF Ledger!Admit
<1> QED
  BY <1>3, <1>4, <1>5

\* Every initial state and every step of the tables is one of the ledger: a
\* pending URL is never dropped and a completed one never forgotten.
THEOREM ImplementsLedger == Spec => LedgerSpec
<1>1. Init => Ledger!Init
  BY DEF Init, Ledger!Init, LedgerStatus, Queued, InFlight, Failed
<1>2. TypeOK /\ [Next]_db => [Ledger!Next]_LedgerStatus
  <2> SUFFICES ASSUME TypeOK, Next PROVE Ledger!Next \/ UNCHANGED LedgerStatus
    BY DEF db, LedgerStatus, Queued, InFlight, Failed
  <2> USE NoneAssumption, DepthAssumption
  <2> USE DEF TypeOK
  <2>1. ASSUME NEW u \in Url, NEW d \in Depth, PushToQueueSingle(u, d)
        PROVE  Ledger!Next \/ UNCHANGED LedgerStatus
    BY <2>1, QueueingAdmits DEF PushToQueueSingle, CanPushSingle, Known, Ledger!Next
  <2>2. ASSUME NEW u \in Url, NEW d \in Depth, PushToQueueAsOwner(u, d)
        PROVE  Ledger!Next \/ UNCHANGED LedgerStatus
    BY <2>2, QueueingAdmits DEF PushToQueueAsOwner, CanPushAsOwner, Ledger!Next
  <2>3. ASSUME NEW u \in Url, NEW d \in Depth, TryScheduleRetry(u, d)
        PROVE  Ledger!Next \/ UNCHANGED LedgerStatus
    <3> DEFINE e == IF queue[u] = None THEN d ELSE queue[u]
    <3>1. e \in Nat
      OBVIOUS
    <3>2. queue' = [queue EXCEPT ![u] = e] /\ u \notin completed /\ completed' = completed
      BY <2>3 DEF TryScheduleRetry, CanScheduleRetry
    <3>3. \A v \in Url \ {u} : inFlight'[v] = inFlight[v] /\ failures'[v] = failures[v]
      BY <2>3 DEF TryScheduleRetry
    <3> HIDE DEF e
    <3> QED
      BY <3>1, <3>2, <3>3, QueueingAdmits DEF Ledger!Next
  <2>4. ASSUME NEW u \in Url, NEW d \in Depth, LogFailure(u, d)
        PROVE  Ledger!Next \/ UNCHANGED LedgerStatus
    <3> DEFINE S == {v \in {u} : v \notin completed \cup Queued}
    <3>1. S \subseteq Ledger!NotCompleted
      BY DEF Ledger!NotCompleted, LedgerStatus
    <3>2. LedgerStatus' = [v \in Url |-> IF v \in S THEN "failed" ELSE LedgerStatus[v]]
      <4>1. /\ queue' = queue /\ completed' = completed /\ failures'[u] # None /\ inFlight'[u] = None
            /\ \A v \in Url \ {u} : failures'[v] = failures[v] /\ inFlight'[v] = inFlight[v]
        <5>1. failures'[u] = [depth |-> d, count |-> maxRequeue] /\ inFlight'[u] = None
          BY <2>4 DEF LogFailure
        <5>2. [depth |-> d, count |-> maxRequeue] \in [depth : Nat, count : Nat]
          OBVIOUS
        <5>3. queue' = queue /\ completed' = completed
          BY <2>4 DEF LogFailure
        <5>4. \A v \in Url \ {u} : failures'[v] = failures[v] /\ inFlight'[v] = inFlight[v]
          BY <2>4 DEF LogFailure
        <5> QED
          BY <5>1, <5>2, <5>3, <5>4
      <4>2. ASSUME NEW v \in Url
            PROVE  LedgerStatus'[v] = IF v \in S THEN "failed" ELSE LedgerStatus[v]
        <5>1. CASE v = u
          BY <4>1, <5>1 DEF LedgerStatus, Queued, InFlight, Failed
        <5>2. CASE v # u
          BY <4>1, <5>2 DEF LedgerStatus, Queued, InFlight, Failed
        <5> QED
          BY <5>1, <5>2
      <4>3. LedgerStatus' = [v \in Url |-> LedgerStatus'[v]]
        BY DEF LedgerStatus
      <4> HIDE DEF S
      <4> QED
        BY <4>2, <4>3
    <3>3. S \in SUBSET Url
      OBVIOUS
    <3> HIDE DEF S
    <3>4. Ledger!GiveUp(S)
      BY <3>1, <3>2 DEF Ledger!GiveUp
    <3> QED
      BY <3>3, <3>4 DEF Ledger!Next
  <2>5. ASSUME NEW u \in Url, PopFromDomain(u) PROVE UNCHANGED LedgerStatus
    BY <2>5 DEF PopFromDomain, LedgerStatus, Queued, InFlight, Failed
  <2>6. ASSUME NEW u \in Url, AtomicRetryReclaim(u)
        PROVE  Ledger!Next \/ UNCHANGED LedgerStatus
    <3>1. failures[u].depth \in Nat
      BY <2>6 DEF AtomicRetryReclaim, Retryable, Failed, FailureRow
    <3> QED
      BY <2>6, <3>1, QueueingAdmits DEF AtomicRetryReclaim, Known, Ledger!Next
  <2>7. ASSUME NEW asked \in Url, NEW page \in Url, MarkCompleted(asked, page)
        PROVE  Ledger!Next
    <3> DEFINE s == IF asked \in completed \cup Queued THEN LedgerStatus[asked] ELSE "unseen"
    <3>1. /\ s \in {LedgerStatus[asked], "unseen"}
          /\ LedgerStatus[asked] = "completed" => s = "completed"
      BY DEF LedgerStatus
    <3>2. LedgerStatus' = [LedgerStatus EXCEPT ![asked] = s, ![page] = "completed"]
      BY <2>7 DEF MarkCompleted, LedgerStatus, Queued, InFlight, Failed
    <3> HIDE DEF s
    <3>3. Ledger!Complete(asked, page)
      BY <3>1, <3>2 DEF Ledger!Complete
    <3> QED
      BY <3>3 DEF Ledger!Next
  <2>8. CASE ForceFailAllInFlight
    <3> DEFINE S == InFlight \ (completed \cup Queued)
    <3>1. S \subseteq Ledger!NotCompleted
      BY DEF Ledger!NotCompleted, LedgerStatus, InFlight
    <3>2. LedgerStatus' = [v \in Url |-> IF v \in S THEN "failed" ELSE LedgerStatus[v]]
      <4>1. \A v \in InFlight : [depth |-> inFlight[v], count |-> maxRequeue] \in [depth : Nat, count : Nat]
        BY DEF TypeOK, InFlight
      <4>2. Failed' = Failed \cup InFlight
        BY <2>8, <4>1 DEF ForceFailAllInFlight, Failed, InFlight
      <4>3. InFlight' = {} /\ Queued' = Queued /\ completed' = completed
        BY <2>8 DEF ForceFailAllInFlight, Queued, InFlight
      <4> QED
        BY <4>2, <4>3 DEF LedgerStatus
    <3>3. S \in SUBSET Url
      BY DEF InFlight
    <3> QED
      BY <3>1, <3>2, <3>3 DEF Ledger!Next, Ledger!GiveUp
  <2>9. ASSUME NEW n \in RetryLimit, OpenAndRecover(n) PROVE UNCHANGED LedgerStatus
    BY <2>9 DEF OpenAndRecover, LedgerStatus, Queued, InFlight, Failed
  <2>10. ASSUME NEW d \in Depth, PurgeFailuresDepthGe(d)
         PROVE  Ledger!Next
    <3> DEFINE S == {v \in Failed \ Known : failures[v].depth >= d}
    <3>1. \A v \in S : LedgerStatus[v] = "failed"
      BY DEF LedgerStatus, Known, Failed
    <3>2. LedgerStatus' = [v \in Url |-> IF v \in S THEN "unseen" ELSE LedgerStatus[v]]
      BY <2>10 DEF PurgeFailuresDepthGe, LedgerStatus, Queued, InFlight, Failed, Known
    <3>3. S \in SUBSET Url
      BY DEF Failed
    <3> QED
      BY <3>1, <3>2, <3>3 DEF Ledger!Next, Ledger!ForgetFailures
  <2>11. CASE completed = {} /\ ResetAll
    <3>1. Ledger!NotCompleted = Url
      BY <2>11 DEF Ledger!NotCompleted, LedgerStatus
    <3>2. LedgerStatus' = [u \in Url |-> "unseen"]
      BY <2>11 DEF ResetAll, LedgerStatus, Queued, InFlight, Failed
    <3> QED
      BY <3>1, <3>2 DEF Ledger!Next, Ledger!StartAfresh
  <2>12. ASSUME UNCHANGED <<queue, inFlight, completed, failures>>
         PROVE  UNCHANGED LedgerStatus
    BY <2>12 DEF LedgerStatus, Queued, InFlight, Failed
  <2> QED
    BY <2>1, <2>2, <2>3, <2>4, <2>5, <2>6, <2>7, <2>8, <2>9, <2>10, <2>11, <2>12
       DEF Next, PromoteBoundaryLinks, SaveBoundaryLink
<1> QED
  BY <1>1, <1>2, TypeCorrect, PTL DEF Spec, LedgerSpec, Ledger!Spec

-----------------------------------------------------------------------------
(* The engine                                                                *)

\* A worker in the chain, or about to settle, has a job.
JobHeld == \A i \in Worker : pc[i] \in Chain \cup {"settle"} => job[i] \in Job

WorkersOK ==
  /\ pc \in [Worker -> PC]
  /\ job \in [Worker -> Job \cup {None}]
  /\ cancelled \subseteq Worker
  /\ JobHeld

\* What start-up has found to enqueue lies within the depth limit.
TodoWithin == \A l \in todo : l.depth < depthLimit

SessionOK ==
  /\ main \in Looping \cup Stopping \cup Starting \cup Ended
  /\ depthLimit \in DepthLimit
  /\ stop \in BOOLEAN /\ paused \in BOOLEAN
  /\ todo \subseteq Link
  /\ main \in {"heal", "promote", "seed"} => TodoWithin
  /\ sitemap \subseteq SitemapUrls
  /\ sessions \in 0 .. MaxSessions
  /\ faults \in 0 .. MaxFaults

IInv == TypeOK /\ WorkersOK /\ SessionOK

\* What a step of the engine has to keep, the types of the tables apart.
Good == [Next]_db /\ WorkersOK' /\ SessionOK'

-----------------------------------------------------------------------------
(* The parts steps are made of.                                              *)

\* A link that is admitted or recorded has a depth the store knows.
LEMMA AdmitIsNext ==
  ASSUME depthLimit \in DepthLimit, NEW p \in Url \cup {None}, NEW u \in Url, NEW d \in Nat,
         d < depthLimit \/ d - 1 \in Depth,
         Admit(p, u, d)
  PROVE  [Next]_db
<1>1. depthLimit \in Nat /\ 0 .. depthLimit \subseteq Depth
  BY EngineAssumption
<1>2. CASE d >= depthLimit
  <2>1. d - 1 \in Depth
    BY <1>1, <1>2
  <2>2. SaveBoundaryLink(p, u, d - 1)
    BY <1>2 DEF Admit
  <2> QED
    BY <2>1, <2>2 DEF Next
<1>3. CASE ~(d >= depthLimit)
  <2>1. d \in Depth
    BY <1>1, <1>3
  <2>2. PushToQueueSingle(u, d) \/ UNCHANGED db
    BY <1>3 DEF Admit
  <2> QED
    BY <2>1, <2>2 DEF Next
<1> QED
  BY <1>2, <1>3

\* A step of a worker leaves the session alone.
LEMMA SessionKept ==
  ASSUME SessionOK, UNCHANGED session, NoFault \/ Fault
  PROVE  SessionOK'
<1>1. faults' \in 0 .. MaxFaults
  BY EngineAssumption DEF SessionOK, NoFault, Fault
<1> QED
  BY <1>1 DEF SessionOK, TodoWithin, session

\* A worker may go to its next step, as long as it has a job where one is needed.
LEMMA GotoKeeps ==
  ASSUME WorkersOK, NEW i \in Worker, NEW w \in PC, Goto(i, w), UNCHANGED <<job, cancelled>>,
         w \in Chain \cup {"settle"} => job[i] \in Job
  PROVE  WorkersOK'
BY DEF WorkersOK, JobHeld, Goto

\* A worker that ends its job keeps a job with what became of it.
LEMMA EndKeeps ==
  ASSUME WorkersOK, NEW i \in Worker, NEW w \in PC, NEW disp \in Disposition, End(i, disp, w),
         job[i] \in Job, cancelled' \subseteq Worker
  PROVE  WorkersOK'
<1>1. [job[i] EXCEPT !.disp = disp] \in Job
  BY DEF Job
<1>2. job' = [job EXCEPT ![i] = [job[i] EXCEPT !.disp = disp]]
  BY DEF End, WorkersOK
<1> QED
  BY <1>1, <1>2 DEF WorkersOK, JobHeld, End

\* A worker may let its job go.
LEMMA FreeKeeps ==
  ASSUME WorkersOK, NEW i \in Worker, NEW w \in PC \ (Chain \cup {"settle"}), Free(i, w),
         cancelled' \subseteq Worker
  PROVE  WorkersOK'
BY DEF WorkersOK, JobHeld, Free

\* A requeue that takes no retry is a step of the store, and leaves the worker in order.
LEMMA FreeRequeueKeeps ==
  ASSUME WorkersOK, NEW i \in Worker, job[i] \in Job, FreeRequeueOrFail(i),
         cancelled' \subseteq Worker
  PROVE  [Next]_db /\ WorkersOK'
<1>1. job[i].url \in Url /\ job[i].depth \in Depth
  BY DEF Job
<1>2. [Next]_db
  BY <1>1 DEF FreeRequeueOrFail, Next
<1>3. End(i, "requeued", "return") \/ End(i, "failed", "return")
  BY DEF FreeRequeueOrFail
<1>4. WorkersOK'
  BY <1>3, EndKeeps DEF Disposition, PC, Chain
<1> QED
  BY <1>2, <1>4

\* So is one that takes a retry, or fails the page when there are none left.
LEMMA ScheduledRequeueKeeps ==
  ASSUME WorkersOK, NEW i \in Worker, NEW w \in {"return", "settle"}, job[i] \in Job,
         ScheduledRequeueOrFail(i, w), cancelled' \subseteq Worker
  PROVE  [Next]_db /\ WorkersOK'
<1>1. job[i].url \in Url /\ job[i].depth \in Depth
  BY DEF Job
<1>2. [Next]_db
  BY <1>1 DEF ScheduledRequeueOrFail, Next
<1>3. End(i, "requeued", w) \/ End(i, "failed", w)
  BY DEF ScheduledRequeueOrFail
<1>4. WorkersOK'
  BY <1>3, EndKeeps DEF Disposition, PC, Chain
<1> QED
  BY <1>2, <1>4

-----------------------------------------------------------------------------
(* Workers.                                                                  *)

\* Every step of a worker, one that fails or is cancelled included, is good.
LEMMA WorkerStep ==
  ASSUME IInv, NEW i \in Worker, ChainStep(i) \/ FaultStep(i)
  PROVE  Good
<1> USE DEF control, IInv
<1>a. /\ WorkersOK /\ SessionOK /\ TypeOK
      /\ pc[i] \in Chain \cup {"settle"} => job[i] \in Job
      /\ cancelled \subseteq Worker
  BY DEF WorkersOK, JobHeld
<1>b. ASSUME UNCHANGED control, NoFault \/ Fault PROVE SessionOK' /\ cancelled' \subseteq Worker
  BY <1>a, <1>b, SessionKept
<1>g. ASSUME NEW w \in PC, Goto(i, w), UNCHANGED <<db, job, control>>, NoFault \/ Fault,
             w \in Chain \cup {"settle"} => job[i] \in Job
      PROVE  Good
  BY <1>a, <1>b, <1>g, GotoKeeps DEF Good
<1>1. CASE EnterLoop(i)
  BY <1>1, <1>g DEF EnterLoop, PC, Chain
<1>2. CASE LeavePause(i)
  BY <1>2, <1>g DEF LeavePause, PC, Chain
<1>3. CASE Pop(i)
  <2>1. PICK u \in Url : PopFromDomain(u) /\ job' = [job EXCEPT ![i] = NewJob(u)]
    BY <1>3 DEF Pop
  <2>2. NewJob(u) \in Job
    BY <1>a, <2>1 DEF NewJob, Job, Disposition, PopFromDomain, Queued, TypeOK
  <2>3. WorkersOK'
    BY <1>3, <1>a, <2>1, <2>2 DEF Pop, Goto, WorkersOK, JobHeld, PC, Chain
  <2> QED
    BY <1>3, <1>b, <2>1, <2>3 DEF Pop, Next, Good
<1>4. CASE PopNothing(i)
  BY <1>4, <1>g DEF PopNothing, PC, Chain
<1>5. CASE Acquire(i)
  BY <1>5, <1>a, <1>g DEF Acquire, At, PC, Chain
<1>6. CASE AcquireRefused(i)
  BY <1>6, <1>a, <1>b, FreeRequeueKeeps DEF AcquireRefused, At, Chain, Good
<1>7. CASE RobotsAllow(i)
  BY <1>7, <1>a, <1>g DEF RobotsAllow, At, PC, Chain
<1>8. CASE RobotsDeny(i)
  <2>1. job[i] \in Job /\ job[i].url \in Url
    BY <1>8, <1>a DEF RobotsDeny, At, Chain, Job
  <2>2. WorkersOK'
    BY <1>8, <1>a, <1>b, <2>1, EndKeeps DEF RobotsDeny, Disposition, PC, Chain
  <2> QED
    BY <1>8, <1>b, <2>1, <2>2 DEF RobotsDeny, Next, Good
<1>9. CASE RateGrant(i)
  BY <1>9, <1>a, <1>g DEF RateGrant, At, PC, Chain
<1>10. CASE RateStopped(i)
  BY <1>10, <1>a, <1>b, FreeRequeueKeeps DEF RateStopped, At, Chain, Good
<1>11. CASE Fetched(i)
  <2>1. job[i] \in Job /\ job[i].url \in Url
    BY <1>11, <1>a DEF Fetched, At, Chain, Job
  <2>2. PICK page \in Redirects[job[i].url] : \E links \in {Links[page], {}} :
          job' = [job EXCEPT ![i].page = page, ![i].links = links]
    BY <1>11 DEF Fetched
  <2>2a. PICK links \in {Links[page], {}} :
          job' = [job EXCEPT ![i].page = page, ![i].links = links]
    BY <2>2
  <2>3. page \in Url /\ links \in SUBSET Url
    BY <2>1, <2>2, <2>2a, EngineAssumption
  <2>4. [job[i] EXCEPT !.page = page, !.links = links] \in Job
    BY <2>1, <2>3 DEF Job
  <2>5. job' = [job EXCEPT ![i] = [job[i] EXCEPT !.page = page, !.links = links]]
    BY <1>a, <2>2a DEF WorkersOK
  <2>6. WorkersOK'
    BY <1>11, <1>a, <2>4, <2>5 DEF Fetched, Goto, WorkersOK, JobHeld, PC, Chain
  <2> QED
    BY <1>11, <1>b, <2>6 DEF Fetched, Good
<1>12. CASE FetchInfraError(i)
  BY <1>12, <1>a, <1>b, FreeRequeueKeeps DEF FetchInfraError, At, Chain, Good
<1>13. CASE FetchError(i)
  BY <1>13, <1>a, <1>b, ScheduledRequeueKeeps DEF FetchError, At, Chain, Good
<1>14. CASE Finalize(i)
  <2>1. job[i] \in Job /\ job[i].url \in Url /\ job[i].page \in Url
    BY <1>14, <1>a DEF Finalize, At, Chain, Job
  <2>2. WorkersOK'
    BY <1>14, <1>a, <1>b, <2>1, EndKeeps DEF Finalize, Disposition, PC, Chain
  <2> QED
    BY <1>14, <1>b, <2>1, <2>2 DEF Finalize, Next, Good
<1>15. CASE FinalizeTooLate(i)
  <2>1. job[i] \in Job
    BY <1>15, <1>a DEF FinalizeTooLate, At, Chain
  <2>2. WorkersOK'
    BY <1>15, <1>a, <1>b, <2>1, EndKeeps DEF FinalizeTooLate, Disposition, PC, Chain
  <2> QED
    BY <1>15, <1>b, <2>2 DEF FinalizeTooLate, Good
<1>16. CASE EnqueueLink(i)
  <2>1. job[i] \in Job
    BY <1>16, <1>a DEF EnqueueLink, At, Chain
  <2>2. PICK u \in job[i].links : /\ Admit(job[i].url, u, job[i].depth + 1)
                                  /\ job' = [job EXCEPT ![i].links = @ \ {u}]
    BY <1>16 DEF EnqueueLink
  <2>3. [Next]_db
    <3>1. job[i].url \in Url /\ u \in Url /\ job[i].depth \in Depth
      BY <2>1, <2>2 DEF Job
    <3>2. job[i].depth + 1 \in Nat /\ (job[i].depth + 1) - 1 \in Depth
      <4>1. \A d \in Depth : d + 1 \in Nat /\ (d + 1) - 1 \in Depth
        BY DepthAssumption
      <4> QED
        BY <3>1, <4>1
    <3>3. depthLimit \in DepthLimit
      BY <1>a DEF SessionOK
    <3> QED
      BY <2>2, <3>1, <3>2, <3>3, AdmitIsNext
  <2>4. [job[i] EXCEPT !.links = @ \ {u}] \in Job
    BY <2>1 DEF Job
  <2>5. job' = [job EXCEPT ![i] = [job[i] EXCEPT !.links = @ \ {u}]]
    BY <1>a, <2>2 DEF WorkersOK
  <2>6. WorkersOK'
    BY <1>16, <1>a, <2>4, <2>5 DEF EnqueueLink, WorkersOK, JobHeld
  <2> QED
    BY <1>16, <1>b, <2>3, <2>6 DEF EnqueueLink, Good
<1>17. CASE LinksDone(i)
  BY <1>17, <1>a, <1>g DEF LinksDone, At, PC, Chain
<1>18. CASE ChainReturns(i)
  BY <1>18, <1>a, <1>g DEF ChainReturns, At, PC, Chain
<1>19. CASE Settle(i)
  <2>1. job[i].url \in Url /\ job[i].depth \in Depth
    BY <1>19, <1>a DEF Settle, At, Job
  <2>2. WorkersOK'
    BY <1>19, <1>a, <1>b, FreeKeeps DEF Settle, PC, Chain
  <2>3. [Next]_db
    BY <1>19, <2>1 DEF Settle, Next
  <2> QED
    BY <1>19, <1>b, <2>2, <2>3 DEF Settle, Good
<1>20. CASE ExitLoop(i)
  BY <1>20, <1>g DEF ExitLoop, PC, Chain
<1>21. CASE Cancelled(i)
  <2>1. SessionOK' /\ cancelled' \subseteq Worker
    BY <1>21, <1>a, SessionKept DEF Cancelled
  <2>2. CASE Free(i, "done") /\ UNCHANGED db
    BY <1>a, <2>1, <2>2, FreeKeeps DEF PC, Chain, Good
  <2>3. ASSUME NEW u \in Url, PopFromDomain(u), Free(i, "done") PROVE Good
    BY <1>a, <2>1, <2>3, FreeKeeps DEF PC, Chain, Good, Next
  <2>4. CASE pc[i] = "fetch" /\ FreeRequeueOrFail(i)
    BY <1>a, <2>1, <2>4, FreeRequeueKeeps DEF Chain, Good
  <2>5. CASE pc[i] \in Chain /\ PushToQueueAsOwner(job[i].url, job[i].depth) /\ Free(i, "done")
    <3>1. job[i].url \in Url /\ job[i].depth \in Depth
      BY <1>a, <2>5 DEF Job
    <3> QED
      BY <1>a, <2>1, <2>5, <3>1, FreeKeeps DEF PC, Chain, Good, Next
  <2> QED
    BY <1>21, <2>2, <2>3, <2>4, <2>5 DEF Cancelled, HandleCancel
<1>22. CASE ProcessorError(i)
  BY <1>22, <1>a, <1>b, ScheduledRequeueKeeps DEF ProcessorError, Good
<1>23. CASE ChainTimeout(i)
  <2>1. job[i] \in Job
    BY <1>23, <1>a DEF ChainTimeout
  <2> QED
    BY <1>23, <1>a, <1>b, <2>1, FreeRequeueKeeps, ScheduledRequeueKeeps DEF ChainTimeout, Good
<1>24. CASE DatabaseError(i)
  BY <1>24, <1>a, <1>b, FreeKeeps DEF DatabaseError, PC, Chain, Good
<1> QED
  BY <1>1, <1>2, <1>3, <1>4, <1>5, <1>6, <1>7, <1>8, <1>9, <1>10, <1>11, <1>12, <1>13, <1>14,
     <1>15, <1>16, <1>17, <1>18, <1>19, <1>20, <1>21, <1>22, <1>23, <1>24
     DEF ChainStep, FaultStep

-----------------------------------------------------------------------------
(* Start-up, the main loop and the background tasks.                         *)

\* What start-up finds to enqueue is typed and within the depth limit.
LEMMA TodoFound ==
  ASSUME IInv
  PROVE  /\ \A l \in SeedLinks : l \in Link /\ l.depth < depthLimit
         /\ \A l \in Promoted : l \in Link /\ l.depth < depthLimit
         /\ \A d \in 1 .. depthLimit - 1 : \A u \in LostChildren(d - 1) :
              [url |-> u, depth |-> d] \in Link /\ d < depthLimit
<1>1. /\ depthLimit \in Nat \ {0} /\ 0 .. depthLimit \subseteq Depth
      /\ boundary \subseteq BoundaryRow /\ Seeds \subseteq Url
  BY EngineAssumption DEF IInv, SessionOK, TypeOK
<1>2. ASSUME NEW l \in SeedLinks PROVE l \in Link /\ l.depth < depthLimit
  BY <1>1 DEF SeedLinks, Link
<1>3. ASSUME NEW l \in Promoted PROVE l \in Link /\ l.depth < depthLimit
  <2>1. PICK row \in Promotable(depthLimit) : l = [url |-> row.child, depth |-> row.depth + 1]
    BY DEF Promoted
  <2>2. row.child \in Url /\ row.depth \in Nat /\ row.depth + 1 < depthLimit
    BY <1>1, DepthAssumption DEF Promotable, BoundaryRow
  <2>3. row.depth + 1 \in Depth
    BY <1>1, <2>2
  <2> QED
    BY <2>1, <2>2, <2>3 DEF Link
<1>4. ASSUME NEW d \in 1 .. depthLimit - 1, NEW u \in LostChildren(d - 1)
      PROVE  [url |-> u, depth |-> d] \in Link /\ d < depthLimit
  <2>1. u \in Url
    BY <1>1 DEF LostChildren, BoundaryRow
  <2>2. d \in Depth /\ d < depthLimit
    BY <1>1
  <2> QED
    BY <2>1, <2>2 DEF Link
<1> QED
  BY <1>2, <1>3, <1>4

\* Every step of the start of a session is good.
LEMMA StartStepGood ==
  ASSUME IInv, StartStep
  PROVE  Good
<1> USE DEF IInv, workers
<1>1. UNCHANGED workers => WorkersOK'
  BY DEF WorkersOK, JobHeld
<1>2. depthLimit \in Nat \ {0} /\ depthLimit \in Depth /\ 0 .. depthLimit \subseteq Depth
  BY EngineAssumption DEF SessionOK
<1>3. CASE StartFresh
  <2>1. SessionOK'
    BY <1>3, TodoFound DEF StartFresh, SessionOK, TodoWithin, Starting
  <2> QED
    BY <1>1, <1>3, <2>1 DEF StartFresh, Good, Next
<1>4. CASE Resume
  <2>1. SessionOK'
    BY <1>4 DEF Resume, MainGoto, SessionOK, TodoWithin, Starting
  <2> QED
    BY <1>1, <1>2, <1>4, <2>1 DEF Resume, Good, Next
<1>5. CASE Heal
  <2>1. PICK gaps \in SUBSET (1 .. depthLimit - 1) :
          todo' = UNION {{[url |-> u, depth |-> d] : u \in LostChildren(d - 1)} : d \in gaps}
    BY <1>5 DEF Heal
  <2>2. \A l \in todo' : l \in Link /\ l.depth < depthLimit
    BY <2>1, TodoFound
  <2>3. SessionOK'
    BY <1>5, <2>2 DEF Heal, SessionOK, TodoWithin, Starting
  <2> QED
    BY <1>1, <1>5, <2>3 DEF Heal, Good
<1>6. CASE Promote
  <2>1. SessionOK'
    BY <1>6, TodoFound DEF Promote, SessionOK, TodoWithin, Starting
  <2> QED
    BY <1>1, <1>2, <1>6, <2>1 DEF Promote, Good, Next
<1>7. CASE Seed
  <2>1. SessionOK'
    BY <1>7, TodoFound DEF Seed, SessionOK, TodoWithin, Starting
  <2> QED
    BY <1>1, <1>7, <2>1 DEF Seed, Good
<1>8. CASE EnqueueTodo
  <2>1. PICK l \in todo : Admit(None, l.url, l.depth) /\ todo' = todo \ {l}
    BY <1>8 DEF EnqueueTodo
  <2>2. l.url \in Url /\ l.depth \in Nat /\ l.depth < depthLimit
    BY <1>8, DepthAssumption DEF EnqueueTodo, SessionOK, TodoWithin, Link
  <2>3. [Next]_db
    BY <2>1, <2>2, AdmitIsNext DEF SessionOK
  <2>4. SessionOK'
    BY <1>8, <2>1 DEF EnqueueTodo, SessionOK, TodoWithin
  <2> QED
    BY <1>1, <1>8, <2>3, <2>4 DEF EnqueueTodo, Good
<1>9. CASE DropTodo
  <2>1. SessionOK'
    BY <1>9 DEF DropTodo, SessionOK, TodoWithin
  <2> QED
    BY <1>1, <1>9, <2>1 DEF DropTodo, Good
<1>10. CASE StartWorkers
  <2>1. SessionOK'
    BY <1>10 DEF StartWorkers, MainGoto, SessionOK, TodoWithin, Looping
  <2>2. WorkersOK'
    BY <1>10 DEF StartWorkers, WorkersOK, JobHeld, PC, Chain
  <2> QED
    BY <1>10, <2>1, <2>2 DEF StartWorkers, Good
<1> QED
  BY <1>3, <1>4, <1>5, <1>6, <1>7, <1>8, <1>9, <1>10 DEF StartStep

\* Steps of the main loop that leave the tables and the workers alone
LEMMA MainStepGood ==
  ASSUME IInv, UNCHANGED <<db, pc, job>>, cancelled' \subseteq Worker,
         UNCHANGED <<depthLimit, paused, todo, sitemap, sessions, faults>>,
         stop' \in BOOLEAN,
         main' \in Looping \cup Stopping \cup Ended \/ main' = main
  PROVE  Good
<1>1. WorkersOK'
  BY DEF IInv, WorkersOK, JobHeld
<1>2. SessionOK'
  BY DEF IInv, SessionOK, TodoWithin, Looping, Stopping, Ended
<1> QED
  BY <1>1, <1>2 DEF Good

\* Every step of the main loop, the shutdown, the user and the monitors is good.
LEMMA SessionStep ==
  ASSUME IInv,
         \/ Start \/ LoopStep \/ Abandon \/ StuckInFlight \/ ShutdownStep
         \/ RequestStop \/ RequestPause \/ RequestResume
         \/ RetryMonitor \/ ReportSitemapUrl
         \/ Crash
  PROVE  Good
<1>1. WorkersOK /\ SessionOK /\ cancelled \subseteq Worker /\ stop \in BOOLEAN /\ Live \subseteq Worker
  BY DEF IInv, WorkersOK, SessionOK, Live
<1>2. UNCHANGED workers => WorkersOK'
  BY <1>1 DEF WorkersOK, JobHeld, workers
<1>3. CASE Start
  <2>1. SessionOK'
    <3>1. stop' \in BOOLEAN /\ paused' \in BOOLEAN
      BY <1>3, Zenon DEF Start
    <3>2. sessions' \in 0 .. MaxSessions
      BY <1>1, <1>3, EngineAssumption DEF Start, SessionOK
    <3>3. /\ main' \in Starting /\ main' \notin {"heal", "promote", "seed"}
          /\ depthLimit' \in DepthLimit
          /\ todo' \subseteq Link /\ sitemap' \subseteq SitemapUrls
          /\ faults' \in 0 .. MaxFaults
      BY <1>1, <1>3 DEF Start, SessionOK, Starting
    <3> QED
      BY <3>1, <3>2, <3>3 DEF SessionOK
  <2> QED
    BY <1>2, <1>3, <2>1 DEF Start, Next, Good
<1>4. CASE LoopStep
  BY <1>1, <1>4, MainStepGood
     DEF LoopStep, ReadQueue, ReadInFlight, NaturalEnd, NotYet, SeeStop, MainGoto, workers,
         Looping, Stopping
<1>5. CASE Abandon \/ StuckInFlight
  BY <1>1, <1>5, MainStepGood DEF Abandon, StuckInFlight, MainGoto, workers, Stopping
<1>6. CASE CancelWorkers \/ JoinTimeout
  BY <1>1, <1>6, MainStepGood DEF CancelWorkers, JoinTimeout, MainGoto, session, Stopping
<1>7. CASE Close
  <2>1. SessionOK'
    BY <1>1, <1>7 DEF Close, MainGoto, SessionOK, TodoWithin, Ended
  <2> QED
    BY <1>2, <1>7, <2>1 DEF Close, Next, Good
<1>8. CASE RequestStop
  <2>1. SessionOK'
    BY <1>1, <1>8 DEF RequestStop, SessionOK, TodoWithin
  <2> QED
    BY <1>2, <1>8, <2>1 DEF RequestStop, Good
<1>9. CASE RequestPause \/ RequestResume
  <2>1. SessionOK'
    BY <1>1, <1>9 DEF RequestPause, RequestResume, SessionOK, TodoWithin
  <2> QED
    BY <1>2, <1>9, <2>1 DEF RequestPause, RequestResume, Good
<1>10. CASE RetryMonitor
  <2>1. SessionOK' /\ WorkersOK'
    BY <1>1, <1>10 DEF RetryMonitor, engine, SessionOK, TodoWithin, WorkersOK, JobHeld
  <2> QED
    BY <1>10, <2>1 DEF RetryMonitor, Next, Good
<1>11. CASE ReportSitemapUrl
  <2>1. PICK u \in sitemap, d \in Depth : Admit(None, u, d + 1) /\ sitemap' = sitemap \ {u}
    BY <1>11 DEF ReportSitemapUrl
  <2>2. u \in Url /\ depthLimit \in DepthLimit
    BY <1>1, <2>1, EngineAssumption DEF SessionOK
  <2>3. d + 1 \in Nat /\ (d + 1) - 1 \in Depth
    BY <2>1, DepthAssumption
  <2>4. [Next]_db
    BY <2>1, <2>2, <2>3, AdmitIsNext
  <2>5. SessionOK'
    BY <1>1, <1>11, <2>1 DEF ReportSitemapUrl, SessionOK, TodoWithin
  <2> QED
    BY <1>2, <1>11, <2>4, <2>5 DEF ReportSitemapUrl, Good
<1>12. CASE Crash
  <2>1. SessionOK'
    BY <1>1, <1>12 DEF Crash, SessionOK, TodoWithin, Ended
  <2>2. WorkersOK'
    BY <1>12 DEF Crash, WorkersOK, JobHeld, PC, Chain
  <2> QED
    BY <1>12, <2>1, <2>2 DEF Crash, Good
<1> QED
  BY <1>3, <1>4, <1>5, <1>6, <1>7, <1>8, <1>9, <1>10, <1>11, <1>12 DEF ShutdownStep

-----------------------------------------------------------------------------
(* The theorems.                                                             *)

\* All steps are.
LEMMA EveryStepGood == IInv /\ EngineNext => Good
BY WorkerStep, StartStepGood, SessionStep DEF EngineNext

\* So the invariant holds for ever.
LEMMA IInvHolds == EngineSpec => []IInv
<1>1. EngineInit => IInv
  <2> SUFFICES ASSUME EngineInit PROVE IInv
    OBVIOUS
  <2>1. TypeOK
    BY RetryLimitAssumption DEF EngineInit, Init, TypeOK
  <2>2. WorkersOK
    BY DEF EngineInit, WorkersOK, JobHeld, PC, Chain
  <2>3. SessionOK
    <3>1. /\ MaxSessions \in Nat /\ MaxFaults \in Nat
          /\ 0 \in 0 .. MaxSessions /\ MaxFaults \in 0 .. MaxFaults
      BY EngineAssumption
    <3>2. stop \in BOOLEAN /\ paused \in BOOLEAN
      BY Zenon DEF EngineInit
    <3>3. /\ main \in Ended /\ main \notin {"heal", "promote", "seed"}
          /\ depthLimit \in DepthLimit
          /\ todo \subseteq Link /\ sitemap \subseteq SitemapUrls
          /\ sessions \in 0 .. MaxSessions /\ faults \in 0 .. MaxFaults
      BY <3>1 DEF EngineInit, Ended
    <3> QED
      BY <3>2, <3>3 DEF SessionOK
  <2> QED
    BY <2>1, <2>2, <2>3 DEF IInv
<1>2. IInv /\ [EngineNext]_vars => IInv'
  <2> SUFFICES ASSUME IInv, [EngineNext]_vars PROVE IInv'
    OBVIOUS
  <2>1. CASE EngineNext
    <3>1. Good
      BY <2>1, EveryStepGood
    <3>2. TypeOK'
      BY <3>1, TypeStep DEF Good, IInv
    <3> QED
      BY <3>1, <3>2 DEF Good, IInv
  <2>2. CASE UNCHANGED vars
    BY <2>2 DEF vars, db, engine, IInv, TypeOK, WorkersOK, JobHeld, SessionOK, TodoWithin
  <2> QED
    BY <2>1, <2>2
<1> QED
  BY <1>1, <1>2, PTL DEF EngineSpec

\* The engine keeps its types over sessions, stops, faults and crashes: above
\* all, a worker that completes, requeues or settles a URL has one to settle.
THEOREM EngineTypeCorrect == EngineSpec => []EngineTypeOK
<1>1. IInv => EngineTypeOK
  BY DEF IInv, WorkersOK, SessionOK, EngineTypeOK
<1> QED
  BY <1>1, IInvHolds, PTL

\* Whatever start-up, workers, main loop and background tasks do to the
\* tables is a call of the store with a depth it knows; only an empty crawl is
\* reset.  So what is proved of the store holds of every crawl.
THEOREM EngineUsesStore == EngineSpec => StoreSpec
<1>1. EngineInit => Init
  BY DEF EngineInit
<1>2. IInv /\ [EngineNext]_vars => [Next]_db
  BY EveryStepGood DEF Good, vars, db
<1> QED
  BY <1>1, <1>2, IInvHolds, PTL DEF EngineSpec, Spec, StoreSpec

\* No crash, stop or fault makes a crawl drop a URL it knows or queue one that
\* is done: the tables of a running engine implement the ledger.
THEOREM EngineKeepsLedger == EngineSpec => LedgerSpec /\ CompletedStaysDone /\ []QueueInFlightDisjoint
BY EngineUsesStore, ImplementsLedger, CompletionPermanent, Disjointness DEF StoreSpec

-----------------------------------------------------------------------------
(* Who holds which URL.  Without infrastructure errors, exceptions and chain *)
(* timeouts, workers never share a URL and no URL in flight is without a     *)
(* worker; with them, a closed session is still clean.                       *)

\* The workers are at work: no session is being started or closed.
Undisturbed == main \in Looping \cup {"drain"}

\* Workers that owe the in_flight table something: to complete or hand back
\* their URL, or to log it as failed.
Holding ==
  {i \in Worker : \/ pc[i] \in {"acquire", "robots", "rate", "fetch", "finalize"}
                  \/ pc[i] \in {"return", "settle"} /\ job[i].disp = "failed"}

\* URLs that no pop, no link and no reclaim can hand out.
Kept == (InFlight \cup completed) \ Queued

\* Every held URL is kept, and is held once.
Apart ==
  \A i \in Holding : /\ job[i].url \in Kept
                     /\ \A j \in Holding : job[i].url = job[j].url => i = j

Held == \A u \in InFlight : \E i \in Holding : job[i].url = u

\* Links are followed only of a page that was completed.
LinksCompleted == \A i \in Worker : pc[i] = "links" => job[i].disp = "completed"

Calm ==
  /\ faults = 0
  /\ cancelled \subseteq Live
  /\ main # "join" => cancelled = {}
  /\ main \in Starting \cup Ended => \A i \in Worker : pc[i] \in {"off", "done"}
  /\ main \in Starting => InFlight = {}

OwnInv == Calm /\ (Undisturbed => Apart /\ Held /\ LinksCompleted)

-----------------------------------------------------------------------------
(* What the methods of the store do to kept URLs.                            *)

\* To push a URL loses none that is kept, and puts none in flight.
LEMMA PushKeeps ==
  ASSUME TypeOK, NEW u \in Url, NEW d, PushToQueueSingle(u, d)
  PROVE  Kept \subseteq Kept' /\ InFlight' \subseteq InFlight
BY DEF TypeOK, PushToQueueSingle, CanPushSingle, Known, Kept, Queued, InFlight

\* Nor does the admission of a link,
LEMMA AdmitKeeps ==
  ASSUME TypeOK, NEW p, NEW u \in Url, NEW d, Admit(p, u, d)
  PROVE  Kept \subseteq Kept' /\ InFlight' \subseteq InFlight
<1>1. ASSUME UNCHANGED <<queue, inFlight, completed>>
      PROVE  Kept \subseteq Kept' /\ InFlight' \subseteq InFlight
  BY <1>1 DEF Kept, Queued, InFlight
<1>2. CASE PushToQueueSingle(u, d)
  BY <1>2, PushKeeps
<1> QED
  BY <1>1, <1>2 DEF Admit, SaveBoundaryLink, db

\* nor taking a URL back for its retry.
LEMMA ReclaimKeeps ==
  ASSUME TypeOK, NEW u \in Url, AtomicRetryReclaim(u)
  PROVE  Kept \subseteq Kept' /\ InFlight' \subseteq InFlight
BY DEF TypeOK, AtomicRetryReclaim, Known, Kept, Queued, InFlight

\* A requeue takes at most its own URL out of what is kept, and out of flight.
LEMMA RequeueKeeps ==
  ASSUME TypeOK, NEW u \in Url, NEW d, PushToQueueAsOwner(u, d) \/ TryScheduleRetry(u, d)
  PROVE  Kept \ {u} \subseteq Kept' /\ InFlight' \subseteq InFlight \ {u}
BY DEF TypeOK, PushToQueueAsOwner, TryScheduleRetry, Kept, Queued, InFlight

\* So does the completion of a page,
LEMMA CompleteKeeps ==
  ASSUME TypeOK, NEW asked \in Url, NEW page \in Url, MarkCompleted(asked, page)
  PROVE  Kept \ {asked} \subseteq Kept' /\ InFlight' \subseteq InFlight \ {asked}
BY DEF TypeOK, MarkCompleted, Kept, Queued, InFlight

\* and its failure.
LEMMA FailKeeps ==
  ASSUME TypeOK, NEW u \in Url, NEW d, LogFailure(u, d)
  PROVE  Kept \ {u} \subseteq Kept' /\ InFlight' \subseteq InFlight \ {u}
BY DEF TypeOK, LogFailure, Kept, Queued, InFlight

-----------------------------------------------------------------------------
(* The two kinds of step a worker takes, the pop apart.                      *)

OnlyWorker(i) == \A j \in Worker \ {i} : pc'[j] = pc[j] /\ job'[j] = job[j]

Stays(i) ==
  /\ i \in Holding' <=> i \in Holding
  /\ i \in Holding => job'[i].url = job[i].url
  /\ Kept \subseteq Kept' /\ InFlight' \subseteq InFlight

HandsBack(i) ==
  /\ i \in Holding /\ i \notin Holding'
  /\ Kept \ {job[i].url} \subseteq Kept'
  /\ InFlight' \subseteq InFlight \ {job[i].url}

\* A step of one worker leaves the others with what they hold.
LEMMA OthersHold ==
  ASSUME NEW i \in Worker, OnlyWorker(i), NEW j \in Worker \ {i}
  PROVE  (j \in Holding' <=> j \in Holding) /\ job'[j] = job[j]
BY DEF OnlyWorker, Holding

\* The workers stay apart when one goes on with its job,
LEMMA StaysKeeps ==
  ASSUME Apart, Held, NEW i \in Worker, OnlyWorker(i), Stays(i)
  PROVE  Apart' /\ Held'
<1>1. Holding' = Holding /\ \A j \in Holding : job'[j].url = job[j].url
  BY OthersHold DEF Stays, Holding
<1> QED
  BY <1>1 DEF Apart, Held, Stays

\* and when one hands it back.
LEMMA HandsBackKeeps ==
  ASSUME Apart, Held, NEW i \in Worker, OnlyWorker(i), HandsBack(i)
  PROVE  Apart' /\ Held'
<1>1. Holding' = Holding \ {i} /\ \A j \in Holding' : job'[j].url = job[j].url
  BY OthersHold DEF HandsBack, Holding
<1>2. \A j \in Holding' : job[j].url \in Kept \ {job[i].url}
  BY <1>1 DEF Apart, HandsBack
<1>3. Apart'
  BY <1>1, <1>2 DEF Apart, HandsBack
<1>4. Held'
  BY <1>1 DEF Held, HandsBack
<1> QED
  BY <1>3, <1>4

\* A worker that only goes to another step goes on with its job.
LEMMA GotoStays ==
  ASSUME IInv, NEW i \in Worker, NEW w, Goto(i, w), UNCHANGED <<db, job>>,
         \/ /\ pc[i] \in {"acquire", "robots", "rate", "fetch", "finalize"}
            /\ w \in {"acquire", "robots", "rate", "fetch", "finalize"}
         \/ /\ pc[i] \notin {"acquire", "robots", "rate", "fetch", "finalize", "return", "settle"}
            /\ w \notin {"acquire", "robots", "rate", "fetch", "finalize", "return", "settle"}
         \/ pc[i] = "return" /\ w = "settle"
         \/ pc[i] = "links" /\ w = "return" /\ job[i].disp # "failed"
  PROVE  OnlyWorker(i) /\ Stays(i)
<1>1. pc \in [Worker -> PC]
  BY DEF IInv, WorkersOK
<1> QED
  BY <1>1 DEF Goto, OnlyWorker, Stays, Holding, Kept, InFlight, Queued, db

\* A chain that ends by a requeue gives its URL back; refused, it holds on to
\* it until the failure is logged.
LEMMA EndSplits ==
  ASSUME IInv, NEW i \in Worker, job[i] \in Job, NEW disp, NEW w, End(i, disp, w)
  PROVE  /\ OnlyWorker(i)
         /\ pc'[i] = w /\ job'[i].url = job[i].url /\ job'[i].disp = disp
<1>1. pc \in [Worker -> PC] /\ job \in [Worker -> Job \cup {None}]
  BY DEF IInv, WorkersOK
<1>2. job' = [job EXCEPT ![i] = [job[i] EXCEPT !.disp = disp]]
  BY <1>1 DEF End
<1>3. job'[i] = [job[i] EXCEPT !.disp = disp]
  BY <1>1, <1>2
<1>4. job'[i].url = job[i].url /\ job'[i].disp = disp
  BY <1>3 DEF Job
<1> QED
  BY <1>1, <1>2, <1>4 DEF End, OnlyWorker

\* A worker that requeues its page goes on with it or hands it back.
LEMMA RequeueSteps ==
  ASSUME IInv, NEW i \in Worker, i \in Holding, job[i] \in Job, NEW w \in {"return", "settle"},
         \/ FreeRequeueOrFail(i) /\ w = "return"
         \/ ScheduledRequeueOrFail(i, w)
  PROVE  OnlyWorker(i) /\ (Stays(i) \/ HandsBack(i))
<1>1. job[i].url \in Url /\ TypeOK
  BY DEF Job, IInv
<1>2. CASE /\ End(i, "requeued", w)
           /\ \/ PushToQueueAsOwner(job[i].url, job[i].depth)
              \/ TryScheduleRetry(job[i].url, job[i].depth)
  <2>1. OnlyWorker(i) /\ i \notin Holding'
    BY <1>2, EndSplits DEF Holding
  <2> QED
    BY <1>1, <1>2, <2>1, RequeueKeeps DEF HandsBack
<1>3. CASE End(i, "failed", w) /\ UNCHANGED db
  <2>1. OnlyWorker(i) /\ i \in Holding' /\ job'[i].url = job[i].url
    BY <1>3, EndSplits DEF Holding
  <2> QED
    BY <1>3, <2>1 DEF Stays, Kept, InFlight, Queued, db
<1> QED
  BY <1>2, <1>3 DEF FreeRequeueOrFail, ScheduledRequeueOrFail

\* The popped URL was queued, so nobody holds it.
LEMMA PopKeeps ==
  ASSUME IInv, Apart, Held, NEW i \in Worker, Pop(i)
  PROVE  Apart' /\ Held'
<1>1. PICK u \in Url : PopFromDomain(u) /\ job' = [job EXCEPT ![i] = NewJob(u)]
  BY DEF Pop
<1>2. /\ TypeOK /\ pc \in [Worker -> PC] /\ job \in [Worker -> Job \cup {None}]
      /\ i \notin Holding
  BY DEF IInv, WorkersOK, Pop, At, Holding
<1>3. /\ u \in Queued /\ u \notin Kept
      /\ Kept \cup {u} \subseteq Kept' /\ InFlight' \subseteq InFlight \cup {u}
  BY <1>1, <1>2, NoneAssumption, DepthAssumption DEF PopFromDomain, Kept, InFlight, Queued, TypeOK
<1>4. /\ OnlyWorker(i) /\ i \in Holding' /\ job'[i].url = u
  BY <1>1, <1>2 DEF Pop, Goto, OnlyWorker, NewJob, Holding
<1>5. Holding' = Holding \cup {i} /\ \A j \in Holding : job'[j].url = job[j].url
  BY <1>2, <1>4, OthersHold DEF Holding
<1>6. Apart'
  BY <1>2, <1>3, <1>4, <1>5 DEF Apart
<1>7. Held'
  BY <1>3, <1>4, <1>5 DEF Held
<1> QED
  BY <1>6, <1>7

\* Without faults no step of a worker makes two of them hold one URL.
LEMMA WorkerKeepsApart ==
  ASSUME IInv, faults = 0, cancelled = {}, Apart, Held, LinksCompleted,
         NEW i \in Worker, ChainStep(i) \/ FaultStep(i)
  PROVE  Apart' /\ Held'
<1> SUFFICES ASSUME ~Pop(i) PROVE OnlyWorker(i) /\ (Stays(i) \/ HandsBack(i))
  BY PopKeeps, StaysKeeps, HandsBackKeeps
<1>a. /\ TypeOK
      /\ pc \in [Worker -> PC] /\ job \in [Worker -> Job \cup {None}]
      /\ pc[i] \in Chain \cup {"settle"} => job[i] \in Job
  BY DEF IInv, WorkersOK, JobHeld
<1>b. pc[i] \in {"acquire", "robots", "rate", "fetch", "finalize"} =>
        i \in Holding /\ job[i] \in Job /\ job[i].url \in Url /\ job[i].page \in Url
  BY <1>a DEF Holding, Chain, Job
<1>f. ~Fault /\ i \notin cancelled
  BY DEF Fault
<1>1. CASE EnterLoop(i) \/ LeavePause(i) \/ PopNothing(i) \/ ExitLoop(i)
  BY <1>1, GotoStays DEF EnterLoop, LeavePause, PopNothing, ExitLoop, At
<1>2. CASE Acquire(i) \/ RobotsAllow(i) \/ RateGrant(i)
  BY <1>2, GotoStays DEF Acquire, RobotsAllow, RateGrant, At
<1>3. CASE AcquireRefused(i) \/ RateStopped(i)
  BY <1>3, <1>b, RequeueSteps DEF AcquireRefused, RateStopped, At
<1>4. CASE RobotsDeny(i)
  <2>1. OnlyWorker(i) /\ i \notin Holding'
    BY <1>4, <1>b, EndSplits DEF RobotsDeny, At, Holding
  <2> QED
    BY <1>4, <1>a, <1>b, <2>1, CompleteKeeps DEF RobotsDeny, At, HandsBack
<1>5. CASE Fetched(i)
  <2>1. PICK page \in Redirects[job[i].url] : \E links \in {Links[page], {}} :
          job' = [job EXCEPT ![i].page = page, ![i].links = links]
    BY <1>5 DEF Fetched
  <2>2. PICK links \in {Links[page], {}} :
          job' = [job EXCEPT ![i].page = page, ![i].links = links]
    BY <2>1
  <2>3. job' = [job EXCEPT ![i] = [job[i] EXCEPT !.page = page, !.links = links]]
    BY <1>a, <2>2
  <2>4. job'[i] = [job[i] EXCEPT !.page = page, !.links = links]
    BY <1>a, <2>3
  <2>5. job'[i].url = job[i].url
    BY <1>5, <1>b, <2>4 DEF Fetched, At, Job
  <2>6. OnlyWorker(i) /\ i \in Holding'
    BY <1>5, <1>a, <2>3 DEF Fetched, Goto, OnlyWorker, Holding
  <2> QED
    BY <1>5, <1>b, <2>5, <2>6 DEF Fetched, At, Stays, Kept, InFlight, Queued, db
<1>6. CASE FetchError(i)
  BY <1>6, <1>b, RequeueSteps DEF FetchError, At
<1>7. CASE Finalize(i)
  <2>1. OnlyWorker(i) /\ i \notin Holding'
    BY <1>7, <1>b, EndSplits DEF Finalize, At, Holding
  <2> QED
    BY <1>7, <1>a, <1>b, <2>1, CompleteKeeps DEF Finalize, At, HandsBack
<1>8. CASE FinalizeTooLate(i)
  <2>1. OnlyWorker(i) /\ i \in Holding' /\ job'[i].url = job[i].url
    BY <1>8, <1>b, EndSplits DEF FinalizeTooLate, At, Holding
  <2> QED
    BY <1>8, <1>b, <2>1 DEF FinalizeTooLate, At, Stays, Kept, InFlight, Queued, db
<1>9. CASE EnqueueLink(i)
  <2>1. job[i] \in Job
    BY <1>9, <1>a DEF EnqueueLink, At, Chain
  <2>2. PICK u \in job[i].links : Admit(job[i].url, u, job[i].depth + 1)
    BY <1>9 DEF EnqueueLink
  <2>3. Kept \subseteq Kept' /\ InFlight' \subseteq InFlight
    BY <1>a, <2>1, <2>2, AdmitKeeps DEF Job
  <2>4. OnlyWorker(i) /\ i \notin Holding /\ i \notin Holding'
    BY <1>9, <1>a DEF EnqueueLink, At, OnlyWorker, Holding
  <2> QED
    BY <2>3, <2>4 DEF Stays
<1>10. CASE LinksDone(i)
  BY <1>10, GotoStays DEF LinksDone, At, LinksCompleted
<1>11. CASE ChainReturns(i)
  BY <1>11, GotoStays DEF ChainReturns, At
<1>12. CASE Settle(i)
  <2>1. /\ OnlyWorker(i) /\ i \notin Holding'
        /\ job[i].url \in Url
        /\ i \in Holding <=> job[i].disp = "failed"
    BY <1>12, <1>a DEF Settle, At, Free, OnlyWorker, Holding, Job
  <2>2. CASE job[i].disp = "failed"
    BY <1>12, <1>a, <2>1, <2>2, FailKeeps DEF Settle, HandsBack
  <2>3. CASE job[i].disp # "failed"
    BY <1>12, <2>1, <2>3 DEF Settle, Stays, Kept, InFlight, Queued, db
  <2> QED
    BY <2>2, <2>3
<1> QED
  BY <1>1, <1>2, <1>3, <1>4, <1>5, <1>6, <1>7, <1>8, <1>9, <1>10, <1>11, <1>12, <1>f
     DEF ChainStep, FaultStep, Cancelled, FetchInfraError, ProcessorError, ChainTimeout, DatabaseError

\* Without faults links are queued only of pages that are completed.
LEMMA WorkerKeepsLinks ==
  ASSUME IInv, faults = 0, cancelled = {}, LinksCompleted,
         NEW i \in Worker, ChainStep(i) \/ FaultStep(i)
  PROVE  LinksCompleted'
<1>a. /\ pc \in [Worker -> PC] /\ job \in [Worker -> Job \cup {None}]
      /\ pc[i] \in Chain \cup {"settle"} => job[i] \in Job
  BY DEF IInv, WorkersOK, JobHeld
<1>1. CASE Finalize(i)
  <2>1. OnlyWorker(i) /\ job'[i].disp = "completed"
    BY <1>1, <1>a, EndSplits DEF Finalize, At, Chain
  <2> QED
    BY <2>1 DEF OnlyWorker, LinksCompleted
<1>2. CASE EnqueueLink(i)
  <2>1. job[i] \in Job /\ job[i].disp = "completed"
    BY <1>2, <1>a DEF EnqueueLink, At, Chain, LinksCompleted
  <2>2. PICK u \in job[i].links : job' = [job EXCEPT ![i].links = @ \ {u}]
    BY <1>2 DEF EnqueueLink
  <2>3. job' = [job EXCEPT ![i] = [job[i] EXCEPT !.links = @ \ {u}]]
    BY <1>a, <2>2
  <2>4. job'[i] = [job[i] EXCEPT !.links = @ \ {u}]
    BY <1>a, <2>3
  <2>5. job'[i].disp = "completed"
    BY <2>1, <2>4 DEF Job
  <2>6. UNCHANGED pc /\ \A j \in Worker \ {i} : job'[j] = job[j]
    BY <1>2, <1>a, <2>3 DEF EnqueueLink
  <2> QED
    BY <2>5, <2>6 DEF LinksCompleted
<1>3. ASSUME pc'[i] # "links", OnlyWorker(i) PROVE LinksCompleted'
  BY <1>3 DEF OnlyWorker, LinksCompleted
<1>4. ASSUME NEW w \in PC \ {"links"},
             \/ Goto(i, w) /\ UNCHANGED job
             \/ Free(i, w)
             \/ \E disp \in Disposition : End(i, disp, w)
      PROVE  LinksCompleted'
  BY <1>a, <1>3, <1>4 DEF Goto, Free, End, OnlyWorker
<1>5. CASE \/ EnterLoop(i) \/ LeavePause(i) \/ PopNothing(i) \/ ExitLoop(i)
           \/ Acquire(i) \/ RobotsAllow(i) \/ RateGrant(i) \/ LinksDone(i) \/ ChainReturns(i)
  BY <1>4, <1>5
     DEF EnterLoop, LeavePause, PopNothing, ExitLoop, Acquire, RobotsAllow, RateGrant, LinksDone,
         ChainReturns, PC, Chain
<1>6. CASE \/ AcquireRefused(i) \/ RateStopped(i) \/ FetchError(i)
           \/ RobotsDeny(i) \/ FinalizeTooLate(i) \/ Settle(i)
  BY <1>4, <1>6
     DEF AcquireRefused, RateStopped, FetchError, RobotsDeny, FinalizeTooLate, Settle,
         FreeRequeueOrFail, ScheduledRequeueOrFail, Disposition, PC, Chain
<1>7. CASE Pop(i) \/ Fetched(i)
  BY <1>a, <1>3, <1>7 DEF Pop, Fetched, Goto, OnlyWorker
<1>8. ~Fault /\ i \notin cancelled
  BY DEF Fault
<1> QED
  BY <1>1, <1>2, <1>5, <1>6, <1>7, <1>8
     DEF ChainStep, FaultStep, Cancelled, FetchInfraError, ProcessorError, ChainTimeout, DatabaseError

-----------------------------------------------------------------------------
(* Every step of the engine.                                                 *)

\* Only a worker with nothing in hand, or with a cancellation behind it, ends.
LEMMA WorkerKeepsCalm ==
  ASSUME IInv, Calm, NEW i \in Worker, ChainStep(i) \/ FaultStep(i)
  PROVE  Calm' /\ main' = main /\ main \notin Starting \cup Ended
<1>1. pc \in [Worker -> PC]
  BY DEF IInv, WorkersOK
<1>2. ~Fault
  BY DEF Calm, Fault
<1>3. \A j \in Worker \ {i} : pc'[j] = pc[j]
  BY <1>1, <1>2
     DEF ChainStep, FaultStep, EnterLoop, LeavePause, Pop, PopNothing, Acquire, AcquireRefused,
         RobotsAllow, RobotsDeny, RateGrant, RateStopped, Fetched, FetchInfraError, FetchError,
         Finalize, FinalizeTooLate, EnqueueLink, LinksDone, ChainReturns, Settle, ExitLoop,
         Cancelled, HandleCancel, ProcessorError, ChainTimeout, DatabaseError,
         FreeRequeueOrFail, ScheduledRequeueOrFail, Goto, Free, End
<1>4. pc[i] \notin {"off", "done"} /\ UNCHANGED <<main, faults>>
  BY <1>2
     DEF ChainStep, FaultStep, EnterLoop, LeavePause, Pop, PopNothing, Acquire, AcquireRefused,
         RobotsAllow, RobotsDeny, RateGrant, RateStopped, Fetched, FetchInfraError, FetchError,
         Finalize, FinalizeTooLate, EnqueueLink, LinksDone, ChainReturns, Settle, ExitLoop,
         Cancelled, HandleCancel, ProcessorError, ChainTimeout, DatabaseError, At,
         control, session, NoFault, Chain
<1>5. cancelled' = cancelled \ {i}
  BY <1>2
     DEF ChainStep, FaultStep, EnterLoop, LeavePause, Pop, PopNothing, Acquire, AcquireRefused,
         RobotsAllow, RobotsDeny, RateGrant, RateStopped, Fetched, FetchInfraError, FetchError,
         Finalize, FinalizeTooLate, EnqueueLink, LinksDone, ChainReturns, Settle, ExitLoop,
         Cancelled, ProcessorError, ChainTimeout, DatabaseError, At, control
<1>6. main \notin Starting \cup Ended
  BY <1>4 DEF Calm
<1>7. cancelled' \subseteq Live'
  BY <1>3, <1>5 DEF Calm, Live
<1> QED
  BY <1>4, <1>5, <1>6, <1>7 DEF Calm

\* Nobody works during start-up, and nothing is in flight.
LEMMA StartKeeps ==
  ASSUME IInv, OwnInv, StartStep \/ Start
  PROVE  OwnInv'
<1>1. /\ TypeOK /\ faults = 0 /\ cancelled = {} /\ main \in Starting \cup Ended
      /\ \A i \in Worker : pc[i] \in {"off", "done"}
      /\ main \in Starting => InFlight = {}
  BY DEF IInv, OwnInv, Calm, StartStep, Start, Up, StartFresh, Resume, Heal, Promote, Seed,
         EnqueueTodo, DropTodo, StartWorkers, Starting, Ended
<1>2. ASSUME UNCHANGED <<workers, faults>>, main' \in Starting, InFlight' = {} PROVE OwnInv'
  BY <1>1, <1>2 DEF OwnInv, Calm, Live, workers, Undisturbed, Looping, Starting, Ended
<1>3. CASE StartFresh
  BY <1>2, <1>3 DEF StartFresh, ResetAll, InFlight, Starting
<1>4. CASE Resume \/ Heal \/ Promote \/ Seed \/ DropTodo
  <2>1. UNCHANGED <<inFlight, workers, faults>> /\ main \in Starting /\ main' \in Starting
    BY <1>4 DEF Resume, Heal, Promote, Seed, DropTodo, MainGoto, PurgeFailuresDepthGe,
                PromoteBoundaryLinks, db, Starting
  <2> QED
    BY <1>1, <1>2, <2>1 DEF InFlight
<1>5. CASE EnqueueTodo
  <2>1. PICK l \in todo : Admit(None, l.url, l.depth)
    BY <1>5 DEF EnqueueTodo
  <2>2. l.url \in Url /\ main \in Starting
    BY <1>5 DEF IInv, SessionOK, Link, EnqueueTodo, Starting
  <2>3. InFlight' \subseteq InFlight
    BY <1>1, <2>1, <2>2, AdmitKeeps
  <2> QED
    BY <1>1, <1>2, <1>5, <2>2, <2>3 DEF EnqueueTodo
<1>6. CASE StartWorkers
  <2>1. /\ main' = "run" /\ faults' = 0 /\ cancelled' = {} /\ InFlight' = {}
        /\ \A i \in Worker : pc'[i] = "idle"
    BY <1>1, <1>6 DEF StartWorkers, MainGoto, Starting, db, InFlight
  <2>2. Calm'
    BY <2>1 DEF Calm, Starting, Ended
  <2>3. (Apart /\ Held /\ LinksCompleted)'
    BY <2>1 DEF Apart, Held, LinksCompleted, Holding
  <2> QED
    BY <2>2, <2>3 DEF OwnInv
<1>7. CASE Start
  <2>1. InFlight' = {} /\ UNCHANGED <<workers, faults>> /\ main' \in Starting
    BY <1>7 DEF Start, OpenAndRecover, InFlight, Starting
  <2> QED
    BY <1>2, <2>1
<1> QED
  BY <1>3, <1>4, <1>5, <1>6, <1>7 DEF StartStep

\* The main loop, the user and the background tasks take no URL from a worker.
LEMMA SessionKeeps ==
  ASSUME IInv, OwnInv,
         \/ LoopStep \/ Abandon \/ StuckInFlight \/ ShutdownStep
         \/ RequestStop \/ RequestPause \/ RequestResume
         \/ RetryMonitor \/ ReportSitemapUrl
         \/ Crash
  PROVE  OwnInv'
<1>1. TypeOK /\ Calm /\ Live \subseteq Worker
  BY DEF IInv, OwnInv, Live
<1>2. ASSUME UNCHANGED <<pc, job, faults, cancelled>>, Undisturbed, Undisturbed',
             Kept \subseteq Kept', InFlight' \subseteq InFlight
      PROVE  OwnInv'
  <2>1. Calm'
    BY <1>1, <1>2 DEF Calm, Live, Undisturbed, Looping, Starting, Ended
  <2>2. Holding' = Holding
    BY <1>2 DEF Holding
  <2>3. (Apart /\ Held /\ LinksCompleted)'
    BY <1>2, <2>2 DEF OwnInv, Apart, Held, LinksCompleted
  <2> QED
    BY <2>1, <2>3 DEF OwnInv
<1>3. ASSUME UNCHANGED db PROVE Kept' = Kept /\ InFlight' = InFlight
  BY <1>3 DEF db, Kept, InFlight, Queued
<1>4. CASE LoopStep \/ Abandon \/ StuckInFlight
  <2>1. UNCHANGED <<db, pc, job, faults, cancelled>> /\ Undisturbed /\ Undisturbed'
    BY <1>4 DEF LoopStep, ReadQueue, ReadInFlight, NaturalEnd, NotYet, SeeStop, Abandon,
                StuckInFlight, MainGoto, workers, Undisturbed, Looping
  <2> QED
    BY <1>2, <1>3, <2>1
<1>5. CASE CancelWorkers \/ JoinTimeout
  <2>1. main' = "join" /\ faults' = 0 /\ cancelled' = Live' /\ UNCHANGED pc
    BY <1>1, <1>5 DEF CancelWorkers, JoinTimeout, MainGoto, session, Live, Calm
  <2> QED
    BY <2>1 DEF OwnInv, Calm, Undisturbed, Looping, Starting, Ended
<1>6. CASE Close
  <2>1. /\ main' = "closed" /\ faults' = 0 /\ cancelled' = {} /\ UNCHANGED pc
        /\ \A i \in Worker : pc[i] = "done"
    BY <1>1, <1>6 DEF Close, MainGoto, workers, Calm, Live
  <2> QED
    BY <2>1 DEF OwnInv, Calm, Undisturbed, Looping, Starting, Ended
<1>7. CASE RequestStop \/ RequestPause \/ RequestResume
  <2>1. UNCHANGED <<db, main, pc, job, faults, cancelled>>
    BY <1>7 DEF RequestStop, RequestPause, RequestResume, workers
  <2>2. Calm'
    BY <1>1, <1>3, <2>1 DEF Calm, Live
  <2>3. Undisturbed' <=> Undisturbed
    BY <2>1 DEF Undisturbed
  <2>4. CASE Undisturbed
    BY <1>2, <1>3, <2>1, <2>3, <2>4
  <2> QED
    BY <2>2, <2>3, <2>4 DEF OwnInv
<1>8. CASE RetryMonitor
  BY <1>1, <1>2, <1>8, ReclaimKeeps DEF RetryMonitor, engine, Undisturbed
<1>9. CASE ReportSitemapUrl
  <2>1. PICK u \in sitemap, d \in Depth : Admit(None, u, d + 1)
    BY <1>9 DEF ReportSitemapUrl
  <2>2. u \in Url /\ d + 1 \in Nat
    BY <2>1, EngineAssumption, DepthAssumption DEF IInv, SessionOK
  <2>3. Kept \subseteq Kept' /\ InFlight' \subseteq InFlight
    BY <1>1, <2>1, <2>2, AdmitKeeps
  <2>4. UNCHANGED <<main, pc, job, faults, cancelled>> /\ main \notin Starting \cup Ended
    BY <1>9 DEF ReportSitemapUrl, workers, Looping, Stopping, Starting, Ended
  <2>5. CASE Undisturbed
    BY <1>2, <2>3, <2>4, <2>5 DEF Undisturbed
  <2>6. CASE ~Undisturbed
    BY <1>1, <2>4, <2>6 DEF OwnInv, Calm, Live, Undisturbed, Starting, Ended
  <2> QED
    BY <2>5, <2>6
<1>10. CASE Crash
  BY <1>1, <1>10 DEF Crash, OwnInv, Calm, Live, Undisturbed, Looping, Starting, Ended
<1> QED
  BY <1>4, <1>5, <1>6, <1>7, <1>8, <1>9, <1>10 DEF ShutdownStep

\* All that is known of ownership is kept by every step of a worker.
LEMMA WorkerKeeps ==
  ASSUME IInv, OwnInv, NEW i \in Worker, ChainStep(i) \/ FaultStep(i)
  PROVE  OwnInv'
<1>1. Calm' /\ main' = main
  BY WorkerKeepsCalm DEF OwnInv
<1>2. CASE Undisturbed
  <2>1. faults = 0 /\ cancelled = {} /\ Apart /\ Held /\ LinksCompleted
    BY <1>2 DEF OwnInv, Calm, Undisturbed, Looping
  <2> QED
    BY <1>1, <2>1, WorkerKeepsApart, WorkerKeepsLinks DEF OwnInv
<1>3. CASE ~Undisturbed
  BY <1>1, <1>3 DEF OwnInv, Undisturbed
<1> QED
  BY <1>2, <1>3

\* Where nothing fails it holds for ever.
LEMMA OwnInvHolds == EngineSpec /\ MaxFaults = 0 => []OwnInv
<1> SUFFICES ASSUME MaxFaults = 0 PROVE EngineSpec => []OwnInv
  OBVIOUS
<1>1. EngineInit => OwnInv
  BY DEF EngineInit, Init, OwnInv, Calm, Live, Undisturbed, Looping, Starting, Ended
<1>2. IInv /\ OwnInv /\ [EngineNext]_vars => OwnInv'
  <2>1. ASSUME IInv, OwnInv, EngineNext PROVE OwnInv'
    BY <2>1, WorkerKeeps, StartKeeps, SessionKeeps DEF EngineNext
  <2>2. ASSUME OwnInv, UNCHANGED vars PROVE OwnInv'
    BY <2>2 DEF vars, db, engine, OwnInv, Calm, Live, Undisturbed, Apart, Held, LinksCompleted,
                Holding, Kept, InFlight, Queued
  <2> QED
    BY <2>1, <2>2
<1> QED
  BY <1>1, <1>2, IInvHolds, PTL DEF EngineSpec

\* However pops, links, redirects, retries and reclaims interleave, no URL is
\* in the hands of two workers while a crawl runs.
THEOREM SingleOwner == EngineSpec /\ MaxFaults = 0 => []OneOwner
<1>1. IInv /\ OwnInv => OneOwner
  <2> SUFFICES ASSUME IInv, OwnInv, main # "join", NEW i \in Owners, NEW j \in Owners,
                      job[i].url = job[j].url
               PROVE  i = j
    BY DEF OneOwner
  <2>1. Undisturbed
    BY DEF OwnInv, Calm, IInv, SessionOK, Owners, Undisturbed, Stopping
  <2>2. i \in Holding /\ j \in Holding
    BY DEF Owners, Holding
  <2> QED
    BY <2>1, <2>2 DEF OwnInv, Apart
<1> QED
  BY <1>1, IInvHolds, OwnInvHolds, PTL

\* No row of in_flight is left without the worker that will settle it.
THEOREM NoUrlStranded == EngineSpec /\ MaxFaults = 0 => []NoneStranded
<1>1. IInv /\ OwnInv => NoneStranded
  <2> SUFFICES ASSUME IInv, OwnInv, Undisturbed, NEW u \in InFlight
               PROVE  \E i \in Worker : job[i] # None /\ job[i].url = u
    BY DEF NoneStranded, Undisturbed
  <2>1. PICK i \in Holding : job[i].url = u
    BY DEF OwnInv, Held
  <2>2. job[i] \in Job
    BY DEF IInv, WorkersOK, JobHeld, Holding, Chain
  <2> QED
    BY <2>1, <2>2, EngineAssumption DEF Holding
<1> QED
  BY <1>1, IInvHolds, OwnInvHolds, PTL

-----------------------------------------------------------------------------
(* With any faults: a closed session is clean.                               *)

Unemployed == \A i \in Worker : pc[i] \notin Chain \cup {"settle"} => job[i] = None
NobodyWorks == \A i \in Worker : pc[i] \in {"off", "done"}

CleanInv ==
  /\ Unemployed
  /\ main \in Starting \cup Ended => NobodyWorks
  /\ main = "closed" => InFlight = {}

\* A session that ends clean stays so whatever its workers do,
LEMMA WorkerKeepsClean ==
  ASSUME IInv, CleanInv, NEW i \in Worker, ChainStep(i) \/ FaultStep(i)
  PROVE  CleanInv'
<1>1. pc \in [Worker -> PC] /\ job \in [Worker -> Job \cup {None}]
  BY DEF IInv, WorkersOK
<1>2. /\ OnlyWorker(i)
      /\ \/ job'[i] = None
         \/ pc'[i] \in Chain \cup {"settle"}
         \/ pc[i] \notin Chain \cup {"settle"} /\ job'[i] = job[i]
  <2>1. CASE EnterLoop(i) \/ LeavePause(i) \/ PopNothing(i) \/ ExitLoop(i)
    BY <1>1, <2>1 DEF EnterLoop, LeavePause, PopNothing, ExitLoop, At, Goto, OnlyWorker, Chain
  <2>2. CASE Acquire(i) \/ RobotsAllow(i) \/ RateGrant(i) \/ LinksDone(i) \/ ChainReturns(i)
    BY <1>1, <2>2 DEF Acquire, RobotsAllow, RateGrant, LinksDone, ChainReturns, Goto, OnlyWorker, Chain
  <2>3. CASE Pop(i) \/ Fetched(i) \/ EnqueueLink(i)
    BY <1>1, <2>3 DEF Pop, Fetched, EnqueueLink, At, Goto, OnlyWorker, Chain
  <2>4. ASSUME NEW w \in Chain \cup {"settle"}, NEW disp, End(i, disp, w)
        PROVE  OnlyWorker(i) /\ pc'[i] \in Chain \cup {"settle"}
    BY <1>1, <2>4 DEF End, OnlyWorker
  <2>5. CASE FreeRequeueOrFail(i) \/ ScheduledRequeueOrFail(i, "return") \/ ScheduledRequeueOrFail(i, "settle")
    BY <2>4, <2>5 DEF FreeRequeueOrFail, ScheduledRequeueOrFail, Chain
  <2>6. CASE RobotsDeny(i) \/ Finalize(i) \/ FinalizeTooLate(i)
    BY <2>4, <2>6 DEF RobotsDeny, Finalize, FinalizeTooLate, Chain
  <2>7. CASE Free(i, "done") \/ Free(i, "idle")
    BY <1>1, <2>7 DEF Free, OnlyWorker
  <2> QED
    BY <2>1, <2>2, <2>3, <2>5, <2>6, <2>7
       DEF ChainStep, FaultStep, AcquireRefused, RateStopped, FetchInfraError, FetchError, Settle,
           Cancelled, HandleCancel, ProcessorError, ChainTimeout, DatabaseError
<1>3. pc[i] \notin {"off", "done"}
  BY DEF ChainStep, FaultStep, EnterLoop, LeavePause, Pop, PopNothing, Acquire, AcquireRefused,
         RobotsAllow, RobotsDeny, RateGrant, RateStopped, Fetched, FetchInfraError, FetchError,
         Finalize, FinalizeTooLate, EnqueueLink, LinksDone, ChainReturns, Settle, ExitLoop,
         Cancelled, HandleCancel, ProcessorError, ChainTimeout, DatabaseError, At, Chain
<1>4. main' = main
  BY DEF ChainStep, FaultStep, EnterLoop, LeavePause, Pop, PopNothing, Acquire, AcquireRefused,
         RobotsAllow, RobotsDeny, RateGrant, RateStopped, Fetched, FetchInfraError, FetchError,
         Finalize, FinalizeTooLate, EnqueueLink, LinksDone, ChainReturns, Settle, ExitLoop,
         Cancelled, ProcessorError, ChainTimeout, DatabaseError, control, session
<1>5. main \notin Starting \cup Ended
  BY <1>3 DEF CleanInv, NobodyWorks
<1>6. Unemployed'
  BY <1>2 DEF CleanInv, Unemployed, OnlyWorker
<1> QED
  BY <1>4, <1>5, <1>6 DEF CleanInv, Ended

\* and whatever anybody else does.
LEMMA OthersKeepClean ==
  ASSUME IInv, CleanInv,
         \/ Start \/ StartStep \/ LoopStep \/ Abandon \/ StuckInFlight \/ ShutdownStep
         \/ RequestStop \/ RequestPause \/ RequestResume
         \/ RetryMonitor \/ ReportSitemapUrl
         \/ Crash
  PROVE  CleanInv'
<1>1. ASSUME UNCHANGED <<pc, job>>, main' \in Starting => main \in Starting \cup Ended, main' \notin Ended
      PROVE  CleanInv'
  BY <1>1 DEF CleanInv, Unemployed, NobodyWorks, Ended
<1>2. CASE Start \/ LoopStep \/ Abandon \/ StuckInFlight \/ CancelWorkers \/ JoinTimeout
  BY <1>1, <1>2
     DEF Start, Up, LoopStep, ReadQueue, ReadInFlight, NaturalEnd, NotYet, SeeStop, Abandon,
         StuckInFlight, CancelWorkers, JoinTimeout, MainGoto, session, workers,
         Looping, Stopping, Starting, Ended
<1>3. CASE StartFresh \/ Resume \/ Heal \/ Promote \/ Seed \/ EnqueueTodo \/ DropTodo
  BY <1>1, <1>3
     DEF StartFresh, Resume, Heal, Promote, Seed, EnqueueTodo, DropTodo, MainGoto, workers,
         Starting, Ended
<1>4. CASE StartWorkers
  <2>1. \A i \in Worker : job[i] = None
    BY <1>4 DEF StartWorkers, CleanInv, Unemployed, NobodyWorks, Starting, Chain
  <2> QED
    BY <1>4, <2>1 DEF StartWorkers, MainGoto, CleanInv, Unemployed, Starting, Ended
<1>5. CASE Close
  <2>1. /\ main' = "closed" /\ UNCHANGED <<pc, job>> /\ InFlight' = {}
        /\ \A i \in Worker : pc[i] = "done"
    BY <1>5 DEF Close, MainGoto, workers, Live, ForceFailAllInFlight, InFlight
  <2> QED
    BY <2>1 DEF CleanInv, Unemployed, NobodyWorks
<1>6. CASE RequestStop \/ RequestPause \/ RequestResume \/ RetryMonitor \/ ReportSitemapUrl
  <2>1. UNCHANGED <<main, pc, job>> /\ main \notin Ended
    BY <1>6 DEF RequestStop, Up, RequestPause, RequestResume, RetryMonitor, ReportSitemapUrl,
                engine, workers, Looping, Stopping, Ended
  <2> QED
    BY <1>1, <2>1
<1>7. CASE Crash
  BY <1>7 DEF Crash, CleanInv, Unemployed, NobodyWorks
<1> QED
  BY <1>2, <1>3, <1>4, <1>5, <1>6, <1>7 DEF StartStep, ShutdownStep

\* However a session came to its end, with whatever errors, timeouts and late
\* cancellations: once closed it has no URL in flight and no worker with one.
THEOREM ClosedSessionClean == EngineSpec => []ClosedClean
<1>1. EngineInit => CleanInv
  BY DEF EngineInit, Init, CleanInv, Unemployed, NobodyWorks, InFlight
<1>2. IInv /\ CleanInv /\ [EngineNext]_vars => CleanInv'
  <2>1. ASSUME IInv, CleanInv, EngineNext PROVE CleanInv'
    BY <2>1, WorkerKeepsClean, OthersKeepClean DEF EngineNext
  <2>2. ASSUME CleanInv, UNCHANGED vars PROVE CleanInv'
    BY <2>2 DEF vars, db, engine, CleanInv, Unemployed, NobodyWorks, InFlight
  <2> QED
    BY <2>1, <2>2
<1>3. CleanInv => ClosedClean
  BY DEF CleanInv, Unemployed, NobodyWorks, ClosedClean, Ended, Chain
<1> QED
  BY <1>1, <1>2, <1>3, IInvHolds, PTL DEF EngineSpec

-----------------------------------------------------------------------------
(* The counts of a crawl and its tables                                      *)

\* The tables are finite, though nothing bounds the URLs there are.
TablesFinite ==
  /\ IsFiniteSet(Queued) /\ IsFiniteSet(InFlight) /\ IsFiniteSet(completed) /\ IsFiniteSet(Failed)
  /\ IsFiniteSet(inHands)

CountTypes ==
  /\ sessionIs \in {"off", "opened", "running", "closed"} /\ inHands \subseteq Url
  /\ unsettled \in Nat /\ plan \in Nat /\ proc \in Nat /\ again \in Nat /\ revived \in Nat
  /\ fetched \in Nat /\ met \in Nat
  /\ stats \in [initial : Nat, session : Nat, redirects : Nat]
  /\ saved \in [redirects : Nat, plan : Nat, proc : Nat] /\ calm \in BOOLEAN

\* Every page fetched is counted at most once.
FetchesCounted == stats.session + unsettled <= fetched /\ fetched <= MaxDone

\* A session that is opened has counted nothing yet, and only one that runs has workers.
OpenedEmpty ==
  /\ sessionIs = "opened" => plan = 0 /\ proc = 0 /\ unsettled = 0 /\ revived = 0
  /\ sessionIs # "running" => inHands = {}

\* CompletedCounted from the opening on
CompletedAgree ==
  sessionIs # "off" => stats.initial + stats.session + unsettled = Cardinality(completed) + again

\* The redirects counted are in the session, or saved by the last one.
RedirectsAgree ==
  /\ saved.redirects <= met
  /\ sessionIs # "off" => stats.redirects <= met /\ (calm => stats.redirects = met)
  /\ sessionIs \in {"off", "closed"} /\ calm => saved.redirects = met

TallyInv == TypeOK /\ TablesFinite /\ CountTypes /\ FetchesCounted /\ OpenedEmpty
            /\ CompletedAgree /\ RedirectsAgree /\ PlanCovers

\* A crawl starts with the counts of its empty tables.
LEMMA TallyStarts == TallyInit => TallyInv
<1> SUFFICES ASSUME TallyInit PROVE TallyInv
  OBVIOUS
<1>1. TypeOK
  BY RetryLimitAssumption DEF TallyInit, Init, TypeOK
<1>2. Queued = {} /\ InFlight = {} /\ completed = {} /\ Failed = {} /\ inHands = {}
  BY DEF TallyInit, Init, Queued, InFlight, Failed
<1>3. TablesFinite /\ Cardinality(completed) = 0
  BY <1>2, FS_EmptySet DEF TablesFinite
<1>4. CountTypes /\ FetchesCounted
  BY TallyAssumption DEF TallyInit, CountTypes, FetchesCounted, Nothing0
<1>5. OpenedEmpty /\ CompletedAgree /\ RedirectsAgree /\ PlanCovers
  BY <1>3 DEF TallyInit, OpenedEmpty, CompletedAgree, RedirectsAgree, PlanCovers, Nothing0
<1> QED
  BY <1>1, <1>3, <1>4, <1>5 DEF TallyInv

\* A session uses the tables by their methods only, or empties them.
LEMMA TallyUsesTables == [TallyNext]_tally => [Next]_db \/ ResetAll
<1> SUFFICES ASSUME [TallyNext]_tally PROVE [Next]_db \/ ResetAll
  OBVIOUS
<1>l. Layer \in Depth /\ \A u \in Url : Landing[u] \subseteq Url
  BY TallyAssumption
<1>1. ASSUME NEW u \in Url, Admitted(u) \/ PutBack(u) \/ GivenUp(u) PROVE Next
  BY <1>1, <1>l DEF Admitted, PutBack, GivenUp, Next
<1>2. ASSUME NEW u \in Url, TakenUp(u) \/ Revived(u) PROVE Next
  BY <1>2 DEF TakenUp, Revived, Next
<1>3. ASSUME NEW u \in Url, Committed(u) PROVE Next
  <2>1. \E page \in Landing[u] : MarkCompleted(u, page)
    BY <1>3 DEF Committed
  <2> QED
    BY <2>1, <1>l DEF Next
<1>4. CASE OpenSession
  <2>1. \E n \in RetryLimit : OpenAndRecover(n)
    BY <1>4 DEF OpenSession
  <2> QED
    BY <2>1 DEF Next
<1>5. CASE EndSession
  BY <1>5 DEF EndSession, Next
<1>6. CASE FreshStart
  BY <1>6 DEF FreshStart
<1>7. CASE TakeUp \/ Counted \/ StatsSaved \/ SessionKilled
  BY <1>7 DEF TakeUp, Counted, StatsSaved, SessionKilled
<1>8. ASSUME NEW u \in Url, Dropped(u) PROVE UNCHANGED db
  BY <1>8 DEF Dropped
<1>9. CASE UNCHANGED tally
  BY <1>9 DEF tally
<1> QED
  BY <1>1, <1>2, <1>3, <1>4, <1>5, <1>6, <1>7, <1>8, <1>9 DEF TallyNext

\* What each method does to the URLs that are queued, in flight and failed.
LEMMA RowsMoved ==
  ASSUME TypeOK, NEW u \in Url, NEW d \in Depth
  PROVE  /\ PushToQueueSingle(u, d) \/ PushToQueueAsOwner(u, d) \/ TryScheduleRetry(u, d) =>
              Queued' = Queued \cup {u} /\ InFlight' \subseteq InFlight /\ completed' = completed /\ Failed' \subseteq Failed \cup {u}
         /\ PushToQueueSingle(u, d) => u \notin Queued
         /\ PopFromDomain(u) =>
              u \in Queued /\ Queued' = Queued \ {u} /\ InFlight' = InFlight \cup {u} /\ completed' = completed /\ Failed' = Failed
         /\ LogFailure(u, d) =>
              Queued' = Queued /\ InFlight' \subseteq InFlight /\ completed' = completed /\ Failed' \subseteq Failed \cup {u}
         /\ AtomicRetryReclaim(u) =>
              Queued' = Queued \cup {u} /\ InFlight' = InFlight /\ completed' = completed /\ Failed' \subseteq Failed \cup {u}
         /\ \A page \in Url : MarkCompleted(u, page) =>
              Queued' = Queued /\ InFlight' \subseteq InFlight /\ completed' = completed \cup {page} /\ Failed' \subseteq Failed
<1> USE DepthAssumption, NoneAssumption DEF TypeOK, Queued, InFlight, Failed
<1>1. ASSUME PushToQueueSingle(u, d)
      PROVE  Queued' = Queued \cup {u} /\ InFlight' \subseteq InFlight /\ completed' = completed /\ Failed' = Failed /\ u \notin Queued
  BY <1>1 DEF PushToQueueSingle, CanPushSingle, Known
<1>2. ASSUME PushToQueueAsOwner(u, d)
      PROVE  Queued' = Queued \cup {u} /\ InFlight' \subseteq InFlight /\ completed' = completed /\ Failed' = Failed
  BY <1>2 DEF PushToQueueAsOwner
<1>3. ASSUME TryScheduleRetry(u, d)
      PROVE  Queued' = Queued \cup {u} /\ InFlight' \subseteq InFlight /\ completed' = completed /\ Failed' \subseteq Failed \cup {u}
  BY <1>3 DEF TryScheduleRetry
<1>4. ASSUME PopFromDomain(u)
      PROVE  u \in Queued /\ Queued' = Queued \ {u} /\ InFlight' = InFlight \cup {u} /\ completed' = completed /\ Failed' = Failed
  BY <1>4 DEF PopFromDomain
<1>5. ASSUME LogFailure(u, d)
      PROVE  Queued' = Queued /\ InFlight' \subseteq InFlight /\ completed' = completed /\ Failed' \subseteq Failed \cup {u}
  BY <1>5 DEF LogFailure
<1>6. ASSUME AtomicRetryReclaim(u)
      PROVE  Queued' = Queued \cup {u} /\ InFlight' = InFlight /\ completed' = completed /\ Failed' \subseteq Failed \cup {u}
  <2>1. failures[u] \in FailureRow
    BY <1>6 DEF AtomicRetryReclaim, Retryable
  <2>2. failures[u].depth # None
    BY <2>1 DEF FailureRow
  <2> QED
    BY <1>6, <2>2 DEF AtomicRetryReclaim
<1>7. ASSUME NEW page \in Url, MarkCompleted(u, page)
      PROVE  Queued' = Queued /\ InFlight' \subseteq InFlight /\ completed' = completed \cup {page} /\ Failed' \subseteq Failed
  BY <1>7 DEF MarkCompleted
<1> QED
  BY <1>1, <1>2, <1>3, <1>4, <1>5, <1>6, <1>7

\* One element grown or less.
LEMMA OneMore ==
  ASSUME NEW S, IsFiniteSet(S), NEW x
  PROVE  /\ IsFiniteSet(S \cup {x}) /\ IsFiniteSet(S \ {x})
         /\ Cardinality(S) \in Nat
         /\ Cardinality(S \cup {x}) = IF x \in S THEN Cardinality(S) ELSE Cardinality(S) + 1
         /\ Cardinality(S \ {x}) = IF x \in S THEN Cardinality(S) - 1 ELSE Cardinality(S)
BY FS_AddElement, FS_RemoveElement, FS_CardinalityType

\* A method of the store changes a table and its count by the same.
LEMMA TallyStep == TallyInv /\ [TallyNext]_tally => TallyInv'
<1> SUFFICES ASSUME TallyInv, [TallyNext]_tally PROVE TallyInv'
  OBVIOUS
<1> DEFINE Counts == CountTypes /\ FetchesCounted /\ OpenedEmpty /\ CompletedAgree /\ RedirectsAgree /\ PlanCovers
<1>t. TypeOK'
  <2>1. ResetAll => TypeOK'
    BY DEF TallyInv, ResetAll, TypeOK
  <2> QED
    BY <2>1, TypeStep, TallyUsesTables DEF TallyInv
<1>c. /\ Cardinality(Queued) \in Nat /\ Cardinality(completed) \in Nat /\ Cardinality(inHands) \in Nat
      /\ TypeOK /\ TablesFinite /\ MaxDone \in Nat /\ Layer \in Depth
  BY FS_CardinalityType, TallyAssumption DEF TallyInv, TablesFinite
<1>i. Counts
  BY DEF TallyInv
<1>h. \A u \in inHands : u \in Url
  BY <1>i DEF CountTypes
<1> USE DEF CountTypes, FetchesCounted, OpenedEmpty, CompletedAgree, RedirectsAgree, PlanCovers
<1>1. CASE OpenSession
  <2>1. PICK limit \in RetryLimit : OpenAndRecover(limit)
    BY <1>1 DEF OpenSession
  <2>2. Queued' \subseteq Queued \cup InFlight /\ InFlight' = {} /\ completed' = completed /\ Failed' = Failed
    BY <2>1 DEF OpenAndRecover, Queued, InFlight, Failed
  <2>3. inHands' = {}
    BY <1>1 DEF OpenSession, CountsFrom
  <2>4. IsFiniteSet(Queued \cup InFlight)
    BY <1>c, FS_Union DEF TablesFinite
  <2>5. TablesFinite'
    BY <1>c, <2>2, <2>3, <2>4, FS_Subset, FS_EmptySet DEF TablesFinite
  <2>6. Counts'
    BY <1>1, <1>i, <1>c, <2>2 DEF OpenSession, CountsFrom
  <2> QED
    BY <1>t, <2>5, <2>6 DEF TallyInv
<1>2. CASE FreshStart
  <2>1. Queued' = {} /\ InFlight' = {} /\ completed' = {} /\ Failed' = {} /\ inHands' = {}
    BY <1>2 DEF FreshStart, ResetAll, Queued, InFlight, Failed, CountsFrom
  <2>2. TablesFinite' /\ Cardinality(Queued') = 0 /\ Cardinality(completed') = 0 /\ Cardinality(inHands') = 0
    BY <2>1, FS_EmptySet DEF TablesFinite
  <2>3. Counts'
    BY <1>2, <1>i, <2>2 DEF FreshStart, CountsFrom, Nothing0
  <2> QED
    BY <1>t, <2>2, <2>3 DEF TallyInv
<1>3. CASE TakeUp
  <2>1. UNCHANGED db /\ inHands' = inHands /\ inHands = {} /\ Cardinality(inHands) = 0
    BY <1>3, <1>i, FS_EmptySet DEF TakeUp
  <2>2. TablesFinite' /\ Cardinality(Queued)' = Cardinality(Queued) /\ Cardinality(completed)' = Cardinality(completed)
    BY <2>1, <1>c DEF db, TablesFinite, Queued, InFlight, Failed
  <2>3. DoneBefore \in Nat
    <3>1. IsFiniteSet(Failed \ Retryable)
      BY <1>c, FS_Subset DEF TablesFinite
    <3>2. Cardinality(Failed \ Retryable) \in Nat
      BY <3>1, FS_CardinalityType
    <3> QED
      BY <1>c, <3>2 DEF DoneBefore
  <2>4. Greater(saved.proc, DoneBefore) \in Nat
    BY <1>i, <2>3 DEF Greater
  <2> DEFINE grown == Greater(saved.proc, DoneBefore)
  <2> HIDE DEF grown
  <2>5. /\ proc' = grown /\ plan' = Greater(saved.plan, grown + Cardinality(Queued))
        /\ UNCHANGED <<unsettled, stats, saved, again, revived, fetched, met, calm>>
        /\ sessionIs = "opened" /\ sessionIs' = "running"
    BY <1>3 DEF TakeUp, grown
  <2>6. plan' \in Nat /\ plan' >= grown + Cardinality(Queued)
    BY <2>4, <2>5, <1>c, <1>i DEF Greater, grown
  <2>7. Counts'
    BY <2>1, <2>2, <2>4, <2>5, <2>6, <1>i, <1>c DEF grown
  <2> QED
    BY <1>t, <2>2, <2>7 DEF TallyInv
<1>4. ASSUME NEW u \in Url, Admitted(u) PROVE TallyInv'
  <2>1. PushToQueueSingle(u, Layer) /\ inHands' = inHands
    BY <1>4 DEF Admitted
  <2>2. u \notin Queued /\ Queued' = Queued \cup {u} /\ InFlight' \subseteq InFlight /\ completed' = completed /\ Failed' \subseteq Failed \cup {u}
    BY <2>1, <1>c, RowsMoved
  <2>3. TablesFinite' /\ Cardinality(Queued') = Cardinality(Queued) + 1
    BY <2>1, <2>2, <1>c, OneMore, FS_Subset DEF TablesFinite
  <2>4. Counts'
    BY <1>4, <1>i, <1>c, <2>1, <2>2, <2>3 DEF Admitted
  <2> QED
    BY <1>t, <2>3, <2>4 DEF TallyInv
<1>5. ASSUME NEW u \in Url, TakenUp(u) PROVE TallyInv'
  <2>1. PopFromDomain(u) /\ inHands' = inHands \cup {u}
    BY <1>5 DEF TakenUp
  <2>2. u \in Queued /\ Queued' = Queued \ {u} /\ InFlight' = InFlight \cup {u} /\ completed' = completed /\ Failed' = Failed
    BY <2>1, <1>c, RowsMoved
  <2>3. /\ TablesFinite' /\ Cardinality(Queued') = Cardinality(Queued) - 1
        /\ Cardinality(inHands') = IF u \in inHands THEN Cardinality(inHands) ELSE Cardinality(inHands) + 1
    BY <2>1, <2>2, <1>c, OneMore DEF TablesFinite
  <2>4. Cardinality(inHands') \in Nat /\ Cardinality(inHands') <= Cardinality(inHands) + 1
    BY <2>3, <1>c
  <2>5. Counts'
    BY <1>5, <1>i, <1>c, <2>1, <2>2, <2>3, <2>4 DEF TakenUp
  <2> QED
    BY <1>t, <2>3, <2>5 DEF TallyInv
<1>6. ASSUME NEW u \in Url, Committed(u) PROVE TallyInv'
  <2>1. PICK page \in Landing[u] :
          /\ MarkCompleted(u, page)
          /\ stats' = [stats EXCEPT !.redirects = @ + (IF page = u THEN 0 ELSE 1)]
          /\ met' = met + (IF page = u THEN 0 ELSE 1)
          /\ again' = IF page \in completed THEN again + 1 ELSE again
    BY <1>6 DEF Committed
  <2>2. page \in Url
    BY TallyAssumption
  <2>3. Queued' = Queued /\ InFlight' \subseteq InFlight /\ completed' = completed \cup {page} /\ Failed' \subseteq Failed
    BY <2>1, <2>2, <1>c, RowsMoved
  <2>4. /\ u \in inHands /\ inHands' = inHands \ {u} /\ unsettled' = unsettled + 1 /\ fetched < MaxDone /\ fetched' = fetched + 1
        /\ UNCHANGED <<sessionIs, plan, proc, saved, revived, calm>>
    BY <1>6 DEF Committed
  <2>5. /\ TablesFinite' /\ Cardinality(inHands') = Cardinality(inHands) - 1
        /\ Cardinality(completed') = IF page \in completed THEN Cardinality(completed) ELSE Cardinality(completed) + 1
    BY <2>3, <2>4, <1>c, OneMore, FS_Subset DEF TablesFinite
  <2>6. CountTypes' /\ FetchesCounted' /\ OpenedEmpty'
    BY <2>1, <2>4, <1>i, <1>c
  <2>7. CompletedAgree'
    BY <2>1, <2>4, <2>5, <1>i, <1>c
  <2>8. RedirectsAgree'
    <3> DEFINE hop == IF page = u THEN 0 ELSE 1
    <3>1. stats'.redirects = stats.redirects + hop /\ met' = met + hop /\ hop \in Nat
      BY <2>1, <1>i
    <3> HIDE DEF hop
    <3>2. saved.redirects \in Nat /\ stats.redirects \in Nat /\ met \in Nat /\ saved' = saved /\ calm' = calm
          /\ sessionIs' = sessionIs
      BY <2>4, <1>i
    <3>3. sessionIs = "running"
      BY <2>4, <1>i
    <3>4. saved.redirects <= met /\ stats.redirects <= met /\ (calm => stats.redirects = met)
      BY <3>3, <1>i
    <3> QED
      BY <3>1, <3>2, <3>3, <3>4
  <2>9. PlanCovers'
    BY <2>3, <2>4, <2>5, <1>i, <1>c
  <2> QED
    BY <1>t, <2>5, <2>6, <2>7, <2>8, <2>9 DEF TallyInv
<1>7. CASE Counted
  <2>1. UNCHANGED <<db, inHands>>
    BY <1>7 DEF Counted
  <2>2. TablesFinite' /\ Cardinality(Queued)' = Cardinality(Queued) /\ Cardinality(completed)' = Cardinality(completed)
        /\ Cardinality(inHands)' = Cardinality(inHands)
    BY <2>1, <1>c DEF db, TablesFinite, Queued, InFlight, Failed
  <2>3. Counts'
    BY <1>7, <1>i, <1>c, <2>2 DEF Counted
  <2> QED
    BY <1>t, <2>2, <2>3 DEF TallyInv
<1>8. ASSUME NEW u \in Url, PutBack(u) PROVE TallyInv'
  <2>1. (PushToQueueAsOwner(u, Layer) \/ TryScheduleRetry(u, Layer)) /\ inHands' = inHands \ {u} /\ u \in inHands
    BY <1>8 DEF PutBack
  <2>2. Queued' = Queued \cup {u} /\ InFlight' \subseteq InFlight /\ completed' = completed /\ Failed' \subseteq Failed \cup {u}
    BY <2>1, <1>c, RowsMoved
  <2>3. /\ TablesFinite' /\ Cardinality(inHands') = Cardinality(inHands) - 1
        /\ Cardinality(Queued') = IF u \in Queued THEN Cardinality(Queued) ELSE Cardinality(Queued) + 1
    BY <2>1, <2>2, <1>c, OneMore, FS_Subset DEF TablesFinite
  <2>4. Cardinality(Queued') \in Nat /\ Cardinality(Queued') <= Cardinality(Queued) + 1
    BY <2>3, <1>c
  <2>5. Counts'
    BY <1>8, <1>i, <1>c, <2>1, <2>2, <2>3, <2>4 DEF PutBack
  <2> QED
    BY <1>t, <2>3, <2>5 DEF TallyInv
<1>9. ASSUME NEW u \in Url, GivenUp(u) PROVE TallyInv'
  <2>1. LogFailure(u, Layer) /\ inHands' = inHands \ {u} /\ u \in inHands
    BY <1>9 DEF GivenUp
  <2>2. Queued' = Queued /\ InFlight' \subseteq InFlight /\ completed' = completed /\ Failed' \subseteq Failed \cup {u}
    BY <2>1, <1>c, RowsMoved
  <2>3. TablesFinite' /\ Cardinality(inHands') = Cardinality(inHands) - 1
    BY <2>1, <2>2, <1>c, OneMore, FS_Subset DEF TablesFinite
  <2>4. Counts'
    BY <1>9, <1>i, <1>c, <2>1, <2>2, <2>3 DEF GivenUp
  <2> QED
    BY <1>t, <2>3, <2>4 DEF TallyInv
<1>10. ASSUME NEW u \in Url, Dropped(u) PROVE TallyInv'
  <2>1. UNCHANGED db /\ inHands' = inHands \ {u} /\ u \in inHands
    BY <1>10 DEF Dropped
  <2>2. Queued' = Queued /\ InFlight' = InFlight /\ completed' = completed /\ Failed' = Failed
    BY <2>1 DEF db, Queued, InFlight, Failed
  <2>3. TablesFinite' /\ Cardinality(inHands') = Cardinality(inHands) - 1
    BY <2>1, <2>2, <1>c, OneMore DEF TablesFinite
  <2>4. Counts'
    BY <1>10, <1>i, <1>c, <2>1, <2>2, <2>3 DEF Dropped
  <2> QED
    BY <1>t, <2>3, <2>4 DEF TallyInv
<1>11. ASSUME NEW u \in Url, Revived(u) PROVE TallyInv'
  <2>1. AtomicRetryReclaim(u) /\ inHands' = inHands
    BY <1>11 DEF Revived
  <2>2. Queued' = Queued \cup {u} /\ InFlight' = InFlight /\ completed' = completed /\ Failed' \subseteq Failed \cup {u}
    BY <2>1, <1>c, RowsMoved
  <2>3. /\ TablesFinite'
        /\ Cardinality(Queued') = IF u \in Queued THEN Cardinality(Queued) ELSE Cardinality(Queued) + 1
    BY <2>1, <2>2, <1>c, OneMore, FS_Subset DEF TablesFinite
  <2>4. Cardinality(Queued') \in Nat /\ Cardinality(Queued') <= Cardinality(Queued) + 1
    BY <2>3, <1>c
  <2>5. Counts'
    BY <1>11, <1>i, <1>c, <2>1, <2>2, <2>3, <2>4 DEF Revived
  <2> QED
    BY <1>t, <2>3, <2>5 DEF TallyInv
<1>12. CASE StatsSaved \/ SessionKilled \/ UNCHANGED tally
  <2>1. UNCHANGED db /\ (inHands' = inHands \/ inHands' = {})
    BY <1>12 DEF StatsSaved, SessionKilled, CountsFrom, tally, tallies
  <2>2. Queued' = Queued /\ InFlight' = InFlight /\ completed' = completed /\ Failed' = Failed
    BY <2>1 DEF db, Queued, InFlight, Failed
  <2>3. TablesFinite'
    BY <2>1, <2>2, <1>c, FS_EmptySet DEF TablesFinite
  <2>4. CASE StatsSaved
    <3>1. Counts'
      BY <2>4, <1>i, <1>c, <2>2 DEF StatsSaved
    <3> QED
      BY <1>t, <2>3, <3>1 DEF TallyInv
  <2>5. CASE SessionKilled
    <3>1. /\ sessionIs' = "off" /\ calm' = FALSE /\ plan' = 0 /\ proc' = 0 /\ inHands' = {} /\ unsettled' = 0
          /\ again' = 0 /\ revived' = 0 /\ stats' = [initial |-> 0, session |-> 0, redirects |-> 0]
          /\ UNCHANGED <<saved, fetched, met>>
      BY <2>5 DEF SessionKilled, CountsFrom
    <3>2. CountTypes'
      BY <3>1, <1>i
    <3>4. FetchesCounted'
      <4>1. fetched \in Nat /\ fetched <= MaxDone /\ fetched' = fetched
        BY <3>1, <1>i
      <4>2. (stats.session + unsettled)' = 0
        BY <3>1
      <4> QED
        BY <4>1, <4>2
    <3>3. OpenedEmpty' /\ CompletedAgree' /\ RedirectsAgree' /\ PlanCovers'
      BY <3>1, <1>i
    <3> QED
      BY <1>t, <2>3, <3>2, <3>3, <3>4 DEF TallyInv
  <2>6. CASE UNCHANGED tally
    <3>1. Counts'
      BY <2>6, <1>i, <1>c, <2>2 DEF tally, tallies
    <3> QED
      BY <1>t, <2>3, <3>1 DEF TallyInv
  <2> QED
    BY <1>12, <2>4, <2>5, <2>6
<1>13. CASE EndSession
  <2>1. ForceFailAllInFlight /\ inHands' = inHands
    BY <1>13 DEF EndSession
  <2>2. Queued' = Queued /\ InFlight' = {} /\ completed' = completed /\ Failed' \subseteq Failed \cup InFlight
    BY <2>1 DEF ForceFailAllInFlight, Queued, InFlight, Failed
  <2>3. TablesFinite'
    <3>1. IsFiniteSet(Failed \cup InFlight)
      BY <1>c, FS_Union DEF TablesFinite
    <3> QED
      BY <2>1, <2>2, <3>1, <1>c, FS_EmptySet, FS_Subset DEF TablesFinite
  <2>4. PICK snapshot \in BOOLEAN, layers \in BOOLEAN :
          /\ saved' = [redirects |-> IF snapshot THEN stats.redirects ELSE saved.redirects,
                       plan |-> IF layers THEN plan ELSE saved.plan,
                       proc |-> IF layers THEN proc ELSE saved.proc]
          /\ calm' = (calm /\ snapshot)
    BY <1>13 DEF EndSession
  <2>5. sessionIs = "running" /\ inHands = {} /\ sessionIs' = "closed" /\ UNCHANGED <<inHands, unsettled, stats, plan, proc, again, revived, fetched, met>>
    BY <1>13 DEF EndSession
  <2>6. saved' \in [redirects : Nat, plan : Nat, proc : Nat] /\ calm' \in BOOLEAN
        /\ saved'.redirects = IF snapshot THEN stats.redirects ELSE saved.redirects
    BY <2>4, <1>i
  <2>7. CountTypes' /\ FetchesCounted' /\ OpenedEmpty' /\ CompletedAgree' /\ PlanCovers'
    <3>1. CountTypes' /\ OpenedEmpty' /\ PlanCovers'
      BY <2>5, <2>6, <1>i
    <3>2. FetchesCounted'
      BY <2>5, <1>i
    <3>3. CompletedAgree'
      BY <2>2, <2>5, <1>i
    <3> QED
      BY <3>1, <3>2, <3>3
  <2>8. RedirectsAgree'
    BY <2>4, <2>5, <2>6, <1>i
  <2> QED
    BY <1>t, <2>3, <2>7, <2>8 DEF TallyInv
<1> QED
  BY <1>1, <1>2, <1>3, <1>4, <1>5, <1>6, <1>7, <1>8, <1>9, <1>10, <1>11, <1>12, <1>13 DEF TallyNext

\* Over any number of sessions, crashes, redirects and lost settlements: what is
\* reported as completed is what the tables hold, no layer seems finished before it is,
\* and no count is made twice or forgotten.
THEOREM CountsMatchTables == TallySpec => []TalliesMatch
<1>1. TallyInv => TalliesMatch
  <2> SUFFICES ASSUME TallyInv PROVE TalliesMatch
    OBVIOUS
  <2>1. CompletedCounted
    BY DEF TallyInv, CompletedAgree, CompletedCounted
  <2>2. CumulativeCounts
    BY DEF TallyInv, RedirectsAgree, CumulativeCounts
  <2> QED
    BY <2>1, <2>2 DEF TallyInv, TalliesMatch
<1> QED
  BY TallyStarts, TallyStep, <1>1, PTL DEF TallySpec
=============================================================================

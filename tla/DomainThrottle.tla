---------------------------- MODULE DomainThrottle ----------------------------
(***************************************************************************)
(* network/throttling.py as the processor chain of crawler/engine.py uses  *)
(* it: the permits and the request intervals of one domain.  Domains meet  *)
(* only in the overflow eviction of DomainTracker, which is left out.      *)
(*                                                                         *)
(* No call of the tracker awaits while it holds a lock, so each is a step. *)
(* Clocks are kept as the time left or gone by, up to what a test can tell *)
(* apart; a step takes no time.                                            *)
(***************************************************************************)
EXTENDS Naturals, FiniteSets

CONSTANTS
  Visitor,        \* workers that have popped a URL of this domain
  MaxConcurrency, \* cfg.domain_max_concurrency
  Intervals,      \* what random.uniform(domain_min_delay, domain_max_delay) may give
  CrawlDelay,     \* the Crawl-delay of robots.txt
  LongestDelay,   \* no delay is longer
  StaleTtl        \* DOMAIN_CLEANUP_AGE

ASSUME ThrottleAssumption ==
  /\ IsFiniteSet(Visitor)
  /\ MaxConcurrency \in Nat \ {0}
  /\ LongestDelay \in Nat
  /\ Intervals \subseteq 0 .. LongestDelay
  /\ CrawlDelay \in 1 .. LongestDelay
  /\ StaleTtl \in Nat

VARIABLES
  halted,      \* the stop event
  at,          \* where each visitor is
  wait,        \* how long a visitor still has to wait in the rate limiter
  active,      \* _DomainState.active_count
  free,        \* the value of _DomainState._sem
  customDelay, \* _DomainState.custom_delay, 0 for None
  reserved,    \* how far _DomainState.next_allowed lies ahead
  idle,        \* how long ago last_used was, up to StaleTtl + 1
  sinceFetch   \* how long ago the latest fetch began, up to LongestDelay

permits == <<active, free>>
reservation == <<customDelay, reserved>>
throttle == <<halted, at, wait, permits, reservation, idle, sinceFetch>>

\* A visitor that was refused a permit is still inside the chain: it has to
\* put its URL back first.
Place == {"out", "refused", "robots", "limiter", "waiting", "fetching", "leaving"}
Holders == {v \in Visitor : at[v] \notin {"out", "refused"}}

ThrottleTypeOK ==
  /\ halted \in BOOLEAN
  /\ at \in [Visitor -> Place]
  /\ wait \in [Visitor -> 0 .. LongestDelay]
  /\ active \in Nat /\ free \in Nat
  /\ customDelay \in {0, CrawlDelay}
  /\ reserved \in 0 .. LongestDelay
  /\ idle \in 0 .. StaleTtl + 1 /\ sinceFetch \in 0 .. LongestDelay

GoTo(v, place) == at' = [at EXCEPT ![v] = place]

-----------------------------------------------------------------------------
\* Mutant: the semaphore is not looked at.
MutEnter(v) ==
  /\ at[v] = "out" /\ ~halted
  /\ active' = active + 1 /\ free' = free - 1 /\ idle' = 0
  /\ GoTo(v, "robots")
  /\ UNCHANGED <<halted, wait, reservation, sinceFetch>>

\* try_acquire answers True.
Enter(v) ==
  /\ at[v] = "out" /\ free > 0 /\ ~halted
  /\ active' = active + 1 /\ free' = free - 1 /\ idle' = 0
  /\ GoTo(v, "robots")
  /\ UNCHANGED <<halted, wait, reservation, sinceFetch>>

\* The stop event is set, or try_acquire answers False.
Refuse(v) ==
  /\ at[v] = "out"
  /\ \/ halted /\ UNCHANGED idle
     \/ ~halted /\ free = 0 /\ idle' = 0
  /\ GoTo(v, "refused")
  /\ UNCHANGED <<halted, wait, permits, reservation, sinceFetch>>

\* robots.txt may forbid the URL, and when it was just read set a delay.
Robots(v) ==
  /\ at[v] = "robots"
  /\ \/ UNCHANGED <<customDelay, idle>>
     \/ customDelay' = CrawlDelay /\ idle' = 0
  /\ \E place \in {"limiter", "leaving"} : GoTo(v, place)
  /\ UNCHANGED <<halted, wait, permits, reserved, sinceFetch>>

\* DomainRateLimiter.acquire up to its wait.  The new reservation counts from
\* now, not from the reservation that is waited for.
Reserve(v) ==
  /\ at[v] = "limiter" /\ ~halted
  /\ wait' = [wait EXCEPT ![v] = reserved]
  /\ \E i \in IF customDelay # 0 THEN {customDelay} ELSE Intervals : reserved' = i
  /\ idle' = 0
  /\ GoTo(v, "waiting")
  /\ UNCHANGED <<halted, permits, customDelay, sinceFetch>>

Fetch(v) ==
  /\ at[v] = "waiting" /\ wait[v] = 0 /\ ~halted
  /\ GoTo(v, "fetching")
  /\ sinceFetch' = 0
  /\ UNCHANGED <<halted, wait, permits, reservation, idle>>

\* Stopped in the limiter, fetched, failed, timed out or cancelled
ChainEnds(v) ==
  /\ at[v] \in {"limiter", "waiting", "fetching"}
  /\ GoTo(v, "leaving")
  /\ wait' = [wait EXCEPT ![v] = 0]
  /\ UNCHANGED <<halted, permits, reservation, idle, sinceFetch>>

\* Mutant: the semaphore is released whatever active_count says.
MutRelease ==
  /\ active' = IF active > 0 THEN active - 1 ELSE 0
  /\ free' = free + 1
  /\ idle' = 0

Release ==
  IF active > 0
  THEN active' = active - 1 /\ free' = free + 1 /\ idle' = 0
  ELSE UNCHANGED <<permits, idle>>

\* Mutant: a release that is not in a finally, skipped when the chain is cut.
MutLeave(v) ==
  /\ at[v] \in {"refused", "leaving"}
  /\ Release \/ UNCHANGED <<permits, idle>>
  /\ GoTo(v, "out")
  /\ UNCHANGED <<halted, wait, reservation, sinceFetch>>

\* finally: await domain_concurrency.release(domain), after every chain
Leave(v) ==
  /\ at[v] \in {"refused", "leaving"}
  /\ Release
  /\ GoTo(v, "out")
  /\ UNCHANGED <<halted, wait, reservation, sinceFetch>>

\* DomainTracker.cleanup drops an idle state; the next touch makes a new one.
Cleanup ==
  /\ active = 0 /\ idle > StaleTtl
  /\ free' = MaxConcurrency /\ customDelay' = 0 /\ reserved' = 0
  /\ UNCHANGED <<halted, at, wait, active, idle, sinceFetch>>

Halt ==
  /\ ~halted /\ halted' = TRUE
  /\ UNCHANGED <<at, wait, permits, reservation, idle, sinceFetch>>

Sooner(n) == IF n > 0 THEN n - 1 ELSE 0
Later(n, bound) == IF n < bound THEN n + 1 ELSE n

\* Waking up takes no time worth counting: a wait that is over is left first.
ThrottleTick ==
  /\ \A v \in Visitor : at[v] = "waiting" /\ ~halted => wait[v] > 0
  /\ wait' = [v \in Visitor |-> Sooner(wait[v])]
  /\ reserved' = Sooner(reserved)
  /\ idle' = Later(idle, StaleTtl + 1)
  /\ sinceFetch' = Later(sinceFetch, LongestDelay)
  /\ UNCHANGED <<halted, at, permits, customDelay>>

-----------------------------------------------------------------------------
ThrottleInit ==
  /\ halted = FALSE
  /\ at = [v \in Visitor |-> "out"] /\ wait = [v \in Visitor |-> 0]
  /\ active = 0 /\ free = MaxConcurrency
  /\ customDelay = 0 /\ reserved = 0
  /\ idle = 0 /\ sinceFetch = LongestDelay

ThrottleNext ==
  \/ \E v \in Visitor :
       \/ Enter(v) \/ Refuse(v) \/ Robots(v) \/ Reserve(v) \/ Fetch(v)
       \/ ChainEnds(v) \/ Leave(v)
  \/ Cleanup \/ Halt \/ ThrottleTick

ThrottleSpec == ThrottleInit /\ [][ThrottleNext]_throttle

-----------------------------------------------------------------------------
\* However often permits are given back, and by whom, the semaphore and the
\* counter beside it never drift apart: no release makes a permit from nothing.
PermitsAccounted == active + free = MaxConcurrency

\* A permit is never lost: refusals, time-outs, cancellations and dropped
\* states leave no permit taken that nobody will give back.
NoPermitLost == active <= Cardinality(Holders)

\* Both: the permits of a domain add up and come back, so that the domain is never
\* starved by fetches that are over.
PermitsSafe == PermitsAccounted /\ NoPermitLost

\* At most domain_max_concurrency workers are at work on the domain.
PermitsRespected == Cardinality(Holders) <= MaxConcurrency

\* A fetch does not begin sooner after the one before it than the shortest
\* interval the limiter may choose.
FetchesSpaced ==
  [][ \A v \in Visitor :
        at[v] = "waiting" /\ at'[v] = "fetching" =>
          \E i \in Intervals \cup {CrawlDelay} : sinceFetch >= i ]_throttle

=============================================================================

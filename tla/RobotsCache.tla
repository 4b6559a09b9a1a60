----------------------------- MODULE RobotsCache -----------------------------
(***************************************************************************)
(* class RobotsCache of network/robots.py and those who ask it: a worker   *)
(* in _robots_processor, a task of SitemapDiscovery.  Whoever asks for an  *)
(* origin that is not cached shares one fetch with the others and awaits   *)
(* its task directly, so cancelling one of them cancels the task for all.  *)
(*                                                                         *)
(* No body of _lock, _status_lock or the lock of the rate limiter awaits   *)
(* anything, so none of them is ever found taken: a lookup runs up to      *)
(* `await task` in one step, a fetch ends in one.  Time is counted up to   *)
(* the ttl.  What is cached is a parser of RobotsRules.                    *)
(***************************************************************************)
EXTENDS RobotsRules, FiniteSets, Functions

CONSTANTS
  Origin,      \* scheme and host
  Caller,      \* workers and discovery tasks
  Ttl,         \* robots_cache_ttl
  CacheMax,    \* robots_cache_max_size
  FetchMax,    \* ROBOTS_FETCH_MAX_CONCURRENT
  MaxCancels   \* bound: chain timeouts that strike during a lookup

ASSUME RobotsAssumption ==
  /\ IsFiniteSet(Origin) /\ Origin # {}
  /\ Ttl \in Nat \ {0} /\ CacheMax \in Nat \ {0} /\ FetchMax \in Nat \ {0} /\ MaxCancels \in Nat

VARIABLES
  cached,      \* _cache: the time left of each parser, which may have run out
  shared,      \* _tasks: no task, a "live" one, or a "dead" one
  waits,       \* fetches before _fetch_semaphore, per origin
  loads,       \* fetches inside it
  fetchPermits, \* its value
  caller,      \* each caller is "out", waiting for an origin, or "gone"
  seeks,       \* the origin it last asked for
  cancels

robots == <<cached, shared, waits, loads, fetchPermits, caller, seeks, cancels>>

RobotsTypeOK ==
  /\ DOMAIN cached \subseteq Origin /\ Cardinality(DOMAIN cached) <= CacheMax
  /\ \A o \in DOMAIN cached : cached[o] \in 0 .. Ttl
  /\ shared \in [Origin -> {"none", "live", "dead"}]
  /\ waits \in [Origin -> Nat] /\ loads \in [Origin -> Nat] /\ fetchPermits \in 0 .. FetchMax
  /\ caller \in [Caller -> {"out", "waits", "gone"}] /\ seeks \in [Caller -> Origin]
  /\ cancels \in 0 .. MaxCancels

Waiting(o) == {c \in Caller : caller[c] = "waits" /\ seeks[c] = o}
AnswerAll(who) == caller' = [c \in Caller |-> IF c \in who THEN "out" ELSE caller[c]]
Ask(c, o) == seeks' = [seeks EXCEPT ![c] = o]

Fresh(o) == o \in DOMAIN cached /\ cached[o] > 0

-----------------------------------------------------------------------------
(* _get_or_fetch_robots                                                      *)

Hit(c, o) ==
  /\ caller[c] = "out" /\ Fresh(o)
  /\ Ask(c, o)
  /\ UNCHANGED <<cached, shared, waits, loads, fetchPermits, caller, cancels>>

\* Mutant: the task is not looked up before a new one is made.
MutMiss(c, o) ==
  /\ caller[c] = "out" /\ ~Fresh(o) /\ shared[o] # "dead"
  /\ cached' = Restrict(cached, DOMAIN cached \ {o})
  /\ shared' = [shared EXCEPT ![o] = "live"] /\ waits' = [waits EXCEPT ![o] = @ + 1]
  /\ caller' = [caller EXCEPT ![c] = "waits"] /\ Ask(c, o)
  /\ UNCHANGED <<loads, fetchPermits, cancels>>

\* An entry that has run out is deleted; the first to miss starts the fetch.
Miss(c, o) ==
  /\ caller[c] = "out" /\ ~Fresh(o) /\ shared[o] # "dead"
  /\ cached' = Restrict(cached, DOMAIN cached \ {o})
  /\ IF shared[o] = "live" THEN UNCHANGED <<shared, waits>>
     ELSE shared' = [shared EXCEPT ![o] = "live"] /\ waits' = [waits EXCEPT ![o] = @ + 1]
  /\ caller' = [caller EXCEPT ![c] = "waits"] /\ Ask(c, o)
  /\ UNCHANGED <<loads, fetchPermits, cancels>>

\* Awaiting the task that was cancelled raises CancelledError at once, which
\* neither is_allowed nor the worker takes for anything but its own: it returns.
DeadTask(c, o) ==
  /\ caller[c] = "out" /\ ~Fresh(o) /\ shared[o] = "dead"
  /\ cached' = Restrict(cached, DOMAIN cached \ {o})
  /\ caller' = [caller EXCEPT ![c] = "gone"] /\ Ask(c, o)
  /\ UNCHANGED <<shared, waits, loads, fetchPermits, cancels>>

\* The timeout of a chain cancels its worker, hence the task it awaits.  The task
\* does not get to the line that takes it out of _tasks.  The worker that timed
\* out goes on with its next URL; all others that waited take it for their end.
Cancelled(c) ==
  LET o == seeks[c] IN
  /\ caller[c] = "waits" /\ cancels < MaxCancels
  /\ cancels' = cancels + 1
  /\ shared' = [shared EXCEPT ![o] = "dead"]
  /\ waits' = [waits EXCEPT ![o] = 0] /\ loads' = [loads EXCEPT ![o] = 0]
  /\ fetchPermits' = fetchPermits + loads[o]
  /\ caller' = [d \in Caller |-> IF d = c THEN "out" ELSE IF d \in Waiting(o) THEN "gone" ELSE caller[d]]
  /\ UNCHANGED <<cached, seeks>>

-----------------------------------------------------------------------------
(* _fetch_robots                                                             *)

LoadRobots(o) ==
  /\ waits[o] > 0 /\ fetchPermits > 0
  /\ waits' = [waits EXCEPT ![o] = @ - 1] /\ loads' = [loads EXCEPT ![o] = @ + 1]
  /\ fetchPermits' = fetchPermits - 1
  /\ UNCHANGED <<cached, shared, caller, seeks, cancels>>

\* One over the limit: the entry that would run out first goes.  The one just
\* made is the last of the dictionary, so never the first of the oldest.
Evicted(c, o) ==
  LET others == DOMAIN c \ {o} IN
  IF Cardinality(DOMAIN c) <= CacheMax THEN {c}
  ELSE {Restrict(c, DOMAIN c \ {old}) : old \in {e \in others : \A f \in others : c[e] <= c[f]}}

\* Mutant: the task stays registered.
MutRobotsLoaded(o) ==
  /\ loads[o] > 0
  /\ loads' = [loads EXCEPT ![o] = @ - 1] /\ fetchPermits' = fetchPermits + 1
  /\ cached' \in Evicted([p \in DOMAIN cached \cup {o} |-> IF p = o THEN Ttl ELSE cached[p]], o)
  /\ AnswerAll(Waiting(o))
  /\ UNCHANGED <<waits, shared, seeks, cancels>>

\* A fetch that failed is cached as well: it allows everything.
RobotsLoaded(o) ==
  /\ loads[o] > 0
  /\ loads' = [loads EXCEPT ![o] = @ - 1] /\ fetchPermits' = fetchPermits + 1
  /\ cached' \in Evicted([p \in DOMAIN cached \cup {o} |-> IF p = o THEN Ttl ELSE cached[p]], o)
  /\ shared' = [shared EXCEPT ![o] = "none"]
  /\ AnswerAll(Waiting(o))
  /\ UNCHANGED <<waits, seeks, cancels>>

RobotsTick ==
  /\ cached' = [o \in DOMAIN cached |-> IF cached[o] = 0 THEN 0 ELSE cached[o] - 1]
  /\ UNCHANGED <<shared, waits, loads, fetchPermits, caller, seeks, cancels>>

-----------------------------------------------------------------------------
RobotsInit ==
  /\ cached = [o \in {} |-> 0] /\ shared = [o \in Origin |-> "none"]
  /\ waits = [o \in Origin |-> 0] /\ loads = [o \in Origin |-> 0] /\ fetchPermits = FetchMax
  /\ caller = [c \in Caller |-> "out"] /\ seeks = [c \in Caller |-> CHOOSE o \in Origin : TRUE]
  /\ cancels = 0

RobotsNext ==
  \/ \E c \in Caller, o \in Origin : Hit(c, o) \/ Miss(c, o) \/ DeadTask(c, o)
  \/ \E c \in Caller : Cancelled(c)
  \/ \E o \in Origin : LoadRobots(o) \/ RobotsLoaded(o)
  \/ RobotsTick

RobotsSpec == RobotsInit /\ [][RobotsNext]_robots

-----------------------------------------------------------------------------
\* However many ask at once, an origin is fetched once at a time, the semaphore
\* counts the fetches inside it, and whoever waits does so for a fetch that runs:
\* a lookup neither multiplies requests nor waits in vain, whatever was evicted,
\* ran out or was cancelled meanwhile.
FetchSharedByAll ==
  /\ \A o \in Origin : waits[o] + loads[o] = IF shared[o] = "live" THEN 1 ELSE 0
  /\ fetchPermits + Cardinality({o \in Origin : loads[o] > 0}) = FetchMax
  /\ \A o \in Origin : Waiting(o) # {} => shared[o] = "live"

\* Both: whoever asks for the rules of an origin gets the outcome of the one fetch all
\* wait for, and what the rules say of a path is what the longest matching rule of the
\* agent says.
RobotsSound == FetchSharedByAll /\ VerdictOfRFC
=============================================================================

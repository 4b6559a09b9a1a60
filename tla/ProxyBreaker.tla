----------------------------- MODULE ProxyBreaker -----------------------------
(***************************************************************************)
(* The circuit breaker that ProxyHealthTracker keeps for a proxy, and the  *)
(* probes that bring it back.  Proxies have one each and do not influence  *)
(* each other, so one is enough.                                           *)
(*                                                                         *)
(* Any slot may hold a proxy long after its breaker opened: reports come   *)
(* at any time.  Time is counted in rounds of the probe loop, each of which*)
(* finds the proxy reachable or not.  Scores and the choice among proxies  *)
(* are left out.                                                           *)
(***************************************************************************)
EXTENDS Naturals

CONSTANTS
  FailureThreshold,  \* PROXY_FAILURE_THRESHOLD
  Cooldown,          \* PROXY_COOLDOWN in rounds
  TrialTime,         \* PROXY_HALF_OPEN_MIN_DURATION in rounds
  TrialFailures,     \* PROXY_HALF_OPEN_MAX_FAILURES
  Weight             \* what a failure may count: 1, for a time-out 3

ASSUME BreakerAssumption ==
  /\ FailureThreshold \in Nat \ {0} /\ TrialFailures \in Nat \ {0}
  /\ TrialTime \in Nat /\ Weight \subseteq Nat \ {0}
  /\ Cooldown \in Nat /\ Cooldown > 1

VARIABLES
  circuit,   \* state
  fails,     \* consecutive_failures, up to the threshold
  cool,      \* time left until cooldown_until
  trial,     \* time since halflife_start, up to TrialTime
  tested,    \* halflife_failures, up to TrialFailures
  probed,    \* _probe_ok
  streak,    \* history: rounds in a row, up to two, that found it open and reachable
  overdue    \* history: such rounds since the cooldown ended

breaker == <<circuit, fails, cool, trial, tested, probed, streak, overdue>>

AtMost(n, bound) == IF n < bound THEN n ELSE bound
Longest == (3 * Cooldown) \div 2

BreakerTypeOK ==
  /\ circuit \in {"closed", "open", "half_open"}
  /\ fails \in 0 .. FailureThreshold /\ cool \in 0 .. Longest
  /\ trial \in 0 .. TrialTime /\ tested \in 0 .. TrialFailures
  /\ probed \in 0 .. 1 /\ streak \in 0 .. 2 /\ overdue \in 0 .. 2

BreakerInit ==
  /\ circuit = "closed" /\ fails = 0 /\ cool = 0 /\ trial = 0 /\ tested = 0
  /\ probed = 0 /\ streak = 0 /\ overdue = 0

-----------------------------------------------------------------------------
(* record_failure                                                            *)

Count(w) == fails' = AtMost(fails + w, FailureThreshold)

Open(time) ==
  /\ circuit' = "open" /\ cool' = time
  /\ streak' = 0 /\ overdue' = 0

FailsClosed(w) ==
  /\ circuit = "closed" /\ Count(w)
  /\ IF fails' >= FailureThreshold THEN Open(Cooldown)
     ELSE UNCHANGED <<circuit, cool, streak, overdue>>
  /\ UNCHANGED <<trial, tested, probed>>

\* A report from a slot that still has the proxy.
FailsOpen(w) ==
  /\ circuit = "open" /\ Count(w)
  /\ UNCHANGED <<circuit, cool, trial, tested, probed, streak, overdue>>

FailsOnTrial(w) ==
  /\ circuit = "half_open" /\ trial < TrialTime /\ Count(w)
  /\ tested' = AtMost(tested + 1, TrialFailures)
  /\ UNCHANGED <<circuit, cool, trial, probed, streak, overdue>>

\* The first failure after the trial time decides; with few failures before it
\* the proxy has passed.  Mutant: consecutive_failures is not reset.
MutTrialEnds(w) ==
  /\ circuit = "half_open" /\ trial = TrialTime
  /\ tested' = AtMost(tested + 1, TrialFailures)
  /\ IF tested' >= TrialFailures THEN Count(w) /\ Open(Longest)
     ELSE Count(w) /\ circuit' = "closed" /\ cool' = 0 /\ UNCHANGED <<streak, overdue>>
  /\ UNCHANGED <<trial, probed>>

TrialEnds(w) ==
  /\ circuit = "half_open" /\ trial = TrialTime
  /\ tested' = AtMost(tested + 1, TrialFailures)
  /\ IF tested' >= TrialFailures THEN Count(w) /\ Open(Longest)
     ELSE fails' = 0 /\ circuit' = "closed" /\ cool' = 0 /\ UNCHANGED <<streak, overdue>>
  /\ UNCHANGED <<trial, probed>>

\* record_success closes the breaker in whatever state it is.
Succeeds ==
  /\ fails' = 0
  /\ IF circuit = "closed" THEN UNCHANGED <<circuit, cool, tested>>
     ELSE circuit' = "closed" /\ cool' = 0 /\ tested' = 0
  /\ UNCHANGED <<trial, probed, streak, overdue>>

-----------------------------------------------------------------------------
(* _probe_loop and try_activate                                              *)

Before(time) == IF time = 0 THEN 0 ELSE time - 1

TimePasses == cool' = Before(cool) /\ trial' = AtMost(trial + 1, TrialTime)

\* Rounds skip a proxy that is not open, and forget what they counted.
Skips ==
  /\ circuit # "open" /\ cool' = Before(cool)
  /\ trial' = AtMost(trial + 1, TrialTime) /\ probed' = 0
  /\ UNCHANGED <<circuit, fails, tested, streak, overdue>>

\* Mutant: a proxy that cannot be reached keeps what was counted.
MutUnreachable ==
  /\ circuit = "open" /\ TimePasses
  /\ streak' = 0 /\ overdue' = 0
  /\ UNCHANGED <<circuit, fails, tested, probed>>

Unreachable ==
  /\ circuit = "open" /\ TimePasses
  /\ probed' = 0 /\ streak' = 0 /\ overdue' = 0
  /\ UNCHANGED <<circuit, fails, tested>>

\* try_activate, when it does.
Activate == circuit' = "half_open" /\ fails' = 0 /\ trial' = 0 /\ tested' = 0

\* Mutant: the round at which the cooldown ends is still refused.
MutReachable ==
  /\ circuit = "open" /\ cool' = Before(cool)
  /\ probed' = 1 - probed
  /\ streak' = AtMost(streak + 1, 2)
  /\ overdue' = IF cool' = 0 THEN AtMost(overdue + 1, 2) ELSE 0
  /\ IF probed = 1 /\ cool = 0
     THEN Activate
     ELSE trial' = AtMost(trial + 1, TrialTime) /\ UNCHANGED <<circuit, fails, tested>>

\* Mutant: the count starts again only when the trial is granted.
MutCount ==
  /\ circuit = "open" /\ cool' = Before(cool)
  /\ streak' = AtMost(streak + 1, 2)
  /\ overdue' = IF cool' = 0 THEN AtMost(overdue + 1, 2) ELSE 0
  /\ IF probed >= 1 /\ cool' = 0
     THEN Activate /\ probed' = 0
     ELSE probed' = probed + 1 /\ trial' = AtMost(trial + 1, TrialTime) /\ UNCHANGED <<circuit, fails, tested>>

\* The second success in a row asks for a trial, which is refused until the
\* cooldown is over; either way the count starts again.
Reachable ==
  /\ circuit = "open" /\ cool' = Before(cool)
  /\ probed' = 1 - probed
  /\ streak' = AtMost(streak + 1, 2)
  /\ overdue' = IF cool' = 0 THEN AtMost(overdue + 1, 2) ELSE 0
  /\ IF probed = 1 /\ cool' = 0
     THEN Activate
     ELSE trial' = AtMost(trial + 1, TrialTime) /\ UNCHANGED <<circuit, fails, tested>>

-----------------------------------------------------------------------------
BreakerNext ==
  \/ \E w \in Weight : FailsClosed(w) \/ FailsOpen(w) \/ FailsOnTrial(w) \/ TrialEnds(w)
  \/ Succeeds \/ Skips \/ Unreachable \/ Reachable

BreakerSpec == BreakerInit /\ [][BreakerNext]_breaker

-----------------------------------------------------------------------------
\* A proxy that is chosen before others has room for another failure: no way
\* back to CLOSED, by success or by an uneventful trial, leaves it at the
\* threshold.
ClosedHasRoom == circuit = "closed" => fails < FailureThreshold

\* A proxy is put on trial only after two probes in a row reached it since its
\* breaker last opened, however the count of probes was left before.
ProbedTwice == circuit = "half_open" => streak = 2

\* An open breaker is given its trial by the second round that reaches the
\* proxy after the cooldown, whatever reports come in meanwhile.
RecoversSoon == circuit = "open" => overdue < 2

\* All three: a breaker opens, tries and closes again as it says.
BreakerSound == ClosedHasRoom /\ ProbedTwice /\ RecoversSoon

=============================================================================

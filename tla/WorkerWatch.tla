------------------------------ MODULE WorkerWatch ------------------------------
(***************************************************************************)
(* Who notices that workers die or stop making progress: WorkerSupervisor  *)
(* and its Fuse (crawler/supervisors.py, resilience.py), LivenessTracker   *)
(* (crawler/liveness.py) and the checks of the main loop in                *)
(* crawler/engine.py.  What a worker does with a URL is CrawlEngine's      *)
(* subject; here a worker is at the pause gate, in a chain, or dead.       *)
(*                                                                         *)
(* Heartbeats and deaths are kept as ages, up to what a test can tell      *)
(* apart, so that time can pass for ever.                                  *)
(***************************************************************************)
EXTENDS Naturals, Sequences, FiniteSets

CONSTANTS
  Index,         \* worker indices
  MaxRestarts,   \* WorkerSupervisor max_restarts
  FuseWindow,    \* WorkerSupervisor within_seconds
  StuckTimeout,  \* WORKER_STUCK_TIMEOUT and STUCK_IN_FLIGHT_TIMEOUT
  Gone           \* no heartbeat is tracked

ASSUME WatchAssumption ==
  /\ MaxRestarts \in Nat /\ FuseWindow \in Nat \ {0} /\ StuckTimeout \in Nat \ {0}
  /\ Gone \notin Nat

VARIABLES
  life,      \* each worker: at the gate, in its chain, dead of an exception, or returned
  beat,      \* age of its last heartbeat, or Gone
  deaths,    \* Fuse._death_times, as ages
  blown,     \* Fuse._is_open
  watching,  \* the supervise task runs
  work,      \* the queue is not empty
  held,      \* ~ _pause_event
  orphan,    \* a dead worker has left a row in in_flight
  more,      \* sitemaps are being read, or failed URLs wait for their retry
  loop,      \* the main loop runs, or why it ended
  stuckFor,  \* how long stuck_in_flight_since lies back, or Gone
  silence    \* for how long, pauses not counted, no worker has sent a heartbeat

workerSide == <<life, beat>>
fuse == <<deaths, blown, watching>>
mainSide == <<work, held, orphan, more, loop, stuckFor>>
watch == <<workerSide, fuse, mainSide, silence>>

Age == 0 .. StuckTimeout + 1
Lives == {"gate", "chain", "raised", "returned"}

WatchTypeOK ==
  /\ life \in [Index -> Lives]
  /\ beat \in [Index -> Age \cup {Gone}]
  /\ deaths \in Seq(0 .. FuseWindow)
  /\ blown \in BOOLEAN /\ watching \in BOOLEAN
  /\ work \in BOOLEAN /\ held \in BOOLEAN
  /\ orphan \in BOOLEAN /\ more \in BOOLEAN /\ silence \in Age
  /\ loop \in {"on", "stuck", "done", "stopped"}
  /\ stuckFor \in Age \cup {Gone}

Running == loop = "on"

-----------------------------------------------------------------------------
(* Workers                                                                   *)

Take(i) ==
  /\ Running /\ life[i] = "gate" /\ ~held /\ work
  /\ life' = [life EXCEPT ![i] = "chain"]
  /\ UNCHANGED <<beat, fuse, mainSide, silence>>

\* Only a chain that returned and was settled is a heartbeat.
Settled(i) ==
  /\ life[i] = "chain"
  /\ life' = [life EXCEPT ![i] = "gate"]
  /\ beat' = [beat EXCEPT ![i] = 0] /\ silence' = 0
  /\ UNCHANGED <<fuse, mainSide>>

\* The chain timed out or raised: the handlers send none.
HandledError(i) ==
  /\ life[i] = "chain"
  /\ life' = [life EXCEPT ![i] = "gate"]
  /\ UNCHANGED <<beat, fuse, mainSide, silence>>

\* A handler itself fails, as a rule because the database does.
Die(i) ==
  /\ life[i] = "chain"
  /\ life' = [life EXCEPT ![i] = "raised"]
  /\ orphan' \in {orphan, TRUE}
  /\ UNCHANGED <<beat, fuse, work, held, more, loop, stuckFor, silence>>

\* Mutant: the worker does not catch it; the supervisor takes it for a shutdown.
MutReturn(i) ==
  /\ life[i] = "chain"
  /\ life' = [life EXCEPT ![i] = "cancelled"]
  /\ UNCHANGED <<beat, fuse, mainSide, silence>>

\* CancelledError out of something the chain awaited
Return(i) ==
  /\ life[i] = "chain"
  /\ life' = [life EXCEPT ![i] = "returned"]
  /\ beat' = [beat EXCEPT ![i] = Gone]
  /\ UNCHANGED <<fuse, mainSide, silence>>

-----------------------------------------------------------------------------
(* WorkerSupervisor.supervise and Fuse.record_failure                        *)

\* Deaths are in the order of time: those that are too long ago come first.
Expired(ages) == Cardinality({k \in DOMAIN ages : ages[k] >= FuseWindow})
Recent == LET all == Append(deaths, 0) IN SubSeq(all, Expired(all) + 1, Len(all))

\* Mutant: one death too many.
MutBlows == Len(Recent) > MaxRestarts + 1

Blows == Len(Recent) > MaxRestarts

\* one_for_one: the replacement takes over the index and its heartbeat.
Replace(i) ==
  /\ watching /\ Running /\ life[i] = "raised" /\ ~Blows
  /\ deaths' = Recent
  /\ life' = [life EXCEPT ![i] = "gate"]
  /\ UNCHANGED <<beat, blown, watching, mainSide, silence>>

\* supervise raises; nothing awaits its task before the shutdown.
Blow(i) ==
  /\ watching /\ Running /\ life[i] = "raised" /\ Blows
  /\ deaths' = Recent
  /\ blown' = TRUE /\ watching' = FALSE
  /\ UNCHANGED <<workerSide, mainSide, silence>>

-----------------------------------------------------------------------------
(* The main loop                                                             *)

Stale(i) == beat[i] # Gone /\ beat[i] > StuckTimeout

AllStale == (\E i \in Index : beat[i] # Gone) /\ \A i \in Index : beat[i] # Gone => Stale(i)

\* The queue is not empty.
GiveUpStuck ==
  /\ Running /\ work /\ ~held /\ AllStale
  /\ loop' = "stuck"
  /\ UNCHANGED <<workerSide, fuse, work, held, orphan, more, stuckFor, silence>>

KeepGoing ==
  /\ Running /\ work /\ stuckFor # Gone
  /\ stuckFor' = Gone
  /\ UNCHANGED <<workerSide, fuse, work, held, orphan, more, loop, silence>>

\* The queue is empty: something is in flight, or to come.
Outstanding == orphan \/ more \/ \E i \in Index : life[i] = "chain"

Finish ==
  /\ Running /\ ~work /\ ~Outstanding
  /\ loop' = "done"
  /\ UNCHANGED <<workerSide, fuse, work, held, orphan, more, stuckFor, silence>>

StuckTimer ==
  /\ Running /\ ~work /\ Outstanding
  /\ \/ held /\ stuckFor # Gone /\ stuckFor' = Gone
     \/ ~held /\ stuckFor = Gone /\ stuckFor' = 0
  /\ UNCHANGED <<workerSide, fuse, work, held, orphan, more, loop, silence>>

GiveUpInFlight ==
  /\ Running /\ ~work /\ Outstanding /\ ~held
  /\ stuckFor # Gone /\ stuckFor > StuckTimeout
  /\ loop' = "stuck"
  /\ UNCHANGED <<workerSide, fuse, work, held, orphan, more, stuckFor, silence>>

-----------------------------------------------------------------------------
(* The queue, the user and the clock                                         *)

\* Links found fill the queue, the workers empty it.
QueueChanges ==
  /\ Running /\ \E i \in Index : life[i] = "chain"
  /\ work' = ~work
  /\ UNCHANGED <<workerSide, fuse, held, orphan, more, loop, stuckFor, silence>>

\* Sitemaps and due retries end, and may have filled the queue.
MoreArrives ==
  /\ Running /\ more /\ more' = FALSE
  /\ work' \in {work, TRUE}
  /\ UNCHANGED <<workerSide, fuse, held, orphan, loop, stuckFor, silence>>

Pause ==
  /\ Running /\ ~held /\ held' = TRUE
  /\ UNCHANGED <<workerSide, fuse, work, orphan, more, loop, stuckFor, silence>>

Resume ==
  /\ Running /\ held /\ held' = FALSE
  /\ UNCHANGED <<workerSide, fuse, work, orphan, more, loop, stuckFor, silence>>

Stop ==
  /\ Running /\ loop' = "stopped"
  /\ UNCHANGED <<workerSide, fuse, work, held, orphan, more, stuckFor, silence>>

Older(age, bound) == IF age = Gone \/ age >= bound THEN age ELSE age + 1

WatchTick ==
  /\ Running
  /\ beat' = [i \in Index |-> Older(beat[i], StuckTimeout + 1)]
  /\ stuckFor' = Older(stuckFor, StuckTimeout + 1)
  /\ silence' = IF held THEN silence ELSE Older(silence, StuckTimeout + 1)
  /\ deaths' = [k \in DOMAIN deaths |-> Older(deaths[k], FuseWindow)]
  /\ UNCHANGED <<life, blown, watching, work, held, orphan, more, loop>>

-----------------------------------------------------------------------------
WatchInit ==
  /\ life = [i \in Index |-> "gate"] /\ beat = [i \in Index |-> 0]
  /\ deaths = <<>> /\ blown = FALSE /\ watching = TRUE
  /\ work = TRUE /\ held = FALSE /\ orphan = FALSE /\ more = TRUE
  /\ loop = "on" /\ stuckFor = Gone /\ silence = 0

MainStep == GiveUpStuck \/ KeepGoing \/ Finish \/ StuckTimer \/ GiveUpInFlight

WatchNext ==
  \/ \E i \in Index :
       \/ Take(i) \/ Settled(i) \/ HandledError(i) \/ Die(i) \/ Return(i)
       \/ Replace(i) \/ Blow(i)
  \/ MainStep \/ QueueChanges \/ MoreArrives \/ Pause \/ Resume \/ Stop \/ WatchTick

WatchSpec == WatchInit /\ [][WatchNext]_watch

\* Time passes, and the main loop comes round again and again.
FairWatchSpec == WatchSpec /\ WF_watch(WatchTick) /\ WF_watch(MainStep)

-----------------------------------------------------------------------------
\* While the fuse holds, no window saw more deaths than the pool may survive.
FuseBound == ~blown => Cardinality({k \in DOMAIN deaths : deaths[k] < FuseWindow}) <= MaxRestarts

\* Supervision that ended with the fuse does not leave the main loop waiting
\* for a pool of dead workers: the stuck checks end the crawl, unless it is
\* paused.  A pool whose every worker returned is the exception: AllStale asks
\* for a heartbeat to be stale.
DeadPool == /\ blown /\ \A i \in Index : life[i] \in {"raised", "returned"}
            /\ \E i \in Index : life[i] = "raised"
Deserted == DeadPool /\ Running /\ ~held
WatchEnds == Deserted ~> ~Deserted

\* A crawl is given up as stuck only when its workers, given the time to, have
\* been silent for the whole timeout: a pause is not held against them.
PauseHarmless == [][work /\ loop' = "stuck" /\ loop = "on" => silence > StuckTimeout]_watch

=============================================================================

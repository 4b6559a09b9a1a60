---------------------------- MODULE PluginProcess ----------------------------
(***************************************************************************)
(* class SubprocessPlugin of astroframe/_lifecycle.py: creating the child  *)
(* process of a plugin, calling it over a pair of pipes, restarting it     *)
(* when it crashes, closing it, and a cancellation at any await of these.  *)
(* The children share _subprocess_semaphore.                               *)
(*                                                                         *)
(* A step runs from one await to the next.  The child is _host.py: it      *)
(* answers each message with one line.  What a reply says is left out, but *)
(* for whose it is: "mine" for the call that holds the lock, "late" for a  *)
(* call that has gone.                                                     *)
(***************************************************************************)
EXTENDS Naturals, Sequences, FiniteSets

CONSTANTS
  Plugin,           \* SubprocessPlugin objects
  Task,             \* asyncio tasks that use them
  MaxSubprocesses,  \* MAX_SUBPROCESSES
  MaxCrashRestarts, \* MAX_CRASH_RESTARTS
  MaxMishaps,       \* bound: cancellations and replies over the reader's limit
  Nobody            \* the holder of a free lock

ASSUME PluginAssumption ==
  /\ IsFiniteSet(Plugin) /\ Plugin # {} /\ Nobody \notin Task
  /\ MaxSubprocesses \in Nat \ {0} /\ MaxCrashRestarts \in Nat /\ MaxMishaps \in Nat

VARIABLES
  slots,     \* the value of _subprocess_semaphore
  child,     \* "none" without _process; else the process is "up" or "dead"
  hasSlot,      \* _semaphore_held
  crashes,   \* _crash_count
  exhausted, \* _exhausted
  lock,      \* the task that holds _ipc_lock
  inbox,     \* messages the child has not read
  outbox,    \* replies nobody has read
  phase,      \* the object is "new", being "made", "ready", "lost" or "closed"
  stage, on, op, \* where each task is, with which plugin, doing what
  mishaps,   \* mishaps that may still happen
  crossed    \* history: a call was given the reply to another call

process == <<slots, child, hasSlot>>
record == <<crashes, exhausted>>
pipes == <<inbox, outbox>>
places == <<stage, on, op>>
plugins == <<process, record, pipes, lock, phase, places, mishaps, crossed>>

Stage == {"out", "lock", "reply", "kill", "slot", "spawn", "greet", "undo"}

PluginTypeOK ==
  /\ slots \in 0 .. MaxSubprocesses
  /\ child \in [Plugin -> {"none", "up", "dead"}] /\ hasSlot \in [Plugin -> BOOLEAN]
  /\ crashes \in [Plugin -> 0 .. MaxCrashRestarts + 1] /\ exhausted \in [Plugin -> BOOLEAN]
  /\ lock \in [Plugin -> Task \cup {Nobody}]
  /\ inbox \in [Plugin -> Seq({"mine", "late"})] /\ outbox \in [Plugin -> Seq({"mine", "late"})]
  /\ phase \in [Plugin -> {"new", "made", "ready", "lost", "closed"}]
  /\ stage \in [Task -> Stage] /\ on \in [Task -> Plugin] /\ op \in [Task -> {"create", "call", "close"}]
  /\ mishaps \in 0 .. MaxMishaps /\ crossed \in BOOLEAN

Move(t, place) == stage' = [stage EXCEPT ![t] = place] /\ UNCHANGED <<on, op>>
Begin(t, p, what, place) ==
  /\ stage[t] = "out"
  /\ stage' = [stage EXCEPT ![t] = place] /\ on' = [on EXCEPT ![t] = p] /\ op' = [op EXCEPT ![t] = what]

\* The task leaves the method it is in: the lock, if it has it, is released.
Done(t) ==
  /\ Move(t, "out")
  /\ lock' = [p \in Plugin |-> IF lock[p] = t THEN Nobody ELSE lock[p]]
Becomes(p, state) == phase' = [phase EXCEPT ![p] = state]

\* Nobody waits for these replies any more.
Late(s) == [k \in DOMAIN s |-> "late"]
Abandon(p) == /\ inbox' = [inbox EXCEPT ![p] = Late(@)]
              /\ outbox' = [outbox EXCEPT ![p] = Late(@)]

Luck == UNCHANGED <<mishaps, crossed>>
Mishap == mishaps > 0 /\ mishaps' = mishaps - 1 /\ UNCHANGED crossed

-----------------------------------------------------------------------------
(* Starting a child: create, and the restart in _handle_crash                *)

Create(t, p) ==
  /\ phase[p] = "new" /\ Becomes(p, "made")
  /\ Begin(t, p, "create", "slot")
  /\ UNCHANGED <<process, record, pipes, lock>> /\ Luck

TakeSlot(t) ==
  /\ stage[t] = "slot" /\ slots > 0
  /\ slots' = slots - 1 /\ hasSlot' = [hasSlot EXCEPT ![on[t]] = TRUE]
  /\ Move(t, "spawn")
  /\ UNCHANGED <<child, record, pipes, lock, phase>> /\ Luck

Spawn(t) ==
  /\ stage[t] = "spawn"
  /\ child' = [child EXCEPT ![on[t]] = "up"]
  /\ Move(t, "greet")
  /\ UNCHANGED <<slots, hasSlot, record, pipes, lock, phase>> /\ Luck

\* Handshake and setup were answered.  A restart does not repeat the call.
Greeted(t) ==
  /\ stage[t] = "greet" /\ child[on[t]] = "up"
  /\ IF op[t] = "create" THEN Becomes(on[t], "ready") ELSE UNCHANGED phase
  /\ Done(t)
  /\ UNCHANGED <<process, record, pipes>> /\ Luck

ReleaseSlot(p) ==
  /\ slots' = slots + (IF hasSlot[p] THEN 1 ELSE 0)
  /\ hasSlot' = [hasSlot EXCEPT ![p] = FALSE]

\* A failed restart costs one more life.
LoseLife(t) ==
  LET p == on[t] IN
  IF op[t] = "create" THEN UNCHANGED record
  ELSE /\ crashes' = [crashes EXCEPT ![p] = @ + 1]
       /\ exhausted' = [exhausted EXCEPT ![p] = @ \/ crashes[p] + 1 > MaxCrashRestarts]

SpawnFails(t) ==
  /\ stage[t] = "spawn"
  /\ LoseLife(t) /\ ReleaseSlot(on[t])
  /\ IF op[t] = "create" THEN Becomes(on[t], "lost") ELSE UNCHANGED phase
  /\ Done(t)
  /\ UNCHANGED <<child, pipes>> /\ Luck

\* Mutant: a child that does not answer is left alone.
MutGreetFails(t) ==
  /\ stage[t] = "greet"
  /\ LoseLife(t)
  /\ IF op[t] = "create" THEN Becomes(on[t], "lost") ELSE UNCHANGED phase
  /\ Done(t)
  /\ UNCHANGED <<process, pipes>> /\ Luck

\* Refused, exited or timed out
GreetFails(t) ==
  /\ stage[t] = "greet"
  /\ LoseLife(t)
  /\ Move(t, "undo")
  /\ UNCHANGED <<process, pipes, lock, phase>> /\ Luck

-----------------------------------------------------------------------------
(* Calling and closing                                                       *)

Use(t, p) ==
  /\ phase[p] \in {"ready", "closed"}
  /\ \E what \in {"call", "close"} : Begin(t, p, what, "lock")
  /\ UNCHANGED <<process, record, pipes, lock, phase>> /\ Luck

Usable(t) ==
  child[on[t]] # "none" /\ (op[t] = "call" => crashes[on[t]] <= MaxCrashRestarts)

\* "subprocess not running", or nothing to close
Refused(t) ==
  /\ stage[t] = "lock" /\ lock[on[t]] = Nobody /\ ~Usable(t)
  /\ Done(t)
  /\ UNCHANGED <<process, record, pipes, phase>> /\ Luck

Send(t) ==
  LET p == on[t] IN
  /\ stage[t] = "lock" /\ lock[p] = Nobody /\ Usable(t)
  /\ lock' = [lock EXCEPT ![p] = t]
  /\ inbox' = [inbox EXCEPT ![p] = IF child[p] = "up" THEN Append(@, "mine") ELSE @]
  /\ Move(t, "reply")
  /\ UNCHANGED <<process, record, outbox, phase>> /\ Luck

Holding(t) == stage[t] = "reply"

\* One line is one reply, whoever asked for it.
Reply(t) ==
  LET p == on[t] IN
  /\ Holding(t) /\ op[t] = "call" /\ outbox[p] # <<>>
  /\ crossed' = (crossed \/ Head(outbox[p]) = "late")
  /\ crashes' \in {crashes, [crashes EXCEPT ![p] = 0]}      \* an error, a result
  /\ outbox' = [outbox EXCEPT ![p] = Late(Tail(@))]
  /\ inbox' = [inbox EXCEPT ![p] = Late(@)]
  /\ Done(t)
  /\ UNCHANGED <<process, exhausted, phase, mishaps>>

\* readline raises ValueError, which nobody catches, for a line longer than the
\* limit of the reader; what has not arrived yet is read by the next call.
LongReply(t) ==
  /\ Holding(t) /\ outbox[on[t]] # <<>>
  /\ inbox' = [inbox EXCEPT ![on[t]] = Late(@)]
  /\ \E rest \in {outbox[on[t]], Tail(outbox[on[t]])} : outbox' = [outbox EXCEPT ![on[t]] = Late(rest)]
  /\ Done(t)
  /\ UNCHANGED <<process, record, phase>> /\ Mishap

\* Mutant: a call that timed out only raises.
MutGivesUp(t) ==
  /\ Holding(t)
  /\ Abandon(on[t]) /\ Done(t)
  /\ UNCHANGED <<process, record, phase>> /\ Luck

\* Mutant: no timeout around the wait for the reply.
MutWaits(t) ==
  /\ Holding(t) /\ child[on[t]] = "dead"
  /\ crashes' = [crashes EXCEPT ![on[t]] = IF op[t] = "call" THEN @ + 1 ELSE @]
  /\ Move(t, IF op[t] = "call" THEN "kill" ELSE "undo")
  /\ UNCHANGED <<process, exhausted, pipes, lock, phase>> /\ Luck

\* The write fails, the child has exited, or the answer takes too long: a call
\* goes on to _handle_crash, aclose to kill the child anyway.
GivesUp(t) ==
  /\ Holding(t)
  /\ crashes' = [crashes EXCEPT ![on[t]] = IF op[t] = "call" THEN @ + 1 ELSE @]
  /\ Move(t, IF op[t] = "call" THEN "kill" ELSE "undo")
  /\ UNCHANGED <<process, exhausted, pipes, lock, phase>> /\ Luck

\* aclose reads one line and kills the child whatever it says.
CloseAnswered(t) ==
  /\ Holding(t) /\ op[t] = "close" /\ outbox[on[t]] # <<>>
  /\ Move(t, "undo")
  /\ UNCHANGED <<process, record, pipes, lock, phase>> /\ Luck

Reaped(p) ==
  /\ child' = [child EXCEPT ![p] = "none"]
  /\ inbox' = [inbox EXCEPT ![p] = <<>>] /\ outbox' = [outbox EXCEPT ![p] = <<>>]

\* Mutant: the restart keeps no account of the slot it gave back.
MutKilled(t) ==
  /\ stage[t] = "kill"
  /\ Reaped(on[t]) /\ ReleaseSlot(on[t])
  /\ Move(t, "spawn")
  /\ UNCHANGED <<record, lock, phase>> /\ Luck

\* Mutant: _crash_count is not compared with the limit.
MutRestarts(t) ==
  /\ stage[t] = "kill"
  /\ Reaped(on[t]) /\ ReleaseSlot(on[t])
  /\ Move(t, "slot")
  /\ UNCHANGED <<record, lock, phase>> /\ Luck

\* _kill_process in _handle_crash
Killed(t) ==
  LET p == on[t] IN
  /\ stage[t] = "kill"
  /\ Reaped(p) /\ ReleaseSlot(p)
  /\ IF crashes[p] > MaxCrashRestarts
     THEN exhausted' = [exhausted EXCEPT ![p] = TRUE] /\ Done(t)
     ELSE Move(t, "slot") /\ UNCHANGED <<exhausted, lock>>
  /\ UNCHANGED <<crashes, phase>> /\ Luck

\* Mutant: a release that the flag does not guard.
MutUndone(t) ==
  LET p == on[t] IN
  /\ stage[t] = "undo"
  /\ Reaped(p) /\ slots' = slots + 1 /\ UNCHANGED hasSlot
  /\ Becomes(p, IF op[t] = "create" THEN "lost" ELSE IF op[t] = "close" THEN "closed" ELSE phase[p])
  /\ Done(t)
  /\ UNCHANGED record /\ Luck

\* _kill_process as the last act of create, aclose and a failed restart
Undone(t) ==
  LET p == on[t] IN
  /\ stage[t] = "undo"
  /\ Reaped(p) /\ ReleaseSlot(p)
  /\ Becomes(p, IF op[t] = "create" THEN "lost" ELSE IF op[t] = "close" THEN "closed" ELSE phase[p])
  /\ Done(t)
  /\ UNCHANGED record /\ Luck

-----------------------------------------------------------------------------
(* The child, and cancellation                                               *)

\* _read_line_guarded keeps the first line of what it reads and drops the rest.
Answer(p) ==
  /\ child[p] = "up" /\ inbox[p] # <<>>
  /\ outbox' = [outbox EXCEPT ![p] = Append(@, Head(inbox[p]))]
  /\ inbox' \in {[inbox EXCEPT ![p] = Tail(@)], [inbox EXCEPT ![p] = <<>>]}
  /\ UNCHANGED <<process, record, lock, phase, places>> /\ Luck

ChildDies(p) ==
  /\ child[p] = "up"
  /\ child' = [child EXCEPT ![p] = "dead"]
  /\ inbox' = [inbox EXCEPT ![p] = <<>>]
  /\ UNCHANGED <<slots, hasSlot, record, outbox, lock, phase, places>> /\ Luck

\* except Exception does not see a CancelledError: what was taken stays taken.
CutOff(t) ==
  LET p == on[t] IN
  /\ stage[t] # "out"
  /\ child' = [child EXCEPT ![p] = IF stage[t] \in {"kill", "undo"} /\ @ = "up" THEN "dead" ELSE @]
  /\ IF stage[t] \in {"reply", "kill", "undo"} THEN Abandon(p)
     ELSE /\ \/ UNCHANGED outbox
             \/ stage[t] = "greet" /\ outbox' = [outbox EXCEPT ![p] = Append(@, "late")]
          /\ UNCHANGED inbox
  /\ IF op[t] = "create" THEN Becomes(p, "lost") ELSE UNCHANGED phase
  /\ Done(t)
  /\ UNCHANGED <<slots, hasSlot, record>> /\ Mishap

-----------------------------------------------------------------------------
PluginInit ==
  /\ slots = MaxSubprocesses
  /\ child = [p \in Plugin |-> "none"] /\ hasSlot = [p \in Plugin |-> FALSE]
  /\ crashes = [p \in Plugin |-> 0] /\ exhausted = [p \in Plugin |-> FALSE]
  /\ lock = [p \in Plugin |-> Nobody]
  /\ inbox = [p \in Plugin |-> <<>>] /\ outbox = [p \in Plugin |-> <<>>]
  /\ phase = [p \in Plugin |-> "new"]
  /\ stage = [t \in Task |-> "out"] /\ on \in [Task -> {CHOOSE p \in Plugin : TRUE}]
  /\ op = [t \in Task |-> "call"]
  /\ mishaps = MaxMishaps /\ crossed = FALSE

TaskStep(t) ==
  \/ TakeSlot(t) \/ Spawn(t) \/ Greeted(t) \/ SpawnFails(t) \/ GreetFails(t)
  \/ Refused(t) \/ Send(t) \/ Reply(t) \/ GivesUp(t) \/ CloseAnswered(t)
  \/ Killed(t) \/ Undone(t)

PluginNext ==
  \/ \E t \in Task, p \in Plugin : Create(t, p) \/ Use(t, p)
  \/ \E t \in Task : TaskStep(t) \/ LongReply(t) \/ CutOff(t)
  \/ \E p \in Plugin : Answer(p) \/ ChildDies(p)

PluginSpec == PluginInit /\ [][PluginNext]_plugins

\* Every wait is under a timeout, but those for the lock and the semaphore,
\* which are first come, first served.
FairPluginSpec == PluginSpec /\ \A t \in Task : SF_plugins(TaskStep(t))

-----------------------------------------------------------------------------
\* Through crashes, restarts, closes and cancellations no slot is given back
\* twice: the semaphore and the flags of the plugins always add up.
SlotsAccounted == slots + Cardinality({p \in Plugin : hasSlot[p]}) = MaxSubprocesses

\* No child lives without a slot, so there are at most MAX_SUBPROCESSES; the
\* restart gives its slot back first and has to get it again.
ChildHasSlot == \A p \in Plugin : child[p] # "none" => hasSlot[p]

\* Both: no more children live than MAX_SUBPROCESSES, and no slot is lost.
SlotsHeld == SlotsAccounted /\ ChildHasSlot

Smooth == mishaps = MaxMishaps

\* As long as no call is cancelled and no reply is too long, a call gets its
\* own reply: a timeout takes the pipe down with the child.
OwnReply == Smooth => ~crossed

\* Short of a cancellation, a plugin that could not be created leaves neither
\* a child nor a slot behind.
NothingLeft == Smooth => \A p \in Plugin : phase[p] = "lost" => child[p] = "none" /\ ~hasSlot[p]

\* Each create, call and aclose that is not cancelled comes to an end, whatever
\* the child does and however often it has to be restarted, unless somebody
\* waits for ever for a slot.
EveryUseEnds ==
  []Smooth /\ (\A t \in Task : []<>(stage[t] # "slot"))
    => \A t \in Task : stage[t] # "out" ~> stage[t] = "out"

\* A plugin with restarts left has a child to call.
NeverInLimbo ==
  \A p \in Plugin :
    Smooth /\ phase[p] = "ready" /\ lock[p] = Nobody /\ ~exhausted[p] => child[p] # "none"

=============================================================================

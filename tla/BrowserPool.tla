------------------------------ MODULE BrowserPool ------------------------------
(***************************************************************************)
(* The actor of the browser pool: requests are sent to its mailbox, and    *)
(* each is handled by a task that takes a slot, opens a page, fetches and  *)
(* answers the future its sender waits on.  A semaphore keeps the actor    *)
(* from starting more tasks than can be served.  The engine drains the     *)
(* pool and then shuts it down.                                            *)
(*                                                                         *)
(* PageFetch is what happens between Opened and Answer.                    *)
(***************************************************************************)
EXTENDS Integers, FiniteSets

CONSTANTS
  Request,      \* requests ever sent
  Concurrency,  \* concurrency
  Slots         \* browsers times slots, at least the concurrency

ASSUME PoolAssumption ==
  /\ IsFiniteSet(Request)
  /\ Concurrency \in Nat \ {0} /\ Slots \in Nat /\ Slots >= Concurrency

VARIABLES
  reply,        \* the future of each request
  place,        \* where each request is
  actor,        \* at mailbox.get, at slot_sem.acquire, or ended
  slotSem,      \* _slot_sem
  globalSlots,  \* _global_slots
  tracked,      \* _handle_tasks
  cut,          \* tasks that were cancelled
  closing,      \* how far drain() and shutdown() have come
  awaited,      \* the tasks that drain gathers
  impatient,    \* its timeout has passed
  late,         \* history: requests whose task was started during a drain
  unborn        \* history: requests whose task was cancelled before its first step

ending == <<cut, closing, awaited, impatient, late>>
pool == <<reply, place, actor, slotSem, globalSlots, tracked, ending, unborn>>

At(stages) == {r \in Request : place[r] \in stages}
HasPermit == {"new", "slot", "page"}
HasSlot == {"page", "fetch", "tidy"}
Handled == HasPermit \cup HasSlot

PoolTypeOK ==
  /\ reply \in [Request -> {"none", "open", "set", "cancelled"}]
  /\ place \in [Request -> {"out", "mail", "actor", "lost", "done"} \cup Handled]
  /\ actor \in {"get", "permit", "off"}
  /\ slotSem \in 0 .. Concurrency /\ globalSlots \in 0 .. Slots
  /\ {tracked, cut, awaited, late, unborn} \subseteq SUBSET Request
  /\ closing \in {"no", "drain", "drained", "shutdown", "closed"} /\ impatient \in BOOLEAN

PoolInit ==
  /\ reply = [r \in Request |-> "none"] /\ place = [r \in Request |-> "out"]
  /\ actor = "get" /\ slotSem = Concurrency /\ globalSlots = Slots
  /\ tracked = {} /\ cut = {} /\ awaited = {} /\ late = {} /\ unborn = {}
  /\ closing = "no" /\ impatient = FALSE

Goes(r, stage) == place' = [place EXCEPT ![r] = stage]
\* _safe_set_result
Resolve(r) == reply' = [reply EXCEPT ![r] = IF @ = "open" THEN "set" ELSE @]

-----------------------------------------------------------------------------
(* send                                                                      *)

SendRequest(r) ==
  /\ place[r] = "out" /\ closing # "closed"
  /\ Goes(r, "mail") /\ reply' = [reply EXCEPT ![r] = "open"]
  /\ UNCHANGED <<actor, slotSem, globalSlots, tracked, ending, unborn>>

\* The sender is cancelled; its request stays where it is.
GiveUpWaiting(r) ==
  /\ reply[r] = "open" /\ reply' = [reply EXCEPT ![r] = "cancelled"]
  /\ UNCHANGED <<place, actor, slotSem, globalSlots, tracked, ending, unborn>>

-----------------------------------------------------------------------------
(* run                                                                       *)

TakeRequest(r) ==
  /\ actor = "get" /\ place[r] = "mail"
  /\ actor' = "permit" /\ Goes(r, "actor")
  /\ UNCHANGED <<reply, slotSem, globalSlots, tracked, ending, unborn>>

StartHandle(r) ==
  /\ actor = "permit" /\ place[r] = "actor" /\ slotSem > 0
  /\ actor' = "get" /\ slotSem' = slotSem - 1 /\ Goes(r, "new")
  /\ tracked' = tracked \cup {r}
  /\ late' = IF closing = "drain" THEN late \cup {r} ELSE late
  /\ UNCHANGED <<reply, globalSlots, cut, closing, awaited, impatient, unborn>>

-----------------------------------------------------------------------------
(* _handle                                                                   *)

Begins(r) ==
  /\ place[r] = "new" /\ r \notin cut
  /\ Goes(r, "slot")
  /\ UNCHANGED <<reply, actor, slotSem, globalSlots, tracked, ending, unborn>>

GetSlot(r) ==
  /\ place[r] = "slot" /\ r \notin cut /\ globalSlots > 0
  /\ globalSlots' = globalSlots - 1 /\ Goes(r, "page")
  /\ UNCHANGED <<reply, actor, slotSem, tracked, ending, unborn>>

\* The task ends and gives back what it still has.
Leaves(r) ==
  /\ Goes(r, "done") /\ tracked' = tracked \ {r}
  /\ slotSem' = IF place[r] \in HasPermit THEN slotSem + 1 ELSE slotSem
  /\ globalSlots' = IF place[r] \in HasSlot THEN globalSlots + 1 ELSE globalSlots
  /\ UNCHANGED <<actor, ending, unborn>>

\* Mutant: the sender of a request for a slot that is no longer valid is
\* not told.
MutNoSuchPage(r) == place[r] = "page" /\ r \notin cut /\ Leaves(r) /\ UNCHANGED reply

\* Mutant: the semaphore is forgotten on this way out.
MutPermitLost(r) ==
  /\ place[r] = "page" /\ r \notin cut /\ Resolve(r)
  /\ Goes(r, "done") /\ tracked' = tracked \ {r} /\ globalSlots' = globalSlots + 1
  /\ UNCHANGED <<actor, slotSem, ending, unborn>>

\* No context pool, a slot that is not valid, or no page to be had.
NoSuchPage(r) == place[r] = "page" /\ r \notin cut /\ Resolve(r) /\ Leaves(r)

Opened(r) ==
  /\ place[r] = "page" /\ r \notin cut
  /\ slotSem' = slotSem + 1 /\ Goes(r, "fetch")
  /\ UNCHANGED <<reply, actor, globalSlots, tracked, ending, unborn>>

Answer(r) ==
  /\ place[r] = "fetch" /\ r \notin cut
  /\ Resolve(r) /\ Goes(r, "tidy")
  /\ UNCHANGED <<actor, slotSem, globalSlots, tracked, ending, unborn>>

PageClosed(r) == place[r] = "tidy" /\ r \notin cut /\ Leaves(r) /\ UNCHANGED reply

\* Mutant: a cancelled task gives back its permit whether or not it still has it.
MutCutShort(r) ==
  /\ r \in cut /\ place[r] \in Handled \ {"new"}
  /\ Goes(r, "done") /\ tracked' = tracked \ {r}
  /\ slotSem' = slotSem + 1
  /\ globalSlots' = IF place[r] \in HasSlot THEN globalSlots + 1 ELSE globalSlots
  /\ UNCHANGED <<reply, actor, ending, unborn>>

\* Mutant: without the shield, the cancellation keeps the slot.
MutSlotLost(r) ==
  /\ r \in cut /\ place[r] \in Handled \ {"new"}
  /\ Goes(r, "done") /\ tracked' = tracked \ {r}
  /\ slotSem' = IF place[r] \in HasPermit THEN slotSem + 1 ELSE slotSem
  /\ UNCHANGED <<reply, actor, globalSlots, ending, unborn>>

\* Cancelled wherever it is, it answers nobody.
CutShort(r) == r \in cut /\ place[r] \in Handled \ {"new"} /\ Leaves(r) /\ UNCHANGED reply

\* A task that is cancelled before its first step never gets to its try.
NeverBegins(r) ==
  /\ r \in cut /\ place[r] = "new"
  /\ Goes(r, "done") /\ tracked' = tracked \ {r} /\ unborn' = unborn \cup {r}
  /\ UNCHANGED <<reply, actor, slotSem, globalSlots, ending>>

-----------------------------------------------------------------------------
(* drain and shutdown                                                        *)

StartDrain ==
  /\ closing = "no" /\ closing' = "drain"
  /\ awaited' = tracked /\ impatient' = FALSE
  /\ UNCHANGED <<reply, place, actor, slotSem, globalSlots, tracked, cut, late, unborn>>

\* wait_for cancels what it gathers, and waits for it.
DrainTimeout ==
  /\ closing \in {"drain", "shutdown"} /\ ~impatient
  /\ At(Handled) \cap awaited # {}
  /\ impatient' = TRUE /\ cut' = cut \cup awaited
  /\ UNCHANGED <<reply, place, actor, slotSem, globalSlots, tracked, closing, awaited, late, unborn>>

Drained == At(Handled) \cap awaited = {}
Untrack ==
  /\ cut' = IF impatient THEN cut \cup tracked ELSE cut
  /\ tracked' = {} /\ awaited' = {}

EndDrain ==
  /\ closing = "drain" /\ Drained /\ Untrack
  /\ closing' = "drained"
  /\ UNCHANGED <<reply, place, actor, slotSem, globalSlots, impatient, late, unborn>>

\* The actor is cancelled; the request in its hands is gone.
StartShutdown ==
  /\ closing = "drained" /\ closing' = "shutdown" /\ actor' = "off"
  /\ place' = [r \in Request |-> IF place[r] = "actor" THEN "lost" ELSE place[r]]
  /\ awaited' = tracked /\ impatient' = FALSE
  /\ UNCHANGED <<reply, slotSem, globalSlots, tracked, cut, late, unborn>>

\* Mutant: shutdown closes the browsers without a second drain.
MutEndShutdown ==
  /\ closing = "shutdown" /\ Untrack
  /\ closing' = "closed"
  /\ place' = [r \in Request |-> IF place[r] = "mail" THEN "done" ELSE place[r]]
  /\ reply' = [r \in Request |-> IF place[r] = "mail" /\ reply[r] = "open" THEN "set" ELSE reply[r]]
  /\ UNCHANGED <<actor, slotSem, globalSlots, impatient, late, unborn>>

\* The browsers are closed and the mailbox is emptied.
EndShutdown ==
  /\ closing = "shutdown" /\ Drained /\ Untrack
  /\ closing' = "closed"
  /\ place' = [r \in Request |-> IF place[r] = "mail" THEN "done" ELSE place[r]]
  /\ reply' = [r \in Request |-> IF place[r] = "mail" /\ reply[r] = "open" THEN "set" ELSE reply[r]]
  /\ UNCHANGED <<actor, slotSem, globalSlots, impatient, late, unborn>>

-----------------------------------------------------------------------------
PoolStep(r) ==
  \/ SendRequest(r) \/ GiveUpWaiting(r) \/ TakeRequest(r) \/ StartHandle(r)
  \/ Begins(r) \/ GetSlot(r) \/ NoSuchPage(r) \/ Opened(r) \/ Answer(r) \/ PageClosed(r)
  \/ CutShort(r) \/ NeverBegins(r)

PoolNext ==
  \/ \E r \in Request : PoolStep(r)
  \/ StartDrain \/ DrainTimeout \/ EndDrain \/ StartShutdown \/ EndShutdown

PoolSpec == PoolInit /\ [][PoolNext]_pool

-----------------------------------------------------------------------------
\* Permits and slots add up, whatever fails, is cancelled or comes late: no
\* path through _handle gives one back twice, and none keeps one but that of a
\* task which never began.
PermitsKept == slotSem + Cardinality(At(HasPermit)) + Cardinality(unborn) = Concurrency
SlotsKept == globalSlots + Cardinality(At(HasSlot)) = Slots

\* On every way out of a task the permit and the slot it had are given back, once.
CapacityKept == PermitsKept /\ SlotsKept

\* A sender that waits is waited for: its request is on its way to an answer,
\* unless a drain cut it short or the shutdown took it from the actor's hands.
SenderServed ==
  \A r \in Request : reply[r] = "open" => place[r] \in {"mail", "actor", "lost"} \cup Handled \/ r \in cut

\* When the browsers are closed no task uses them any more, but for those that
\* were started while the pool was being drained.
NothingRunsOn == closing = "closed" => At(Handled) \subseteq late

=============================================================================
